# ark-iam: a TLA+ verification project

This directory models the parts of ark-iam whose correctness depends on the
order of concurrent steps: refresh-token rotation, authorization codes, single
sign-on sessions and their logout notices, the relying party's key cache, and
so on. Each module is translated from the Go source named beside it in
`PROJECT.json` (`map`); TLC checks the modules on small instances and TLAPS
proves the theorems listed under `theorems` for every value of the constants.

## 1. The system

ark-iam is an identity and access management system: an OpenID provider
(`backend/iam/auth`), a platform console (`backend/iam/platformadmin`), a
tenant console (`backend/iam/tenantadmin`), shared domain code and data access
(`backend/pkg`), an SDK for relying parties (`backend/sdk/rp`) and a web
frontend. State lives in PostgreSQL and Redis; a few short-lived tables live in
the memory of a process. `backend/apps/*` holds the stand-alone executables,
whose services are a near-identical copy of `backend/iam/*`; the models follow
the copy under `backend/iam`.

| Component | State | Operations | Hard behaviour | What makes it correct |
|---|---|---|---|---|
| Refresh tokens (`core/oidcop/persistent_store.go`) | `refresh_token` rows; per process: grace cache and in-flight table | issue, refresh, replay, reuse verdict, revoke by person / id / session | concurrent refreshes, retries, several processes, restarts, bulk statements that race with inserts | a grant has one usable token; a token is exchanged once; a retry gets the same successor; a revocation is final |
| Authorization requests and codes (`core/oidcop/protocol_state_store.go`, `service/svcoidc`) | Redis: request, code, code history with a spent mark | create, complete login, choose tenant, save code, exchange, delete | read-modify-write of a JSON value in Redis, code replay, TTLs | a code is exchanged once; a code belongs to a completed request; a spent code is reported as used |
| SSO sessions and single logout (`pkg/sso`, `core/oidcop/logout_worker.go`, `svcauth`) | Redis: sessions, per-person index, logout registrations, notice queue | create, touch, revoke one / all, register, enqueue, deliver with retries | index read before revocation, sliding TTL, worker crash, retry limit | after a logout no session of the person is active; every registered client is notified or its attempts are spent |
| Login guard (`service/svcloginguard`) | Redis counters with TTL | failure, lock, reset | increment and expiry are separate commands | a locked account stays locked for the whole period; counters never live for ever |
| Connectors (`svcauth/connector*.go`) | Redis: one-time OAuth state; `user_identity` rows | authorize, callback, bind | state replay, two first logins of one identity | a state is consumed once; an identity belongs to one person |
| Relying-party keys (`sdk/rp/keys.go`) | key set, last fetch, rate limit, fallback file | lookup, refresh, background refresh, load / persist fallback | single flight, stale keys, rate limit, endpoint down | a retired key stops verifying; an unknown kid triggers a fetch |
| Relying-party logout receiver (`sdk/rp/logout`) | `jti` store | handle a logout token | duplicates, replays after expiry, revocation failure | a token that is accepted has revoked; a failed one may be retried |
| Relying-party directory (`sdk/rp/directory`) | TTL caches, single flight | get, invalidate, serve stale | invalidation racing a fetch | data older than the TTL is not served as fresh |
| Application access and roles (`pkg/core/application`, `tenantadmin`) | subscriptions, user-application and user-role rows | subscribe, grant, replace, update roles | checks outside the transaction, cascades | a role implies admission (I1/I2); a tenant keeps an administrator (I5) |
| Departments (`tenantadmin/service/svctenant`) | tree rows with a materialised path; memberships | create, move, delete; add / update / remove member | path computed from rows read before the transaction | a stored path is the chain of the parents; a deletion leaves nothing behind; at most one primary department, one leader |
| Membership: invites, tenants, users (`svcauth`, `svctenant`, `pkg/core/tenant`) | invite, tenant, user rows | invite, accept, revoke; create / suspend / delete tenant; reset password | check-then-insert without a unique index | an invite is used once; a suspended tenant has no session |
| Installation and seeding (`svcinstall`, `pkg/seed`, bootstrap guard) | install row, seed rows, a latch in memory | install, bootstrap, probe | two nodes at once, crash in between | installed once; the latch never opens early |
| API keys and client secrets (`platformadmin/svcapplicationclient`, `tenantadmin`) | hashed secrets with status and expiry | create, rotate, revoke, authenticate | overlap during rotation | a revoked secret stops authenticating |
| Menus, permissions, audit, domains | rows | CRUD | none beyond the database's own | - |
| Frontend, gateway, documentation, e2e | - | - | - | not modelled |

How they interact: the login page completes an authorization request and opens
an SSO session; the code exchange issues tokens and registers the client for
logout notices under that session; a logout, a password reset, a suspension or
a reuse verdict revokes refresh-token rows by one statement, enqueues notices
for the registered clients and deletes the sessions; relying parties verify
tokens with cached keys and receive the notices.

## 2. Modelling conventions

* One action is one database statement or transaction, one Redis command (or
  one Lua script or pipeline that Redis runs as a unit), or one critical
  section of a mutex. Control between two of them is interleaved freely.
* PostgreSQL runs at READ COMMITTED, as `gorm.Open` leaves it: a statement sees
  what was committed when it began, waits for the locks it needs, and re-checks
  its condition on the rows it waited for. A bulk `UPDATE` is therefore two
  actions (its snapshot, its effect); a transaction that writes one fresh row
  and one row it locks is one.
* The OpenID library (`github.com/zitadel/oidc`) is not in the tree. It is
  modelled only as the order in which it calls the storage interface.
* The wall clock is an integer that moves by one unit; windows and lifetimes
  are small numbers of units. Tests of the code use the same comparisons
  (`<=`, `>`), and the runs make both sides of every comparison happen.
* History variables (what the code does not store) are marked `history`.
* Definitions marked `Mutant of X` are variants of X with a plausible bug;
  they are used by no specification. For each property of each passing run
  there is one that makes TLC find the property violated.
* A claim module (`MC_*Claims`) states what a comment, a guide or a test says
  and the code does not do; its runs end in a counterexample.

## 3. The modules

### 3.1 Refresh-token rotation

`TokenGrant` is the abstract promise: a grant, named by its first token, has at
most one current token, moves to fresh tokens only, and never reopens.

`RefreshRotation` is the code. State: `issued`, `row` (the table; `revokedAt =
0` is NULL), `origin` and `parent` (history), `grace` and `inflight` per
process, `req` (where each request stands, and what its local variables hold),
`meta` (whose access token has metadata in Redis), `logout` and `revoker` (the
revoking statements). A request passes through `Arrive`
(`TokenRequestByRefreshToken`), `Lookup`, `BeginRotation`, `EndRotation`,
`WakeUp` or `WaitTimeout`, `Relookup` (`refreshWithGrace`), `Prepare`,
`RotateRow` / `DetectReuse` / `RotateFails` (the transaction), `FamilyBegin` and
`FamilyApply` (the family revocation), `Remember`, `StoreMeta` and `Gate` (the
checks of `storage.go`, which run after the rotation). `endRotation` is deferred
inside `refreshWithGrace`, so it runs before the rotation; the model keeps that
order, and one of the findings follows from it.

Abstractions: a token is a model value and is drawn fresh (256 random bits);
scopes, amr, tenant and session id are carried over unchanged and left out; a
client is a value, because the rotated row loses it. The tenant and access
checks are a nondeterministic outcome where their state belongs to other
modules.

Runs (all over one grant):

| Run | Question | Bounds |
|---|---|---|
| `rotation_races` | Do concurrent and repeated refreshes, in one process or in two, split a grant, skip a successor, misjudge a retry that follows the answer, or overfill the cache? | 3 requests, 2 processes, a cache of 2 entries, 3 instants, window 1, lifetime 2 |
| `rotation_faults` | The same with one disturbance (a restart, a logout, the revocation of a session, RFC 7009) and failing statements: does every revocation end the grants it found, does every request end, and does it all implement `TokenGrant`? | 2 requests, 2 instants |

Two requests are enough for every pairwise race; the third lets a grant rotate
twice and a retry meet the second generation. Two clock instants beyond the
first put a lookup inside, at the edge of and outside the window of 1. One
disturbance at a time keeps the second run small: a revocation meets two
requests at every pair of steps.

Fairness: weak fairness of the next step of each request and of each revoking
statement that has begun. A goroutine runs its handler to the end, and Go's
mutex and PostgreSQL's locks are not held across steps of the model. Time,
logins, logouts, arrivals and restarts are not fair: nothing obliges them.

Finding (module `MC_RefreshClaims`, run `claim_client_revocation`): a rotated row
has no client id, so an RFC 7009 revocation of it silently does nothing.

The model shows six more departures that no run states. A second request with
the same token, in one process and in the window, can be judged a reuse although
`persistent_store.go:158` lets it wait for the first: `endRotation` is deferred
inside `refreshWithGrace`, so the in-flight entry is gone before the rotation
(`EndRotation` comes before `Remember`). For the same lack of a client id, the second refresh of a grant is refused, after its rotation has
committed, when `oidc.enforceAppAccess` is on; a reuse outside the window is
refused but the family is not revoked; a replay hands out an access token that
userinfo and introspection refuse; a logout misses the successor of a rotation
that commits while its statement runs; and a token rotated just before a logout
is still granted an access token after it.

Proofs (`RefreshRotationProofs`): the invariants `OneLivePerGrant`,
`SingleSuccessor` and `AnswerIsSuccessor` are not inductive. The inductive
`RotationInv` adds that a token that was replaced is revoked
(`ReplacedIsRevoked`), so a row that is live cannot have a successor yet; that
the stamp a rotation writes is not NULL (`Stamped`), so the consumed row really
dies; and that caches and pending answers hold successors. The argument first
classifies the steps by what they do to the table (`TableStep`: rows only die, a
login adds one, a rotation exchanges one); the table part then has three cases
instead of twenty, and the same three cases are `Close`, `Open` and `Rotate` of
the refinement (`StepRefines`). `RevocationReachesSnapshot` (`RevocationsReach`) says of a statement that
ran that no row of its snapshot is live, nor any other row of their grants, now or
later, except in a grant whose successor was committed between the snapshot and
the write (`spared`, a history variable set when the statement is applied).
`RevocationInv` adds that a statement aims at rows that exist (`Aimed`); that a
grant without a live row stays so (`GrantsOnlyClose`) carries it over every later
step. Every revoking statement may fail (`MayFail`): the code logs the error and
answers as if it had run, the statement then stands at `unrevoked` or `failed`,
and the property promises nothing of it.
`GraceBounded` adds that what a process remembers is a finite set (`GraceInv`):
an entry is added only after an eviction has left room.

`SequentialRetryReplayed` (`RetriesAreReplayed`) speaks of two requests, a cache and
the clock. Its inductive `RetryInv` follows the entry: only the request that
exchanged a token files one for it (`RotatorsApart`, by `SingleSuccessor`), nobody
before it (`NotFiledYet`), and with the stamp it wrote to the row; from then on the
entry is in the cache of that process, or the window has passed, or the history
variable `lost` has the token (`Filed`). A request that has the rotator among those
that answered before it arrived therefore finds the entry, or looked after the
window (`RetriesReplayed`). `lost` holds the tokens whose entry was evicted while it
was fresh, or died with its process: the window lives in the memory of one process,
and the code then judges the retry a reuse, so the property leaves them aside.
Liveness stays with TLC, as the prover does not handle it. Assumptions on the
constants: the null values are not members of their sets, requests and logouts have
different names, windows and bounds are natural numbers, the cache has room for one
entry, and there is a process.


### 3.2 Authorization requests, logins and codes

`OneTimeCode` is the abstract promise: a code is issued once, taken by at most
one exchange, and only its taker can be granted tokens, once.

`AuthCode` is the code. State: `auth`, `code` and `spent` are the Redis keys
(a key with a lifetime is a record with the instant it expires at, and 0 is a
deleted key); `owner`, `alive` and `index` are the SSO sessions and their index
as far as a login sees them, and `lapsed` is history; `temporary` and `member` are the database columns a login reads; `call`
says where each HTTP call stands and what its local variables hold. A call is
one of: password login (`LoginBegin`, `Verify`), registration
(`RegisterPerson`), opening a tenant (`CreateTenantCheck`,
`CreateTenantCommit`), choosing a tenant (`SelectTenant`), silent login
(`SilentBegin`, `SilentRead`), a password change or reset (`ChangePassword`,
`ChangeWrite`, `ResetPassword`) or a logout (`Logout`), which end in the
revocation (`ReadIndex`, `DeleteSession`, `DropIndex`), the callback
of the authorize endpoint (`Callback`, `SaveAuthCode`) and the exchange
(`ConsumeAuthCode`, `CheckSpent`, `LoadRequest`, `MarkSpent`, `IssueTokens`,
`DeleteAuthRequest`). The logins share their tail: `CompleteGet` and
`CompleteSet` (`CompleteAuthRequest`), `CreateSession`, `IndexSession`, `AssociateGet` and
`AssociateSet` (`AssociateSession`); `Missed` is the answer when the request
has expired or is refused. A call may stop after any command (`Stop`).

Abstractions: client, scopes, nonce, PKCE, amr and auth time are left out; the
application gate and `prompt` / `max_age` are a nondeterministic refusal; a
session or an index that ends by its lifetime is `EndSession` or `EndIndex` (the
lifetimes are in `SsoLogout`).

| Run | Question | Bounds |
|---|---|---|
| `code_exchange` | Is a code paid once, and reported as used afterwards, with races, stops and expiries? Does the store implement `OneTimeCode`, and is the inductive invariant kept? Does a revocation that ran end every session whose login had answered before it began? | 4 calls, 1 request; either 2 codes (a code lives 1, a request 2, a mark 2) and no session, or 2 sessions, no code and no hint |
| `racing_logins` | Are tokens issued only to somebody who authenticated on the request, in a tenant of theirs? | 4 calls; a person with two tenants and a newcomer, with and without hints |

A race on one request needs two logins, a callback and an exchange, hence four
calls; a newcomer registers, opens a tenant, and then needs the other two.
The real lifetimes are 5 minutes, 10 minutes and 24 hours. The clock reaches past
the death of codes and marks, so a second presentation meets both a mark that
lives and one that has died; `UsedCodeIsReported` promises nothing in the second
case, nor does the code.

Four calls are also two logins and two revocations, or a login and three: the
second revocation can begin between the commands of the first.

Finding (module `MC_AuthClaims`, run `claim_temporary_password`): a person with
a temporary password can be completed by `SelectTenant`, against the invariant
the comment in `auth.go` derives. Not stated by a run: `AssociateSession`, which
writes the whole request back, can pair the session of one person with the
subject of another; and `sso.go` deletes the index without reading it again, so a
session that a login indexed while one reset ran lives on, and the next reset does
not find it, against the comment of `RevokePersonSessions` that the old sessions
end with the password (`lapsed`, below).

Proofs (`AuthCodeProofs`): `CodePaidOnce` follows from the inductive `CodeInv`:
the code a call took is deleted and was issued (`TakenIsDead`), so nobody can
take it again and it cannot be issued again, and hence it has one taker
(`OneTaker`); `CallsSound` says what a call knows at each place, so that a paid
call is a taker. As before, the argument first classifies the steps by what
they do to codes (`NextMovesCodes`: nothing, expire, save, take, pay); the
invariant and the refinement (`StepRefines`) then have five cases instead of
thirty.

`GrantIsProved` follows from `LoginInv`, which is inductive beside `CodeInv`:
every value of a request in Redis, and every copy a call is about to write back
or be paid for, is proven (`Proven`). The read-modify-writes lose updates, but
each login writes its person and tenant together, and nothing takes back what
people proved (`ValueStaysProven`); so a value that was proven when it was read
is proven when it is written. A request that a hint completed names a person
nobody authenticated until a login overwrites it, hence the exception in
`Proven`. It also rests on memberships only growing: the removal of a member
while a login runs is not modelled.

`PasswordEndsSessions` (`PasswordsEndSessions`) follows from `PasswordInv`: the
session an answered call holds is named by the index while it is alive, unless
it lapsed (`SessionsNamed`), so a revocation that reads the index after the
answer has it in its snapshot until it has deleted it (`SnapshotCovers`); a
session has one owner and does not come back. `lapsed` is what the property sets
aside, and only that: a session in the index when another revocation deletes it,
one whose `DEL` failed, and one whose index ran out. The first needs no fault. A revocation whose `SMEMBERS` failed answers as if it had
run; it stands at `unrevoked` and is promised nothing. Nor is a login that
verified the old password and answers only after the change: its session lives.

`UsedCodeIsReported` (`UsedCodesAreReported`) follows from `ReportInv`: the mark is
written before the tokens are issued, by the one call that took the code
(`OneTaker`), and tells when (`at`), so that whoever was paid before a call began
left a mark that lives for `SpentTTL`; a call that found the code gone reads that
mark after it began, and so is told that the code is unknown only after the mark
has died (`ToldLate`). That a call stops between the deletion of the code and its
mark costs nothing here, as it was not paid.

### 3.3 Sessions, logouts and notices

`SsoLogout` is `pkg/sso` with the worker that delivers the notices. State: `key`
(when a session expires, 0 when it was deleted), `index` (the sessions of a
person, with one lifetime), `reg` (the registrations of a session, with one
lifetime), `queue`, `call` and `worker`; `owner`, `about`, `told`, `gone` and
`lapsed` are history. A call is a login (`CreateSession`, `IndexSession`,
`Unindex`, `IndexTTL`), a registration (`Register`, `RegisterTTL`), a check
(`HasActiveSession`, `Exists`, `Extend`, `ExtendIndex`), or one that ends
sessions (`Logout`), in one of three modes: `logout` stands for
`svcauth.Logout` and `RevokePersonSessions` (list, enqueue, revoke), `end_session`
for `TerminateSessionFromRequest` (revoke, then list by the sid of the hint or
by the person), `password` for `UpdatePassword` (revoke only). They share
`ListSessions`, `ListRegs`, `Push` and `Revoke`, `DeleteSession`, `DropIndex`.
The worker is `Dequeue`, `SendOK`, `SendFails`, `Forget`. Every command may fail,
in the way the code answers its error (it mostly ignores it); a call or a worker
may stop anywhere.

Abstractions: the contents of sessions and tokens, back-off times, and the
signing of the logout token; registrations are one per access token, as the code
keys them by its id.

| Run | Question | Bounds |
|---|---|---|
| `sso_logout` | Do ended sessions stay ended, does the index lead to every session, does a logout end every session opened before it and account for every client registered then? | 1 person, 2 sessions, 1 registration, 1 worker; 4 calls, where a tick of the clock and a notice each stand for a call and a fault for two; lifetimes 2, 3 instants, 2 attempts |
| `claim_end_session` | Does an end_session without a hint notify the clients, as its comment says? | the same |

Four calls are a login, a registration, a logout and one racer; two sessions let
the lifetimes of one index and its sessions drift apart. A fault weighs two, so
it meets two calls. The worker is not bounded: its failures and stops meet every
state of the calls.

`lapsed` names the sessions that the code itself lets out of the index, and the
properties leave them aside: a session whose login was answered after a logout
began, and which the logout did not see before it deleted the index, lives on and
no later logout ends it, although `sso.go:171` calls such orphans excluded; the
same happens when the index runs out between the two `EXPIRE`s of a check, or a
command fails there. `LogoutNotifies` leaves aside a second logout of the same
person, which may drop the index under the first. Two more departures that no run
states: registrations expire a fixed time after the last issuance while sessions
slide on, so a long session ends without notices; and `UpdatePassword` sends no
notices, although `tenant.go:49-50` names it among the calls that do.

Finding (module `MC_SsoClaims`, run `claim_end_session`): the fallback of
end_session to the session cookie revokes before it lists, and notifies nobody.

Proofs (`SsoLogoutProofs`): `DeadStayDead` needs only what a step may do to a key
that exists (`KeysMove`): end it, leave it, or renew it while it is alive. `SsoTypes`,
`IndexCovers` and `LogoutEnds` follow from the inductive `SessionInv`, because neither
`IndexCoversSessions` nor `LogoutEndsSessions` is inductive: that an index covers
its sessions now does not tell that it will at the next tick, nor that a logout
that has read the index has read enough. `Covered` adds that the index lasts as
long as every session it must lead to, unless a call is between the two `EXPIRE`s
of the session and of the index; this holds because a lifetime always starts now
(`StoreOK`), so that whoever renews the index renews it for all. `EndOK` adds what
a call that ends sessions has achieved so far: after it has read the index, every
session it began with is over or on its list (`Covered` again), after the
deletions all are over, and they stay so (`OverGrows`). One lemma per action says
that it preserves `SessionInv`; the actions on one record share `QuietCall`, those
on a key `CoverKept`, those on an index `IndexKept`. Assumptions on the constants:
lifetimes and the number of attempts are positive and the null values are not
members of their sets. The proofs hold for any number of persons, where the run
has one.

`LogoutNotifies` (`LogoutsNotify`) follows from a second inductive invariant,
`NotifyInv`, that says where each notice a logout owes stands (`NoticeOK`): it is
accounted for, which it stays whatever the workers do (`AccountedStays`); or the
call holds the registration (`regs`); or, as long as no time has passed since the
logout began, the index and the registrations (`Reached`), then the list of the
call and the registrations (`Listed`), still lead to it. Within an instant an index
loses a session only to a call that ends sessions of the same person (`IndexStays`),
hence `Undisturbed`, and a set of registrations loses one only to a worker that has
told its client (`RegsStay`, with `WorkersTold`). The proof has one lemma for each
kind of step of a call (`Settles`: it settles what it owes or keeps it in view) and
one for what others do beside it (`BystanderOwes`).

### 3.4 The key set of a relying party

`JwksCache` is `sdk/rp/keys.go`. State: the cache (`keys`, `fetchedAt`,
`lastAttempt`, `inflight`), the fallback `file`, the process (`state`, `ticked`)
and one record per task: a call of `PublicKey`, or the goroutine of `NewKeys` and
then of `backgroundRefresh`. A call is `Verify` (the first lookup), one of
`RefreshLimited`, `RefreshWaits` and `RefreshLeads` (the first critical section
of `refresh`), `Fetch`, `Land` (the second), `Close` (the channel is closed and
its followers go on), the file (`ReadFile`, `Install`; `Snapshot`, `Truncate`,
`Write`), `LookAgain` and `Judge`. `published` is the provider's key set, which
changes at any time; `retired`, `source` and the record's `at`, `from`, `led`,
`steady` are history.

Abstractions: which of several candidate endpoints answers, parsing, signatures.
An HTTP exchange takes less than a unit of the clock: its time-out is three
seconds, the limits are minutes and hours.

| Run | Question | Bounds |
|---|---|---|
| `key_set` | Is one fetch in flight at a time, does a retired key stop verifying, does a fetched key set survive older answers, is every call answered? | 2 calls, 2 keys; 4 events, where a call, a restart, a tick and a change of the provider's keys each count for one; the limits are 1 unit, the period of the background refresh 2 |

Two calls and the background refresh make every mixture of leader and followers;
four events let a key be retired, the clock pass the age and a call follow. The
fetch may fail whenever it happens, which the bound does not count.

Fairness: a goroutine that can go on does, and an HTTP exchange ends (its client
has a time-out); neither calls, nor the ticker, nor the clock need move.

What no property promises: the fallback file is stamped with the time at which it
is read (`keys.go:600`), so with a file and an endpoint that stays down a key set
outlives the maximal age that `keys.go:62-64` calls fail-closed, and every failed
refresh puts the file's older keys in the place of the cached ones.
`RetiredKeysDie` is therefore about key sets that came from the provider. A call
that the rate limit stops does not wait for the fetch in flight, though
`keys.go:305` says the others reuse its result.

Proofs (`JwksCacheProofs`): `SingleFlight` is inductive once the records are typed
(`RecOK` adds that a waiter waits for a task); `RetiredKeysDie` follows from
`CacheInv`, which adds that a key set from the provider holds no key that had been
retired when the set was stamped (`StoreOK`), and that an answer on its way to the
cache is as new as the clock (`RecOK` at `land`), because an exchange ends before
the next tick. `OwnFetchIsKept` (`OwnFetchStays`) needs `Own` and
`Later`: a key that was published all along is in the answer that the call brings,
in the cached key set from then (`led`) until the call looks again, and in every
answer that arrives in between. `EveryCallAnswered` is liveness and stays with TLC.

### 3.5 The directory client of a relying party

`DirectoryCache` is `sdk/rp/directory` with the ETags of the server
(`apps/rpapi`, `writeJSON`). State: `members`, `negatives`, `batchETags` (what an
ETag stands for), `inflight`, `tables` (department tree and roles: one entry with
its ETag) and one record per goroutine. `Member` is `LookUp` and, on a miss,
`CollectMissed`; `Members` is `Members` (what is cached, what is pending), `Lead`
or `Follow`, `Fetch`, `LandFull`, `LandSame` (304) or `LandFails`, `Finish`,
`Reread`; `DepartmentTree` and `Roles` are `ReadTable`, `TableFetch`, `TableLand`.
`directory` is what the provider would say at each instant. `left`, `version`,
`floor` and an entry's `version` and `sure` are history; `sure` says whether the
provider confirmed this content at its stamp.

Abstractions: the fields of a member are one content; an exchange, retries
included, takes less than a unit of the clock; a `401` also drops the cached
machine token, which the next call replaces.

| Run | Question | Bounds |
|---|---|---|
| `directory_cache` | One flight per batch, no confirmed answer older than its lifetime, nothing cached older than an invalidation? | 2 goroutines that call for ever, 2 members and 1 table, of which one member and the table change once; lifetimes 1, 3 instants; a behaviour is about members or about tables, which share nothing |

Two members make batches that overlap; the second one comes along with the first
and is never asked for or invalidated alone. Three instants let an entry expire
and then exceed the tolerated staleness.

`OneFlight` stands for the liveness of followers: a follower waits for a call
that still has to close its flight.

What the properties leave aside, because the code does not promise it or breaks
its promise:

* A removed member is shown again, although `client.go:200` has it reported as
  missing and `ctrdirectory/directory.go:4-5` chose the hash of the body as ETag so
  that removed members do not stay. The 200 that misses it only adds a negative
  entry beside its old one; when that has expired, the batch is asked for with the
  ETag of the answer without the member, and the 304 renews and returns the old
  entry for another `MemberTTL` (`client.go:286`; `LandSame`).
* A follower of a leader that failed takes expired entries as an answer
  (`client.go:253-261`), even when the leader was refused.
* A 304 for one batch stamps entries that another batch has replaced since; after
  `InvalidateMember` a 304 finds no entry and reports a member that exists as
  missing.
* A degraded batch drops the members that were still fresh (`client.go:273-276`).
* A machine token that the provider refuses counts as an unreachable directory
  (`client.go:560`), so a revoked client is served old entries although
  `client.go:474` says it is not.

Proofs (`DirectoryCacheProofs`): `OneFlight` is inductive once it is known what a
call has at hand where it stands (`Sound`): a leader finds nobody in flight, so
nobody waits, and whoever waits on a leader waits for its batch, so that
`finishFlight` wakes them all. `InvalidationHeard` adds that an answer that has
arrived is not older than the floor of anything it names (`AnswersOK`), which a
quiet invalidation cannot break because it finds none. Both hold for any number
of goroutines, members and contents. `FreshAnswers` (`AnswersAreRecent`) types the
answers and follows them from the exchange on: what an answer, a cached entry or an
item at hand says, and is sure of, was the directory's content at its stamp or
later (`Known`, the last instant at which each content was true), and an item is handed out only while its stamp is within `Limit`.

### 3.6 Departments and their members

`Departments` is the tree of one tenant (`svctenant/department.go`) and the
relations of its users to it (`department_user.go`, `user.go`,
`pkg/core/user`). State: `dept` (parent, stored path, stored depth), `rel` (the
live `department_user` rows), `user`, and one record per request under way.
`mixed`, `torn` and `early` are history: which kinds of request have overlapped,
which have stopped half-way, and whether a creation has read its parent before the
parent's own path was written. The tables are `Rows`, which `TenantAccess` shares:
a row more, rows gone, identifiers nobody knows yet, a unique index.

A creation is `CreateStart` (its checks), `CreateInsert` (the row, with its
parent's path) and `CreatePath`; a move is `MoveStart` (the node as `Update` reads
it), `MoveReadParent` and `MoveCommit` (`SubtreeMoved`: the replacement in the
paths of the subtree); a deletion is `DeleteStart`, `DeleteReadSubtree`,
`DeleteReadMembers` and one `DeleteDept` or `DeleteMember` per row, because the
statements in its transaction use the plain connection and commit one by one. The
relations are written by `Relate…` (`departmentUserSvc.Create`), `Converge…`
(its `Update`), `Remove…` (its `Delete`), `Place…` (`userSvc.Update`) and
`Hire…` (`userSvc.Create`). `…Breaks` is a statement that fails, or a process
that stops, after an earlier statement has committed.

A path is the sequence of its identifiers: they are UUIDs of one length, so
prefixes and replacements agree with those of the strings (`Replaced`).
Abstractions: names, order and status; a request names one department, not a
list; a move's transaction is one step (its node's row is locked, and the other
rows are re-checked when they are written); the checks of `requireSystemAdmin`.

| Run | Question | Bounds |
|---|---|---|
| `department_requests` | Do stored paths and depths follow from the parents, does a deletion leave nothing behind, has each department one leader and each user one primary department? | a chain of three departments and two fresh ones, 2 users and a third to hire; 3 requests, 2 at a time, where a behaviour is about the tree or about relations and deletions are in both; depth up to 4 |

Three departments in a chain give a move a subtree with a subtree; three requests
let a leader or a primary row that two of them built be replaced by the third. A
behaviour ends when none of the three properties says anything about it any more.

What the properties leave aside because the code does not promise it, or breaks
its promise:

* Two moves that overlap can put each of two departments under the other, and a
  creation under a subtree that moves keeps the old path: `moveNode` checks
  against rows read before its transaction (`department.go:307`). Only the moved
  node's own depth is checked against `MaxDeptDepth`, so its subtree may go
  deeper, and moving a node to `""` makes a second root although
  `department.go:83` calls the root unique.
* A department whose creation stopped between its two statements carries its
  parent's path: deleting it with `cascade` deletes the parent's whole subtree. The
  same happens to a deletion that reads it before the second statement, and a
  creation below it that comes so early keeps the path of the grandparent
  (`department.go:95-109`); the invariant of the proof brought this one to light,
  and `early` sets it aside.
* A deletion that fails half-way keeps what it has done (`department.go:403`); the
  connection of its transaction is held while each statement asks the pool for a
  second one. `departmentUserSvc.Update` mixes both kinds of statement.
* `automigrate.go:90` calls `uk_dept_user` the database's guard for one leader and
  one primary department; the index is on department, user and type, so two
  requests that overlap make two leaders, or two primary departments.
* `user.go:219` says that a user must have a primary department; a deletion with
  `cascade`, a removal or an `Update` to another type takes it away.

Proofs (`DepartmentsProofs`, with `RowsProofs` for the tables), for any tree, any
depth, any number of users and of requests, any `MaxCalls`:

* `TablesStayTyped` (`BaseInv`): types of rows and of each kind of request, finite
  tables, identifiers drawn once, and that requests under way together are in
  `mixed`, which is what lets the properties speak of one request at a time.
* `OneLeaderOnePrimary` (`SoleInv`): the property says nothing while a relation is
  being written, and then a request knows something about the rows that is no longer
  true of all of them. `SoleItem` says, for each operation and step, that what the
  request is about to commit leaves one of each: a convergence that has its target
  row, for instance, leaves one once `extra` is gone.
* `PathsFollowParents` (`TreeInv`): a move rewrites by text replacement, so the proof
  must know that the old path occurs in a path only as a prefix, and once. `Agree`
  says it: where a department is on two paths, it is in one place, and the paths
  are one up to there. `PathsThere` are the paths to which it applies, those that
  requests have read or are about to store included; `NewPath` is what the
  replacement then makes (`MovedIs`), and a move keeps `Agree` because the node is
  on none of the ancestors of its new parent (`~IsPrefix(old, Front(new))`, the
  check of `moveNode`).
* `DeletionsLeaveNothing` (`HomeInv`): while rows are removed one by one, all that is
  out of place is in what the request has still to remove (`Homes`); the subtree it
  read contains the children of all in it (`SubtreeClosed`), by `TreeInv`.

The recursion of `Replaced` is a function, and its facts are proved by taking the
least index at which they fail (`Least`, from well-founded minimality), because
the induction theorems are out of the provers' reach. TLC checked the four
invariants on the run's instance, and by simulation on larger ones, before they
were proved.

### 3.7 Application access, roles and the last administrator

`TenantAccess` is one tenant with the console, which is built in, and one product
with a role template. State: `role`, `bound` (`user_role` rows), `grant`
(`user_application`: none, withdrawn, or the source that enabled it), `sub`
(`tenant_application`), `template` and one record per request under way; `mixed`
is history.

`UpdateRoles` (the checks of `user.go` and `machine_user.go`), `CheckTarget`,
`CheckOthers` (`hasOtherSystemAdminHolder`), `RolesReadGrant`, `RolesCommit` are
a replacement of a user's roles in one application; `Replace…` with the same two
checks is `access.go:Replace`. `CreateRole` and `DeleteRole…` are `role.go`;
`Publish…` is the platform's change of the template with its distribution to the
subscribers (`SyncAppRoleTemplateToTenants`), `Subscribe…`, `Unsubscribe` and
`SetSubscription` are `tenant_application.go`. The unique indexes on
`user_role`, `user_application` and `tenant_application` are the conditions
`Unique`, `Refused` and the guard of `SubscribeInsert`.

Each step is what a request reads, or its transaction's commit; several queries of
one read are one step where no other request changes what they compare. An
application's status is folded into the subscription's; roles without an
application, names, menus and the suspension or removal of users are left out.

| Run | Question | Bounds |
|---|---|---|
| `tenant_access` | Does a role imply an admission, does an administrator remain, does no binding outlive its role, does a subscriber have the template's roles? | 2 administrators and a service account, one code in the template, 2 identifiers for roles; 3 requests, 2 at a time, or 4 where two or three of them are about the template or the subscription and at most one about a member |

Two administrators are enough to take the role from each other. Three requests
let an admission be given, withdrawn and given again; four let a tenant subscribe,
leave, miss a publication and come back with a member who holds the role.

What the properties leave aside because the code does not promise it, or breaks
its promise:

* `user.go:757` keeps the last administrator to avoid a lock-out; two replacements
  that overlap each find the other's administrator and both commit. Suspending
  the last administrator (`userSvc.Update`) is not checked at all.
* A replacement of admissions that overlaps a replacement of the same user's roles
  leaves a role in an application that does not admit its holder, against I1 and I2
  of `access.go`; two replacements of one user's roles merge their sets.
* A role given while it is being deleted, or withdrawn with the template, leaves a
  binding without a role.
* A publication that reads the subscribers while a subscription commits misses it:
  that tenant has the old template's roles until the next publication.
  `tenant_application.go:83` says that the table has no unique index; it has one.

Proofs (`TenantAccessProofs`), for any number of users, codes and requests: all rest
on `TablesStaySound` (`BaseInv`: types, identifiers of roles drawn once, only people
administer, and requests remember only bindings that were theirs to delete), and each
property adds what a request knows between its reads and its commit: that the
bindings it listed are all there are (`RolesExist`), that a role it is about to give
has its admission (`AdmissionFollowsRole`), that another administrator was there
when it looked (`AdminRemains`), that the roles it read are the tenant's, so that its
commit leaves one per code (`RolesFollowTemplate`). `Admins`, `Role` and `Call` are
assumed finite, because a new row takes an identifier that is neither live nor
remembered, and there must be one (`RoomBeyond` in `RowsProofs`).

## 4. Plan

Done, in this order: `RefreshRotation` with `TokenGrant`; `AuthCode` with
`OneTimeCode`; their proofs; `SsoLogout`; `JwksCache`; `DirectoryCache`;
`Departments`; `TenantAccess`. Each component has one or two passing runs, each as
rich as TLC can exhaust in two or three minutes, and a claim module where the
comments say something the code does not do.

Proved, for every value of the constants: the types and the safety of all seven
components, and the refinements of `OneTimeCode` and of `TokenGrant`; the sections
above say by which invariants. The lemmas that several modules need are in
`RowsProofs` (tables, fresh identifiers) and in the library's modules.

Only model-checked:

* `EveryRequestAnswered` and `EveryCallAnswered`: liveness under fairness, which this
  prover does not reach.
* What the claim runs refute.

Every other property of a passing run is stated by a theorem.

## 5. What is not modelled

The frontend, the gateway's routing, the OpenID library, token signatures and
claims, password hashing, SQL and JSON encoding, configuration, logging and
audit rows (pure data), CRUD of menus, permissions and domains (single
statements without interplay), generated code, and the executables under
`backend/apps`, whose services duplicate `backend/iam`.

Components with some state of their own that have no module, and why:

* **Login guard** (`svcloginguard/guard.go`). Single Redis commands on a counter
  and a lock. Read with care, three things: the counter has no lifetime if the
  process stops between `Incr` and `Expire`; every failure renews the window, so
  failures that are slow enough never leave it; a success clears the lock of the
  address, which the comment wants.
* **Connectors** (`svcauth/connector*.go`). The state is consumed by one `GETDEL`
  and the session is `CreateSession` of `SsoLogout`. Two divergences found in
  reading: `connector_identity.go:153` passes the person's id to gorm's `First` as
  an inline condition, which gorm takes for a primary key only when it is a number,
  so a second login with a bound identity fails with an error of the database (the
  test `connector_test.go:312` uses the id `33` and a fake); and a first login whose
  user name or e-mail already belongs to a person fails on the unique index of
  `person`, so that identity is never bound.
* **Logout receiver** (`sdk/rp/logout/receiver.go`). `SendOK` and `SendFails` of
  `SsoLogout` are its answers. The worker signs a new `jti` for each attempt
  (`logout_worker.go`, `buildLogoutToken`), so a repeated attempt after a lost
  answer is not recognised as a duplicate and revokes again.
* **Membership** (`svcauth/auth.go` `JoinTenant`, `svctenant/invite.go`,
  `platformadmin/svctenant/tenant.go`). `JoinTenant` reads the invitation and the
  membership before its transaction and updates by id alone in it, and `user` has
  no unique index on tenant and person: one invitation can bring two people, one
  person can become two members, and `Revoke` turns an accepted invitation into a
  revoked one. Suspending a tenant revokes tokens and sessions of its members,
  deleting it does not.
* **Installation and seeding.** One transaction under an advisory lock; what could
  go wrong is what PostgreSQL rules out.
* **API keys, machine users, client secrets.** Rows written by single statements
  and read at each request.
