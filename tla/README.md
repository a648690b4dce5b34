# Verification of the Obywatel platform

TLA+ models of the backend in `src/platform` (Go, Fiber, PostgreSQL through
GORM and SQLC, Redis), checked with TLC and proved about with TLAPS. The models
are written from the code; where a comment, a message or the README of the
repository promises something the code does not do, section 3 says so: under
"What the violations say" with a run that shows it, or else under "Remarks".

## 1. The system

| Component | State | Operations | Interacts with |
| --- | --- | --- | --- |
| auth-service, accounts | row of `users`: status, `failed_login_attempts`, `locked_until`, password | `AttemptLogin`, `CanUserLogin`, `IncrementUserFailedLogin`, `PermanentLock`, `ResetFailedLoginAttempts`, full-row `Update` | every flow below reads or saves this row |
| auth-service, two-factor | Redis `login:2fa:<token>`: code, attempts, 5 min | `prepare2FASession`, `Verify2FA`, the Lua script `verify_2fa` | follows a login, leads to a setup session |
| auth-service, password reset | Redis `reset:password:<token>`: code, attempts, verified, challenge, 10 min | `StartResetProcess`, `VerifyCode`, `FinalizeReset` | saves the row, revokes refresh tokens |
| auth-service, devices and sessions | Redis `session:`, `setup:session:`, `challenge:`; tables `user_devices`, `refresh_tokens` | `finalizeLogin`, `RegisterDevice`, `VerifyDeviceSignature`, `RefreshToken`, `Logout`, `GetSessions`, `RevokeSession` | the gateway reads the sessions |
| gateway | none of its own but shared error values | limiter, JWT, `AuthRedisMiddleware`, `ContextBuilder`, `ValidateBody`, two reverse proxies | reads Redis, calls the services |
| audit-service | Redis stream and consumer group; table `audit_logs` | worker: read, save batch, acknowledge; queries | stream written by others |
| notification-service | Redis stream and group; table `notifications` | worker: read, save, acknowledge one by one; list, mark read, trash, restore, delete | stream written by others |
| citizen-docs | tables of profiles and documents | one insert or select per request | gateway |
| version-service | none | answers with constants | |
| shared packages | rate limiters, shared error values, server and shutdown | `GetLimiter`, `SendAppError`, `ErrorHandler`, `InternalAuthMiddleware`, `RunSeed`, `server.Run` | all services |

### What is hard here

* **Read, decide, write.** Handlers run concurrently, and there are no
  transactions: a request reads a row or a key, decides, and writes in further
  calls. The login checks the counter on one read and increments it in another
  call; `Verify2FA` and `FinalizeReset` save whole rows they read earlier;
  `VerifyCode` changes a copy of the session and saves the copy.
* **Dropped errors.** `_ =` in front of `PermanentLock`,
  `Delete2FASession`, `RevokeAllUserTokens`, `RevokeByFingerprint`, bcrypt's
  `GenerateFromPassword`, and others: the request goes on as if they had worked.
* **Order.** `RegisterDevice` stores a device before it checks it.
  `FinalizeReset` writes the password before it revokes tokens and deletes the
  session, and the service may stop between any two of these.
* **Agreement between parts.** Keys, hash formats and tokens are written by one
  handler and read by another.
* **Two processes per request.** The gateway may give up, lose its connection or
  be stopped while the service goes on; it decides on a session that may end
  before the service acts; it and the service each check the same body; and a
  service refuses, or panics on, headers that only the gateway could have set.
* **Start and stop.** A shutdown waits a limited time and then closes the
  database under what is still running, or, with a pgxpool, waits for it without a
  limit; the seeding of the database can be cut short.
* **Conditions nobody wrote.** GORM adds `deleted_at IS NULL` to every statement
  on a soft-deleted model, those on the trash included.
* **Streams.** The workers read new entries only; what was delivered and not
  acknowledged is never read again.

`PROJECT.json` lists these hazards at their lines, with the properties that
cover them or the reason why none does. Where a property excepts the very fault a
hazard is about, and so shows only that nothing else has the same effect, the
hazard says so in a note.

### What makes each component correct

* accounts: the number of wrong passwords is limited; a lock and a new password
  last; a counter at its limit turns into a lock.
* two-factor: every wrong code counts; a used code is dead; one code gives one
  setup session (here: at most one per concurrent request).
* reset: no new password without the code and a signature over the challenge;
  few guesses; old refresh tokens end with the old password.
* devices and sessions: with two-factor no access without a code; a setup
  session is spent once; what is stored can be found again.
* gateway and services: an answer agrees with what was done, and a write is done
  at most once; without a session nothing reaches a service; what is forwarded
  has what the service needs; every request is answered.
* process: a shutdown ends, and closes connections under nobody who could have
  been waited for; the seed is there when the service serves.
* store and queries: what was moved to the trash is listed no more, and is within
  reach of a restore and a clearing (it is not); no row is lost or given away; pages
  pass over no row.
* workers: an entry is acknowledged only if saved, and saved at most once for
  each consumer group; nothing is left behind without a reason; a group that is
  lost comes back.

## 2. Modules

A module of the auth service has one account, token or user, and any number of clients.
A client has one request in flight. **One action is one call on Redis or on a
table, with the code up to the next call**, so TLC explores every interleaving
of calls. Where a call can fail, its failure is an action or a choice next to
it; `Crash` ends all requests at once, wherever they are. A key's time to live
may end at any moment (`Expire...`).

History variables (marked in the modules) remember what properties speak of:
guesses made, tokens used, what went wrong (`faults`). No guard of the code's
actions reads them. Several properties hold *unless* some fault has happened;
the fault is then named exactly (`"staleSave"`, `"overlap"`, `"lost"`, ...), so
that the property says that nothing else can break it.

| Module | Models | Correspondence |
| --- | --- | --- |
| `Account` | one row of `users` and `AttemptLogin`, the tail of `Verify2FA`, the tail of `FinalizeReset` | `user` is the row, `pc[c]` the next call of a request, `row[c]` the copy it holds. `Increment` and `ReadBack` are the two statements of `IncrementUserFailedLogin`; `Verify2FASave` and `FinalizeResetSave` are GORM's `Save`, which writes all columns. A password hash is an algorithm and a password: `security.HashPassword` writes argon2, the reset service bcrypt (`GenerateFromPassword`, whose dropped error makes `EmptyHash` of a password in `TooLong`), `VerifyPassword` reads argon2. Times are the flag `suspended`. |
| `TwoFactor` | the two-factor session | `session[t]` is the `attempts` field under `login:2fa:<t>`; `Script` is `verify_2fa.lua` in one step. `WrongCode` and `RightCode` are `Get2FASession` and the comparison, which comes before the script. `Deleted` and the two grants are the rest of `Verify2FA`. |
| `ResetSession` | the reset session | `session` is the JSON value under `reset:password:<token>`, `copy[c]` what a request has unmarshalled; `Save` overwrites. `FinalizeRead` ... `FinalizeDelete` are the calls of `FinalizeReset` in their order. |
| `DeviceTrust` | from a right password to a session and back | `session`, `setup` and `keys` are the keys in Redis, `trusted` the verified rows of `user_devices`, `tokens` the refresh tokens not revoked. The gateway's lookup is the guard of `RegisterBegin` and `LogoutBegin`; the service looks again (`GetSetupSession`, `GetSession`). Keys and stored tokens are pairs of a prefix (or hash function) and a value, so that a mismatch of prefixes or of hashing shows. |
| `RedisStream` | a stream and its consumer group | operators only: `XAdd`, `ReadGroup` (`XREADGROUP` with `>`), `XAck`, `EnsureGroup` (from `0`, `BUSYGROUP` ignored). An entry is the number of its `XADD`. |
| `Credentials` | what an account looks like from outside | abstract: locked or not, the password, failures counted and passwords tried, and whether a stale copy was saved. |
| `OneTimeCode` | what a code that is sent to a user looks like from outside | abstract: not issued, live or dead, the wrong guesses counted, and whether it was written over. |
| `Delivery` | what a worker promises | abstract: `rows`, `saved`, `acked`, `lives` (how often the group was created). |
| `NotificationWorker` | the worker of the notification service | `pc` is the place in the loop, `hand` the rest of what the read returned. `Continue` is the end of one turn of the `for`. A failing insert may have inserted (`SaveFails`), a failing acknowledgement is dropped (`AckFails`), an answer of the read may be lost after the group has handed the entries out (`ReadAnswerLost`). |
| `AuditWorker` | the worker of the audit service | `batch` are the `ackIDs`, `left` the part `SaveLogsBatch` has not reached. `EnsureInfrastructure` appends the `_bootstrap` entry, which has no payload and stays pending. |
| `AppErrors` | `pkg/errors`, the error handler of `pkg/server` | an error is its name; its type decides the status of the answer (`Status` is `statusMap`). What is no `AppError` gets the status Fiber gave it, or 500. |
| `Gateway` | the gateway's middleware, routes and proxies | operators on a call (operation, user, token, fingerprint, body, id, limit and offset). `BeforeRoutes` is what a call can be answered with before the routes; `Forwarded` is the context and the headers that a service receives. |
| `Handlers` | routes and handlers of the services | a handler is a record: its checks in their order, what its work may be refused with, the answer to a failing statement, the status of a success. |
| `NotificationStore` | the table of notifications | `row[i]` has an owner and the flags read and trashed; `Visible` is the condition GORM adds. A statement changes the rows it matches and is no error when it matches none. |
| `AuditPages` | the audit log as it is read in pages | `log[i]` is the time row i was inserted; rows of one time come in any order, another one for each query. `Int32` wraps around; `Half` is the 2^31 of the code. |
| `Runner` | `main`, `NewPostgres`, `RunSeed`, `SeedData`, `server.Run` | `proc[p]` is where a process is between down and closed; in `closing` a process of `Pooled` waits for its connections (`Cleanup`); `users` are the seeded rows. |
| `Platform` | requests from the client through the gateway to a service and back | `at[r]` and `sv[r]` are where request `r` is at the gateway and at the service, `meta[p]` whose metadata the shared error of a process carries, `live` the keys of sessions, `runs[r]` (history) how often the work was done. |
| `...Proofs` | theorems | see section 4 |
| `MCAccount`, ... | values of the constants for TLC | |

The modules meet where the code does: `Account` has the row that the last parts
of `Verify2FA` and `FinalizeReset` save, and leaves the codes to `TwoFactor` and
`ResetSession`; `DeviceTrust` begins where a password or a code was right. Both
workers are built from `RedisStream` and implement `Delivery` with `saved`,
`rows` and `lives` taken as they are and `acked` as what the group has handed out
and no longer has pending.

`Platform` is the composition of the second half: it extends `Handlers` (which
extends `Gateway` and `AppErrors`), `Runner`, `NotificationStore` and
`AuditPages`, and its actions move one request by one step of one process. Two
statements of `ValidateBody`, the write of the metadata and the answer that reads
it, are two actions, since requests run in parallel and the variable is shared.
The work of a service is one step: it is taken apart, for the auth-service, in the
modules of the first half. `Work` ends in a success, a refusal, or a failure
*with* the effect (the answer of the database was lost); `WorkFails` is a failure
without it. A process that is killed or exits drops its requests (`Ends`): the
gateway sees its connection break (`CutShort`), or repeats a `GET` (`Repeat`, which
`net/http` does on its own). `plan` is chosen at the start and says which calls
and which disturbances a behaviour may have, so that one run explores them side
by side without multiplying them.

## 3. Runs

| Run | Shows | Bounds |
| --- | --- | --- |
| `account` | `TypeOK`, `GuessBound`, `LockSticks`, `PasswordSticks`, and `OverLimitResolves` (liveness) | 2 clients, 2 passwords, one of them too long for bcrypt, limit 3 |
| `account_lock` | *violated*: `LockIsPermanent` | same |
| `account_password` | *violated*: `PasswordUsable` | same |
| `twofactor` | `TypeOK`, `NoRevival`, `UsesBounded`, `AttemptsCounted`, `LockedForReason` | 3 clients, 1 token, limit 3 |
| `twofactor_locked` | *violated*: `LockedStaysShut` | same |
| `reset` | `TypeOK`, `ResetNeedsCode`, `GuessesWithoutOverlap`, `ResetsBounded`, `GoneStaysGone`, `OldTokensDoomed` | 2 clients, limit 2 |
| `trust` | `TypeOK`, `AccessNeedsCode`, `SetupSpent` | 2 clients, 2 devices, 3 session ids |
| `trust_return` | *violated*: `DeviceComesBack` | same |
| `requests` | `TypeOK`, `EffectsMatchAnswers`, `NoEffectAfterEnd`, `NoStaleMeta`, `ContractHolds`, `PagesPassOverNothing`, `ClosedInFlight`, `SeedOrBlame`, `TrashStaysHidden`, `EveryRequestAnswered` and `SignalStops` (liveness) | 2 requests, 2 users, 2 notifications, 5 log rows, integers of 3 bits (`Half` 4), 10 plans |
| `trash` | *violated*: `TrashIsReached` | same |
| `notification` | `TypeOK`, `NoSilentLoss`, `InOrder`, `EveryEntryTaken` (liveness), `Delivers` (refinement) | 3 entries, reads of 2, the group lost once, 2 crashes |
| `audit` | the same for the audit worker | 4 entries and the worker's own, batches of 2, the group lost once, 1 crash |

Each property has a mutant: a plausible mistake in a definition (a definition
named for it stands in front of the right one) with which TLC finds the property
violated.

**Why the bounds suffice.** The races are between two requests: one that holds
something it read, and one that changes it. Two clients show each of them, and
three clients in `TwoFactor` (the smallest model) add overlaps of three. A limit
of 3 (the code has 5) leaves room below the limit, at it and beyond it; a limit
of 2 does in `ResetSession`, where two clients reach it with every overlap.
Three entries and reads of two give a worker one read with a second entry behind
the first and one with a single one; four, with those the audit worker adds
itself, put readable and unreadable payloads on both sides of each other in a
batch. `MaxLives` 2 allows the group to be lost once, before or after anything;
what happens then does not depend on how often it happened before, and the
proofs hold for any number.
`MaxCount` in `Account` bounds the counter at 4, one above the limit: with two
clients it cannot get further before the lock unless calls fail. `ResetSession`
counts guesses to one above the bound that is checked. Tokens and reset sessions
do not influence each other, so one is enough. Three session ids let one user
log in, register and have a session, or log in on two devices and register one
of them; `SYMMETRY` is used in `trust` only, where all properties are invariants.

`requests` has ten plans (`MCPlatform`). `alone`: every operation with every
token, fingerprint and body, while its session may end. `store`, `trash`: two
calls on the notifications in every combination, a list among them, with a row in
the trash or not.
`sessions`: a request next to a logout, a registration or an expiry. `invalid`:
two bodies that break the schema, at the gateway and at the auth-service.
`gateway`, `notify`, `audit`: signals, kills and restarts of that process with two
requests on their way, a write and a list for the first two; only `audit` has a
pool that waits. `pages`: two pages while the log grows to 5 rows
(`maxLog`), with limits and offsets that are too large for an int32 of 3 bits.
`seed`: the auth-service starts on an empty database, again and again. Every
interplay is of two requests, or of one and a process, and no plan lets a third
party decide; a page needs a row before, on and behind it, which five rows give.
`MaxRuns` 2 is the first count that is too many.

**Fairness.** `Account`, `TwoFactor` and `ResetSession` assume weak fairness of
`Progress(c)`: a handler that has begun makes its next call, because nothing
blocks it (failing calls return an error). Nobody has to begin a request, no key
has to expire, and no call has to succeed. The one liveness property of the three,
`OverLimitResolves`, needs no more: a counter at its limit is followed by a lock
or a reset, or a fault. `DeviceTrust` states safety only and has no fairness.
The workers assume weak fairness of their own loop (`Work`): a call returns, be it
with an error, and a read that could return entries does not fail for ever; and,
in the audit worker, that the creation of a missing group, tried again without
end, succeeds some time. Neither the start of the worker nor any save has to
succeed: a worker whose start fails has ended (`pc = "stopped"`), which
`EveryEntryTaken` excepts. For the notification worker it excepts a lost group
too, which that worker only ever asks again until the service is started anew.

`Platform` assumes weak fairness of the gateway's own steps, because each waits for
Redis or for its HTTP client, and both have a time limit, and of a shutdown that
has begun, whose wait is limited too. The cleanup is not: the audit-service's pgxpool
waits for the connections in use. Its handlers run their statements in the
request's context, which the shutdown cancels, so `Cancelled` is fair as well: a
statement of a process that is closing returns with an error. Of the services
nothing else is assumed, whose statements may hang for ever before that, nor of
clients, or of signals: `EveryRequestAnswered` and `SignalStops` say that this is
enough.

`CHECK_DEADLOCK FALSE` stands in the configurations of the workers, where a worker
that failed at its start does nothing more, and of `requests`, where a behaviour
ends when its requests are answered.

### What the violations say

1. **A lock can be lost** (`LockIsPermanent`). `Verify2FA` reads the row, another
   request locks the account, `Verify2FA` saves its old copy of all columns.
   The same happens with `FinalizeReset`. `LockSticks` shows that nothing else
   undoes a lock. A save of only the changed columns would be enough.
2. **A reset shuts the user out** (`PasswordUsable`). The reset stores bcrypt,
   the login reads argon2. Of a password of more than 72 bytes not even that is
   left: bcrypt refuses it, its error is dropped, the empty string is saved and the
   reset is reported as done; no schema has a maximum. `PasswordSticks` shows the
   rest: the row holds what argon2 or bcrypt made of the last password, a stale save
   aside.
3. **A locked code still works** (`LockedStaysShut`). Only wrong codes reach the
   script that knows of the lock.
4. **A trusted device cannot come back** (`DeviceComesBack`). One way would be
   enough; the trace has both fail. The challenge of its login is stored under
   `challenge:` and read under `auth:challenge:`. (Besides, the gateway asks for a
   `session:` key on the way there, which such a login has not stored.) And the hash
   of its refresh token is stored, but the token itself is looked for. The run stays
   violated until one of the two is repaired; with one repaired, the property should
   be split.
5. **The trash is out of reach** (`TrashIsReached`). Restoring from the trash and
   emptying it match no row, as GORM adds `deleted_at IS NULL`; both are answered
   204. `DELETE /:id` only moves to the trash. `TrashStaysHidden` shows the half that
   works: what was moved there is not listed.

### Remarks

What the models show besides, without a run of its own:

* `RegisterDevice` stores the device before it compares its fingerprint with the
  setup session's; when that fails the client gets an error and the device stays
  trusted. `AccessNeedsCode` shows that it gets no session or token by that.
* `GET /documents/me` is always refused through the gateway: no request carries
  `X-Profile-ID` (`ContractHolds` excepts it). `POST /user/sessions/terminate`
  always ends in 500. `verify-device` panics without a user in its context.
* `FinalizeReset` parses the body into a schema whose field names differ from
  those of the schema that was checked (`reset_token`/`token`,
  `new_password`/`password`).
* `GetLogDetails` answers 404 when the database fails.
* An invalid body may be answered with the errors of another request that was
  checked at the same time. `NoStaleMeta` shows that an older request's never are.
* The comment above the seeding (`config/database.go:43`) speaks of one
  transaction; the two inserts are apart, and after a failure or a stop between them
  no later start completes them. `SeedOrBlame` shows that nothing else leaves half
  a seed.
* Wrong codes of a reset are limited while no two saves overlap
  (`GuessesWithoutOverlap`); overlapping ones take the counter back, though never
  beyond the limit (`CodeIsKept`), and how many codes that lets through is not
  bounded by a property.
* Rows of the same time may be left out between two pages, or come twice:
  `ORDER BY created_at` does not say which comes first. A limit or offset that
  does not fit 32 bits wraps around.

## 4. Proofs

The theorems hold for every finite set of clients and every positive limit
(assumptions `ClientAssumption`, `MaxAttemptsAssumption`, `TooLongAssumption`,
`NoSessionAssumption`, `MaxCountAssumption`, `NoneAssumption`, `NoRowAssumption`,
`BoundsAssumption` in the modules that declare the constants); those about `Platform` for any sets of
requests, users and notifications. Of its plans `PlansAssumption` asks that they
are well-typed and that every process is down or serves at the start; there may be
any number of them, with any calls, and signals, kills and ends of sessions in any
combination. `SeedingAssumption` says that one process seeds its database,
`PagesAssumption` that an int32 has twice `Half` values, whatever `Half` is.

**AccountProofs**: `TypeCorrect`, `GuessesBounded`, `LockHolds`,
`PasswordHolds`. `GuessBound` is not inductive: a state with few requests in
flight and too many guesses already made satisfies nothing that stops the next.
`GuessesCounted` relates the guesses to the counter: while the account is not
locked and nothing failed, they are at most the attempts in the row and the
requests that are about to count theirs. `OverLimitArmed` bounds the counter
itself: it is at most `MaxAttempts - 1` and the number of requests that have
counted and not locked yet. With both, `IInv` is inductive, and `GuessBound`
follows from a lemma on cardinalities (the requests in flight are no more than
the clients). `RowKeepsCredentials` is the refinement `Spec => KeepsCredentials`:
each step maps to one of `Credentials` or to a stutter. The saves are where it could
fail (`SavesOutside`): one whose copy is current is a change of the password (to any
hash, the empty one included: `NewPassword`), or nothing, and all others are
`SaveStale`. `PasswordHolds` says what the row then has: what was made of the last
password, for any set of passwords bcrypt refuses. So passwords are tried only while the
account is not locked, and nothing but a stale copy undoes a lock.

**TwoFactorProofs**: `TypeCorrect`, `NeverRevived`, `EveryAttemptCounted`,
`LockedWithReason`, `UsesAreBounded`, `CodesAreKept`. `AttemptsCounted` needs the step of the script and the step of
the comparison to change both sides alike: lemmas say what adding or removing a
request does to the cardinality of those in flight. `UsesBounded` follows from
the stronger fact that the uses so far and the requests that have accepted the
code and not yet been answered are together at most the number of clients, with
no new request accepted once the key is gone, which `NoRevival` provides.
`CodesAreKept` is the refinement of `OneTimeCode` by the session of each token:
what a step does to the code follows from what it does to the one key
(`SeenOutside`). That `overwritten` is `FALSE` in the mapping is the point: the
script counts in place, so no interleaving takes the counter back.

**RedisStreamProofs** states what each operation on a stream does to each of its
fields, once; the proofs about the workers cite these lemmas.

**NotificationWorkerProofs**, **AuditWorkerProofs**: `TypeCorrect`,
`NothingLostSilently`, `WorkerDelivers` (`Spec => Delivers`), `WrittenInOrder`, for
any number of entries, any size of a read, any number of crashes and lost groups
(`BoundsAssumption`). To map each step to one of `Delivery` or to a stutter the
invariant has to say that what is in hand and not yet saved was not saved before
(`HandInv`, `BatchInv`: else a save would be a second one), and that what the
group has still to hand out was not saved since it was created (`GroupInv`). The
typing of the audit worker needs a count besides: `Room` bounds the entries the
worker appends by its starts and the groups created. `InOrder` needs `OrderInv`:
what was handed out is older than what was not, which a read keeps because it
hands out the oldest (`BatchIsOldest`, a fact about cardinalities).

From `WorkerDelivers` both modules conclude what the promise is worth:
`AcknowledgedIsSaved`, a worker acknowledges nothing unsaved, and `RowsAreBounded`,
it writes no more rows for an entry than groups were created: without a lost group
there are no duplicates. `Owing`, an entry not saved in this life has a row less
than there were lives, makes that inductive in `Delivery`.

**ResetSessionProofs**: `TypeCorrect`, `PasswordsNeedTheCode`, `GuessesBounded`,
`OneResetPerClient`, `NoReturn`, `RevocationFollows`, `CodeIsKept`. None of the five invariants
is inductive, each for a reason of its own, which the invariant names:

* `VerifiedInv`: a session marked as verified carries a challenge that was handed
  out, and a copy that finalizes is so marked; else a client that signs the empty
  challenge would get as far as the password. `CopyInv` keeps the copies real.
* `GuessInv`: while no save overwrites another, the guesses are at most the
  counter and the saves under way, and when the counter is full some client is
  not saving a wrong code. The latter is what makes the bound hold at the limit.
* `ResetInv`: while the session lives, the passwords written are at most the
  clients between writing one and deleting the session; and those written plus
  the clients on their way to write one are at most the clients. The first is
  needed for a client that begins to finalize to keep the second.
* `StartInv` keeps all of it empty until the session is created.

Lemmas (`Join`, `Quit`, `Stay`, `Apart`) say what a client's move does to the
number of clients at some steps.

`CodeIsKept` is the refinement of the same `OneTimeCode` by the reset session, which
is read, changed and written back. Here `Overwrite` is needed, and only for a save
whose copy is out of date: `LimitInv` shows that a copy to be saved was below the
limit when it was read, so that even such a save leaves the counter within it. The
two theorems together are the difference between the two ways of counting.

**DeviceTrustProofs**: `TypeCorrect`, `CodeBeforeAccess`, `SetupIsSpent`, for any
sets of clients, devices and session ids. `AccessNeedsCode` needs `CodeInv`: with
two-factor, every setup session is of a device a code was sent with, and so is
the device of a request that has passed `GetSetupSession`. `SetupSpent` needs
`SpentInv`: a request that has deleted its setup session finds it gone for good,
because an id that was handed out is not handed out again.

**PlatformProofs**: every safety property of the run `requests`, each from an
invariant of its own on top of two common ones: `TypeOK`, and `Flow`, which says
where a request can be at its service for each place at the gateway, and what its
call must be like to have got there. Their steps are then sorted into ten kinds
(`RequestStep`, `StepKinds`): the gateway answers, passes or forwards, a service
begins or replies, with its work done or not. The lemmas about the handlers
(`HandlerShaped`) give what the kinds say of the answers: only a success is
answered with a success, a statement that fails with a 500. The proofs that follow
speak of these ten kinds and not of the handlers.

* `AnswersTellEffects`. `EffectInv` adds the middle of a request's way: a write
  whose service has not replied is not done; a reply matches what was done; and a
  gateway that has already answered while the service has not, answered 500 or 504.
* `NothingAfterTheEnd`. `GoneInv`: the session of such a request is still gone, as
  none comes back (`SessionsOnlyEnd`), and the request is in front of the gate.
* `MetaIsOfItsTime`. `MetaInv` follows the metadata from the shared variable to the
  reply and the answer: while a request is between the two statements of
  `ValidateBody`, the variable holds metadata of a request that neither saw
  finished. It needs `SeenInv`, what was finished stays finished, and that a
  process that ends takes those waiting for its variable with it.
* `ForwardedIsAccepted` is a fact about `Forwarded` and each handler's checks.
* `ClosedAfterWaiting`: after the signal nothing new comes in (`BusyGrows`).
* `SeedIsWhole`. `SeedInv` relates the place of the seeding to the rows in the
  table.
* `NextPageMeetsFirst`. `PageInv`: a page was cut from the log as it was then, by
  numbers the database accepts, and of a shorter log for a page asked for earlier.
  The rest is about pages alone: `PageStays`, later rows do not change what was a
  page; `OffsetsAdd`, accepted numbers add up without wrapping around; and
  `PagesMeet`, on cardinalities: if a row older than all of the first page stood
  before the second, so would the whole first page and what is before it, and that
  is one row too many.
* `RequestsRunStatements` is the refinement `Spec => StoreSpec`: requests change the
  table by the store's statements, one at a time, and `StatementsKeepRows` shows of
  these `RowsAreKept`.
* `TrashedIsHidden`. `HiddenInv` has two halves. `RowHidden`: once a move to the trash
  or a deletion has run, nothing shows its row, which every statement but an insert
  keeps (`HiddenStays`, `WorkChanges`). `ListHides`: a list whose request saw the
  answer of the move leaves the notification out; when it is read, the success
  answered before means that the move has run (`EffectInv`), and until then its
  page is empty (`PageInv`).

**Only model-checked**: the liveness properties, which are out of the prover's
reach: `OverLimitResolves`, `EveryEntryTaken`, `EveryRequestAnswered` and
`SignalStops`. Only proved, and checked by no run of its own: `KeepsCredentials`,
`KeepsCode` of both modules, `RowsAreKept`, and the two theorems on `Delivery`.

## 5. Not modelled

* The services' limiters count by the address of the caller, which is the
  gateway's; any call may be refused here, and none is counted.
* A worker that holds a connection while its process is closing. The audit worker
  as shipped has no Redis client and ends at once (below); a live one runs its
  inserts in a context nothing cancels, and one that hangs would keep the pgxpool,
  and with it the process, from closing. `SignalStops` says nothing about that: in
  `Platform` only requests hold connections. The other services' pools do not wait.
* Contexts that Fiber cancels at the shutdown in the other services: their
  statements then fail, which is among what `WorkFails` allows.
* The rows that three of the audit queries return, and the documents' contents.
* Cryptography: a right code, password or signature is a choice of the client or
  an equality; challenges are fresh names. The random choice of session ids
  never repeats one.
* Sessions of other users, and requests with an unknown e-mail address: they
  touch no state of the modelled user.
* `LockUserTemporarily`, `UpdatePassword`, `UpdateSession` and the event emitter,
  which nothing calls, and `ReverseProxyFiber`, likewise.
* The producers of the two streams are not in the repository (the event emitter,
  which nothing calls, writes a third stream): `Add` stands for them.
* The audit service as shipped builds its worker without a Redis client
  (`services/audit-service/cmd/main.go:32` passes `nil`): the first call panics,
  `SafeGo` recovers, the worker has ended and the service runs on. `AuditWorker`
  has this as `BootFails`; all else it shows is about the worker once it gets a
  client, as the notification service's does.
* version-service, configuration, logging, telemetry, health: a constant per
  request, or pure input and output.

## 6. Plan

1. What a trusted device promises, as an abstract specification that `DeviceTrust`
   implements: a device is trusted once, access follows from trust, and a refresh
   token is good for one session at a time.
2. The rows the remaining audit queries return.
