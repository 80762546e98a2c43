# A verification project for claimable-neon

claimable-neon gives an AI agent a Neon Postgres project before any human has an
account: the agent registers, receives a long-lived identity assertion, exchanges
it for access tokens, and works on a project that a *holding organization* owns.
Later a human redeems a short claim code; the service destroys every secret the
agent ever saw, creates a Neon transfer request and redirects the human to it.
A project nobody claims is deleted by a daily janitor.

The modules here model that life of one project as the code in `lib/` lives it,
and, each on its own, the parts it stands on: provisioning, the registration
lock and its connection pool, the rotation of the roles, the services an agent
enables, tokens and their codes, and a whole run of the janitor. TLC checks them
on small instances, and TLAPS proves the statements that matter most for every
size. Paths below are paths of the repository.

Contents: [inventory](#1-inventory) · [plan](#2-plan) · [modules](#3-modules) ·
[properties](#4-properties) · [runs](#5-runs) · [fairness](#6-fairness) ·
[proofs](#7-what-is-proved) · [disagreements](#8-where-code-and-documents-disagree) ·
[limits](#9-what-is-not-modelled)

## 1. Inventory

### Components

| Component | Where | State it keeps | Operations | Status |
|---|---|---|---|---|
| Registration store and lock | `lib/store/store.ts`, `schema.sql` | Postgres rows: registrations, project keys, tokens, claim attempts, derived and service credentials, capability requests, usage events; a session advisory lock per registration; a pool of four connections | `withRegistrationLock`, one method per statement, two transactions (`completeClaimReconciliation`, `commitRetentionCleanup`) | modelled |
| Claim code issuance | `app.ts` `createClaimCode`, `lib/claims/issuance.ts`, `codes.ts` | none of its own: attempts and the registration | `POST /v1/agent/identity/claim`, `POST /v1/projects/:id/claim` | modelled |
| Claim submission and teardown | `app.ts` `beginClaimTransfer`, `lib/claims/reconcile.ts` | the role snapshot of the rotation, in memory | `POST /claim` | modelled |
| Claim status and reconciliation | `app.ts` `getClaimStatus`, `reconcile.ts` | none | `GET /v1/projects/:id/claim` | modelled |
| Janitor | `lib/janitor/*` | none | daily trigger, `purgeOne`, the answer of a run | modelled |
| Token exchange, revocation, authentication | `app.ts`, `lib/tokens/*` | rows of `tokens`; signing keys | `POST /v1/oauth2/token`, `/v1/oauth2/revoke`, `authenticate` and its variants | modelled |
| Credentials, proxied operations, deletion | `app.ts`, `lib/proxy/allowlist.ts` | rows of `derived_credentials` and `service_credentials`; the registration's scopes | `GET …/credentials`, the proxied Management API, `DELETE /v1/projects/:id` | modelled |
| Provisioning | `app.ts` `provision`, `cleanupProvisioning`, `lib/neon/provisioning.ts` | a project, a key and rows while they come into being | `POST /v1/agent/identity` | modelled |
| Capabilities and scopes | `lib/capabilities/*` | none | pure functions | modelled |
| Neon API client | `lib/neon/client.ts`, `provisioning.ts` | none; the project lives at Neon | create, delete, keys, roles, endpoints, transfer requests, operation polling | partly: by effect; rotation and waiting in detail |
| Proxy allowlist, Data API bodies | `lib/proxy/*` | none | pure functions | partly: the operations and their authorization |
| Analytics, entry points, scripts | `lib/analytics`, `src/`, `scripts/` | events on their way to the warehouse | `track`, flush, `backfill-capability-events.ts`, deployment | left out |
| Errors | `lib/errors` | none | codes of the answers | partly: the codes a token is answered with |
| Configuration | `lib/config` | constants | parsing | partly: the times |
| Edge forwarder | `lib/edge/*` | a shared secret | rewrites headers | left out |
| Key encryption, discovery | `lib/crypto`, `lib/discovery` | none | a call to `node:crypto`; static documents | left out |

### How they interact

Everything meets in three places.

* **The rows of one registration.** Every handler reads the registration and the
  latest attempt, decides, and writes. Statements are separate: only the two
  transactions named above group any.
* **The registration lock.** `withRegistrationLock` checks a client out of the
  pool, takes a Postgres *session* advisory lock on it and runs the handler with
  that client. Claim routes, project operations, deletion and the janitor use it;
  the token exchange and the revocation do not. Most handlers check the caller
  once before the wait and again under the lock.
* **The project at Neon.** The service changes it by HTTP calls that can fail,
  time out, or take effect without their answer arriving. Two others change it at
  the same time: the agent, through SQL sessions opened with passwords it was
  given, and the human, who accepts the transfer in Neon's console. The service
  learns about the latter only by asking who owns the project, and a 404 is the
  answer for a transferred and for a deleted project alike.

### What is hard here

* *Interleaving without the lock*: a token exchange reads `issuance_frozen` and
  records its token in a later statement; a whole claim may fit in between.
* *Interleaving with outsiders*: the agent's session creates or alters a role
  between the reset of the passwords and the disabling of the compute; the human
  accepts between two calls of a handler that has just asked for the owner.
* *A lock that can be lost*: the advisory lock belongs to the SQL backend. When
  the backend drops, the next request gets the lock while the first handler is
  still between two Neon calls.
* *Partial failure at every step*: no handler has a compensating log. A submit
  that stops anywhere must be finished by the next submit; a deletion that stops
  is not finished by the next deletion; the janitor skips terminal registrations.
* *Deadlines*: codes, transfer requests, the registration and the retention
  period all end, and each end races the act it forbids; a token's last second
  is counted in whole seconds and the project's is not.
* *A pool smaller than its waiters*: a request that waits for the lock keeps one
  of four connections, and so does the one that has the lock.
* *Retries of what is half done*: Neon answers the second enable of a service with
  409 and without the private part of its credential; rows and scopes are written
  in statements of their own.
* *Advice that cannot be taken back*: three of the codes in an answer tell a client to
  discard the only durable secret it has.
* *Delivery*: the janitor's trigger may come twice, and the answer to a commit not
  at all.

The list, each at its line and with the properties that would catch it, is under
`hazards` in `PROJECT.json`.

### What would make each component correct

* *Issuance*: at most one redeemable code; none while an earlier transfer URL can
  be accepted; none for a project the human already has.
* *Submission*: no secret of the agent's survives the moment the transfer URL is
  shown, whatever failed or raced before; the human receives a running compute; a
  second submit disturbs nothing.
* *Status*: an attempt is accepted only if a human has the project; reconciling
  leaves nothing to revoke.
* *Janitor*: every project is settled in the end; none that a human accepted is
  deleted or recorded as purged.
* *Tokens and operations*: nothing is handed out after the freeze.
* *Store*: work on a registration is exclusive, or harmless where it is not; no
  pooled connection keeps a lock; every request is answered.
* *Provisioning*: a 201 means the whole of it; a plain error leaves nothing the
  request knew of; whatever has a row is settled in the end.
* *Enabled services*: what the agent was told last is what the rows say, and what
  its next token can do.
* *Tokens*: no token outlives its project, and no code makes a client discard a
  secret that is still good.

## 2. Plan

Most important behaviour first; each stage stands on its own.

1. **The claim ceremony** (done): `ClaimCeremony` and its parts, the abstract
   `ClaimPromise`, the proofs of its teardown.
2. **`RoleRotation`** (done, proved): the rotation role by role and endpoint by
   endpoint, which the core takes in three steps.
3. **`Provisioning`** (done, proved): the creation of project, key and rows, its cleanup,
   what a crash leaves, and the janitor that finds only what has a row.
4. **`RegistrationLock`** (done, proved): the pool, the advisory lock, and the
   `ExclusiveLock` they implement.
5. **`EnabledServices`** (done, proved) over **`Scopes`**: the proxied operations and the
   bookkeeping of the Data API and Auth around a retry.
6. **`TokenService`** (done, proved), **`JanitorRun`** (done, proved).
7. **The core's other invariants** (done): the order of the claim codes, in
   `ClaimCeremonyProofs`; how a registration ends and the refinement
   `KeepsPromise`, in `ClaimEndProofs`.
8. **Left: pure functions** of `lib/proxy`: the matching of methods and paths and
   the validation of a Data API body, against a reference definition; and the
   replay of usage events.

## 3. Modules

```
RegistrationStore              rows, project at Neon, lock, workers, clock
  ├── AgentAccess              tokens, credentials, proxied calls, sessions, DELETE
  ├── CodeIssuance             the two routes that mint claim codes
  ├── ClaimTransfer            POST /claim, and the human who accepts
  ├── ClaimStatus              GET …/claim
  └── RetentionPurge           the janitor, for one registration
        └── ClaimCeremony      all of them together; Spec, FairSpec, properties
              ├── MCClaimCeremony        instances for TLC (symmetry)
              └── ClaimCeremonyProofs    the teardown, the order of the codes
                    └── ClaimEndProofs   how a registration ends, the promise
ClaimPromise                   the abstract specification of ClaimCeremony

RegistrationLock               pool and advisory locks under withRegistrationLock
  └── RegistrationLockProofs
ExclusiveLock                  the abstract specification of RegistrationLock
RoleRotation                   rotation and quiescing, call by call
  └── RoleRotationProofs
Provisioning                   POST /v1/agent/identity and its cleanup
  └── ProvisioningProofs
Scopes                         capabilities and scopes, pure
  └── EnabledServices          proxied operations, stored credentials, scopes
        └── EnabledServicesProofs
TokenService                   one client, its tokens and the codes of the answers
  └── TokenServiceProofs
JanitorRun                     whole runs of the janitor, which may overlap
  ├── MCJanitorRun             instances for TLC
  └── JanitorRunProofs
```

Each definition that models code is listed in `PROJECT.json` under `map` with the
lines it stands for. Definitions marked "Wrong variant" are the mistakes each
property is tested against: a plausible bug put in the place of the real operator
has to break the property named beside it in `PROJECT.json` (`mutants`). No
specification uses them.

### The ceremony

**Workers.** A worker is a slot for one request. `pc[w]` names the next step of
its handler, `mine[w]` its local variables: the attempt it works on, what it read
last, how often the rotation was retried, the expiry of the transfer it created,
and when it took the lock. One action is one SQL statement (or transaction) or
one Neon call, together with the branching that leads to the next one; all
awaits of the code lie between actions.

**Rows.** `frozen`, `claimState` and `revoked` are the registration;
`keyMarked` says its key row is marked revoked; `derivedLive` that some
derived-credential row is not. Tokens are kept by what they still allow: the
assertion, and which *kinds* of access token, full or empty scope, are alive.
An access token that expires is the same as one revoked, so `RevokeToken` stands
for both. Attempts are numbered in the order of `created_at`; an attempt is its
own code, since codes are only compared for equality.

**The project.** `owner` (holding organization, human, deleted), `keyLive`,
`computeOn`; `knownPw` says the agent knows a password some role has *now*, and
`session` that it has an SQL session open. `fresh` holds the workers whose
snapshot of the roles still equals the roles: a reset makes it `{w}`, any change
by a session empties it, and `sameRoleState` is membership.

**The lock.** `Acquire` sets it, `Finish` frees it. Waiting for the lock changes
nothing, so it is not a step of its own, except in the handlers whose checks
before the wait are not all repeated afterwards (`issueWait`: the assertion's
revocation is checked only before; `submitWait`: the code is found only before).
`Holds(w)` guards each SQL statement on the locked client. With `BackendDrops`,
`DropBackend` takes the lock away from a running handler, which then continues
with its Neon calls until its next statement.

**Failure.** The code treats a refused call, a timeout, a lost answer and a dead
process alike: nothing more happens and the lock is freed. `Abort(w)` is
all of them and is possible before every step. A call that took effect and whose
answer was lost is the call followed by `Abort`. Two neighbouring statements are
one action only where nothing but the stop between them could be observed and
that stop is covered by one next to it: `setClaimState` with the read of the
stored key, and the loop that marks derived credentials.

**Time.** `now` is the clock; codes and transfer requests last `AttemptTTL`, the
registration `ProjectTTL`, and the janitor acts after `Retention`. Processes and
Neon share the clock. `Tick` waits for handlers that took the lock
`HandlerTime` ago: a request does not run on for hours. That is an assumption
about the runtime, see section 6.

**External behaviour**, modelled from how the code uses it: the agent's sessions
(`Connect`, `AlterRoles`) and the human (`AcceptTransfer`). Neon accepts a
transfer as long as its request has not expired and the project is where it was.
A transfer request whose handler stopped before recording it cannot be accepted:
nobody was told its id.

**`ClaimPromise`** says it without handlers: a project is open, then claiming,
offered, moved, settled; secrets are taken away while claiming, the offer
needs them gone, a project may vanish until it has moved and never after.
`ClaimCeremony!Phase` and `Secrets` map the detailed state to it.

### What the ceremony stands on

The ceremony takes three things for simple that are not: the lock, the rotation,
and the state a registration begins in. Each has a module that looks inside.

**`RegistrationLock`** (`store.ts`, `withRegistrationLock`). `at[q]` is a request's
next step: the check on any pooled connection, the checkout, the lock, the work,
the unlock. `backend[b]` is where a Postgres backend is (in the pool, with a
request, dead and unnoticed, or ending after its client was destroyed) and
`held[b]` its session locks. A backend that drops takes its locks along at once; one
whose client was destroyed, because the unlock failed, keeps them until it ends. The
query that asks for the lock may fail with its backend or be refused by a live one
(`LockFails`); either way the client goes back without an unlock.
`ExclusiveLock` is what handlers rely on: one worker per registration, who may lose
the lock before it notices and then writes nothing more. These are
`RegistrationStore`'s `Acquire`, `Finish`, `DropBackend` and `Holds` for one
registration. The pool and the advisory locks themselves are external.

**`RoleRotation`** (`rotateAndQuiesceProjectRoles`, `provisioning.ts` and
`reconcile.ts`). The core resets all roles in one step, disables the compute in the
next and compares in a third. Here each role is reset and each endpoint patched
by a call of its own, each call starts an operation that takes effect when it
ends, and an operation of an earlier, broken-off attempt may still be running. The
agent connects, changes, creates and drops roles in between.
`QuietWhenReturned` is what `ClaimTransfer` takes for granted at the end.

**`Provisioning`** (`provision`, `cleanupProvisioning`, `configureCapabilities`).
`handler.knows` is what the request has learned so far, which is all its cleanup
can undo: the project's id is known only after the operations have ended. `rows`
is the registration's row with those that hang on it, `records` those that
survive. `answer` tells a plain failure from one that says "cleanup was
incomplete", and `lost` from both. The janitor looks only for rows. A request that
fails leaves the ceremony nothing to begin with; `StoreInit` is the state behind a
201.

### Beside the ceremony

**`EnabledServices`** over **`Scopes`** (`lib/capabilities`, `OPERATIONS`,
`requestProxiedOperation` and the `persist…` functions). Neon's view (`auth`,
`dataApi`), the rows (`stored`) and the registration's `scopes` are three places;
each operation changes them one after the other, may stop between any two, and
is asked again. `told` is what the agent was told last of each service. The
table of operations is kept by method, resource, scope and capability: what
decides. Which answers are relayed and what follows which answer is `AfterCall`
and `NextAfterRead`.

**`TokenService`** (`lib/tokens`, `authenticate` and its variants, `createClaimCode`,
`getClaimStatus`, `projectClient`, `revokeToken`, `lib/errors`). The clock runs in parts of
a second, claims of tokens are whole seconds. A request goes through the checks of its
route in their order: the resource and the signature, `isTokenRevoked`,
`requireUsableRegistration`, the freeze; then it waits for the lock and the checks are
made again (`AfterWait`; `POST /v1/agent/identity/claim` repeats the last of them only);
then the route itself may refuse:

* `ProjectClient`: a proxied operation is told `project_claimed` on a marked key;
* `Issue` and `CheckOwner`: a claim code is refused with `project_claimed` when the claim
  is accepted or reconciled, or when the owner check of a frozen registration finds
  anyone but the holding organization, and with `claim_in_progress` while a claim runs;
* `Poll`, `AcceptClaim`, `ReconcileClaim`: the poll writes what it learns, and is told
  `not_found` without an attempt;
* `Verify`: an exchange for another `resource` is told `invalid_grant`.

Each answer is a code. The client is external and follows the README: it throws its
assertion away on `invalid_grant`, `project_expired` and `project_claimed` and on
nothing else. The steps of a submit, of a deletion and of the janitor, the human and
the expiry of codes and offers happen at any time the lock lets them, and each of them may
be the last of its handler. The core has the same routes by what they allow; here it is
what they *say*.

**`JanitorRun`** (`lib/janitor`, `commitRetentionCleanup`). `RetentionPurge` is one
registration of one run; here a run lists what is due and takes the registrations
one after the other, each under its lock, with the transaction as its own statements:
it commits as a whole or not at all, and the commit may be unheard. A second
trigger may start a run beside the first, a process may die, and `Poison` holds
projects whose every call fails. Registrations come of age in any state of `Left`: whole,
provisioned only in part (no key row, or no token row), deleted half-way (the project
gone and the key or the tokens still live), claimed or half claimed. The freeze revokes
the access tokens only, so a claimed registration may still have the row of its
assertion; what a registration has when the janitor is done with it is the subject of
`EndedIsComplete`.

## 4. Properties

Of the ceremony:

| Property | What it says | Hazard |
|---|---|---|
| `TeardownBeforeOffer` | once a transfer URL was shown, and ever after: frozen, key dead at Neon and marked, no password known, no session, no live credential row | every interleaving of submit, session, failure and drop |
| `TeardownInv` | the same step by step: what each step of a submit may rely on. Inductive | a handler that lost its lock |
| `PendingIsLatest` | a redeemable code is the newest one | two issuances, late writes |
| `OpenOfferIsLatest` | a transfer that can be accepted belongs to the newest attempt and was not written off | replacement code while the old URL works |
| `RedeemsLiveCode` | a submit that has its lock works for the newest code, which is pending still | the recheck of the code after the wait |
| `OfferComesWithCompute` | who may accept gets an enabled compute | second submit tearing down under an open offer |
| `AcceptedMeansMoved` | an attempt is accepted only if a human has the project | a 404 is read as a transfer |
| `ClaimedIsNeverPurged` | a project a human accepted is not recorded as purged, and no janitor is about to delete it | owner lookup and delete are two calls |
| `TerminalIsComplete` | behind a terminal registration nothing is left to revoke | terminal registrations are never visited again |
| `NoCodeAfterMove` | no code is minted for a project the human has | owner check and insert are two calls |
| `NoHandOutAfterFreeze` | no secret is handed out after the freeze; a new password can only come from a session still open | requests let through before the freeze |
| `KeepsPromise` | every step is a step of `ClaimPromise` or none | all of the above, in order |
| `MovedIsReconciled` | a moved project is reconciled in the end | nobody polls in time |
| `UnclaimedIsPurged` | no project stays in the holding organization for ever | the janitor fails again and again |
| `TypeOK` | types; a submit rotates at most three times, and a token to be recorded has a scope | the loop bound of the rotation |

Of the other modules, besides a `TypeOK` each:

| Module | Property | What it says | Hazard |
|---|---|---|---|
| `RegistrationLock` | `LockInv` | a session lock lives exactly as long as the request that took it; none rests in the pool. Inductive | an unlock that fails on a live backend |
| | `WritesAreLocked` | who writes has the lock on the session it writes with, and nobody else of that registration can write | backend drops between two calls |
| | `ImplementsLock` | pool and session locks implement `ExclusiveLock` | the whole of it |
| | `EveryRequestEnds` | every request is answered | waiters use the pool up |
| `RoleRotation` | `RotationInv` | what each call finds: fresh passwords are unknown, endpoints patched so far are as they should be. Inductive | failure half-way, operations of an earlier attempt |
| | `QuietWhenReturned` | after the rotation has returned, for ever: no password known, no session | roles change between list and reset |
| | `ComputeIsAsTold` | given up means all computes disabled, prepared means all enabled | a loop over endpoints that breaks off |
| | `PreparationSucceeds` | an agent that changes and creates roles cannot keep a claim from ending; one that drops roles for ever can | the rotation that gives up after three rounds |
| `Provisioning` | `CreatedIsComplete` | a 201 has all its rows, services and a key that works | a row that is skipped |
| | `PlainFailureIsClean` | an error without "cleanup was incomplete" leaves nothing the request knew of, and only a bare project it did not | cleanup that fails half-way |
| | `ReadyBeforeKey` | no key and no service in a project that is not finished | a failed operation, the deadline |
| | `RowsAreSettled` | whatever has a row is settled by the janitor in the end | a crash between two rows |
| `EnabledServices` | `ToldIsStored` | what the agent was told last is what the rows say | the answer lost between call and row |
| | `PrivateAuthIsKept` | the full credential of Auth is never replaced by its public part | the retry that has only a GET |
| `TokenService` | `TokenInv` | what the rows say of who has the project, and what stands behind each answer on its way; a revocation answered 200 leaves the token revoked or over (`ToldRevokedIsDead`). Inductive | answers that arrive late |
| | `PrunedIsDead` | a client that obeys the codes discards its assertion only when the assertion or its registration is over or revoked, or the project has left the holding organization for good | codes that race expiry, claim, deletion and revocation; checks made before the wait for the lock |
| | `MintedIsAlive` | no token is minted dead or outlives its project | whole seconds against parts of them |
| | `WishEnds` | no code leads a client in circles | a new token that is refused at once |
| `JanitorRun` | `PurgedOnce` | one usage row for each registration the janitor ended, with its reason | commit unheard, runs overlap |
| | `EndedIsComplete` | an ended registration opens nothing: no key, no token, not the assertion either, no project | half-done claims, deletions and provisionings; statements outside the transaction |
| | `AnswerAccounts` | the answer covers every candidate, and an outcome that is no failure has ended it | one of several fails |
| | `DueIsSettled` | a project that fails every day does not stop the younger ones | the loop over candidates |

Three further statements are those of section 8.

## 5. Runs

The runs of the ceremony use `MCClaimCeremony`. `{w1, w2}` are model values and
interchangeable (symmetry), except in the liveness run and the violation runs.

| Run | Bounds | Distinct states | Shows |
|---|---|---|---|
| `ceremony` | 2 workers, 2 codes, clock 0..5, `AttemptTTL` 1, `ProjectTTL` 2, `Retention` 4, no drops | about 1.06 M | every safety property |
| `promise` | 2 workers, 1 code, clock 0..5, drops | about 1.2 M | the refinement; `TeardownInv` does not depend on the lock being kept |
| `liveness` | 1 worker, 1 code, clock 0..5, `FairSpec` | about 60 k | every project is settled |
| `registration_lock` | 3 requests, 1 registration, 2 backends, pool of 2, `FairSpec` | about 6.6 k | safety, the refinement, and that every request ends |
| `role_rotation` | 2 roles, 2 endpoints, 2 failures, `FairSpec` | about 34 k | the rotation, call by call |
| `provisioning` | 2 operations, every request, a failure, lost answer or crash anywhere, `FairSpec` | about 8 k | what any end of provisioning leaves |
| `enabled_services` | 2 branches, 2 databases, every operation, failures without bound | about 200 k | rows and scopes against what was told |
| `token_service` | half seconds, clock 0..3, expiry at 3, 2 access tokens, 1 lost answer, `FairSpec` | about 760 k | the codes against claim, deletion and the janitor, and the boundaries of seconds |
| `janitor_run` | 2 registrations in 169 pairs of states, one of them poisoned, 2 runs, 1 further failure, `FairSpec` | about 281 k | overlapping and failing runs |
| three violation runs | smaller instances | | section 8 |

*Why the bounds are enough: the ceremony.* Two workers give every race of two
requests, and the lock makes a third wait; the agent's sessions, the human and the
revocation need no worker. Two codes give a predecessor and a replacement, with every way
the predecessor can end. With one instant per code and two per registration a
code can expire before, at, and after the registration's end, a replacement can
outlast its predecessor, and a transfer created late may outlive the
registration. `Retention` 4 keeps the order of the defaults (30 days against
72 hours and 15 minutes): 4 ≥ `ProjectTTL` + `HandlerTime` + `AttemptTTL`, so
no transfer is open when the janitor begins. `ClaimedIsNeverPurged` **relies on
that order**, which the configuration does not enforce: it accepts any positive
values. Drops with two codes are beyond TLC together with the whole clock; what
survives them is proved (section 7).
`MaxAttempts` and `MaxTime` are the only guards the code does not have;
everything else they would limit is finite by itself. Two workers exceed what
liveness checking can cover in minutes; one is enough for the question the
liveness run asks, whether failing handlers and expiring deadlines can leave a
state the janitor does not get out of.

*The lock.* With three requests and two connections the holder and one waiter use
up the pool while the third wants a connection for its check: the smallest
instance in which waiting for a connection and waiting for the lock meet. A second
registration adds no new wait and is covered by the proof, as are more backends
than the pool has, of which some are ending.

*The rotation.* With two roles one can change, appear or vanish while the other is
reset; with two endpoints the agent can have a session on the one that is still
enabled. Two failures allow one in an attempt and another in the next. The
proof covers every number of each.

*Provisioning.* Two operations end in either order and differently. Failures have
no bound: a request fails once and then cleans up.

*Enabled services.* One branch and database are the registration's and one of each is not;
requests are repeated without bound, so every retry of every half-done operation
occurs. Requests take turns, as the lock makes them.

*Tokens.* Two ticks to the second put each instant at or between two seconds, the
expiry at 3 lies between two, and a token lives one second: minting, expiry and use
meet at every distance of interest, and a token that would outlive the project is refused. A
second access token replaces a first. The client names this service only (section 9). The
safety properties are proved for every resolution, every number and any resource, except
where `NamesAudience` is named.

*Janitor.* The older registration is the poisoned one, so it comes first in each
run; two runs are what a duplicated trigger makes. Of the 23 states of `Left` the run
takes the 13 that leave most to revoke (`LiveLeftovers`): the tokens are alive, or not even
a key row was stored, or the human has the project, with or without a token to poll
with. The other ten are among these with the tokens revoked before, or never stored; the
proof covers all of them.

*Deadlock* checking is off where the system may stop, and each cfg says why: a
settled registration gets no more requests, a prepared transfer is the end of
the rotation, and a client without its secret stops. It is on for the lock, the
janitor and the enabled services.

## 6. Fairness

Each specification with liveness assumes what the code's own scheduling and
deadlines justify, and nowhere that a call *succeeds*, unless said.

`ClaimCeremony!FairSpec`:

* `WF(HandlerStep(w))`: a handler takes its next step or fails; `Abort` is one
  of the steps, so nothing is assumed to *succeed*. The code itself bounds the
  wait for a connection (15 s, `connect`) and for Neon's operations (60 s,
  `OPERATION_TIMEOUT_MS`). It sets no deadline on a single HTTP call or SQL
  statement: that these end is taken from the limits `fetch` has in the runtime
  and from the platform, which ends a process with its connections. A call that
  never ended would keep the registration lock, and with it every other handler
  of that registration, for ever.
* `SF(Tick)`: time passes. Strong, because the guard of `Tick` is a bound on
  handlers, not a way to stop the clock, and each new handler makes it false for
  a moment.
* `SF` on each of the janitor's five steps: it is scheduled daily, and Neon and
  Postgres are not down at the same step of every run. Without this a janitor
  that always fails at the same call never finishes, which is true of the code.

Nothing is assumed of the agent, the human, polls, submits or issuance: they may
never come, and the two liveness properties hold regardless.

The others:

* `RegistrationLock`: `SF` of the check, the checkout and the lock, since pool and
  Postgres serve their waiters in order; `WF` of what a request does with a client it
  has, of its noticing that its backend is dead, and of the end of a backend whose client
  was destroyed. That a live backend refuses the lock is possible and not relied on. That work under the
  lock ends is assumed, for the reason above. The timeout of the checkout is not
  relied on.
* `RoleRotation`: `WF` of the worker, which includes that a human submits again, and of
  the end of an operation. Nothing of the agent; failures are bounded by `MaxFaults`.
* `Provisioning`: `WF` of the handler, where failing and dying are steps of it; `WF` of
  the retention period passing; `SF` of each of the janitor's steps, as above.
* `TokenService`: `WF` of the client's sending and receiving and of the service. The clock
  may stop.
* `JanitorRun`: `WF` of the daily trigger and of a run's next step, `SF` of taking a
  lock, which waits its turn. Failures other than `Poison`'s are bounded.

## 7. What is proved

Every invariant, action property and refinement a passing run checks is also a
theorem, for every value of the constants the assumptions allow. Eight modules
hold the proofs.

| Module | Theorems | From |
|---|---|---|
| `ClaimCeremonyProofs` | `TypeCorrect`, `TeardownStepByStep`, `Teardown`, `HandOutsEndAtFreeze` | `StoreAssumption` |
| | `AttemptsInOrder`, `CodesInOrder`, `OffersInOrder`, `LiveCodesAreRedeemed`, `NoCodeForMoved` | `StoreAssumption` |
| `ClaimEndProofs` | `EndsStepByStep`, `EndsComplete` | `StoreAssumption` |
| | `OffersExpireInTime`, `ClaimedStays` | and `RetentionOutlastsOffers` |
| | `ReconciledStays`, `PromiseKept` | and `RetentionOutlastsProject` |
| | `HandlersTakeTurns`, `OffersComeWithCompute` | and `NoDrops` |
| | `AcceptedIsMoved` | and `NoDrops`, `RetentionOutlastsProject` |
| `RegistrationLockProofs` | `LocksFollowRequests`, `PoolIsClean`, `WritersHoldTheLock`, `LockIsExclusive` | `LockAssumption` |
| `RoleRotationProofs` | `RotationStepByStep`, `NoWayInAfterRotation`, `OutcomeTellsCompute` | `RotationAssumption` |
| `ProvisioningProofs` | `ProvisionedStepByStep`, `ProvisioningTyped`, `CreatedInFull`, `FailedInFull`, `FinishedBeforeKey` | no assumption |
| `EnabledServicesProofs` | `ServicesStepByStep`, `ServicesTypeCorrect`, `ToldTheTruth`, `PrivateAuthStays` | `TargetAssumption` |
| `TokenServiceProofs` | `TokensAgree`, `RevokedStaysDead`, `NoDeadMint` | `TokenAssumption` |
| | `OnlyTheDeadIsPruned` | and `NamesAudience` |
| `JanitorRunProofs` | `JanitorStepByStep`, `JanitorTyped`, `PurgedOnceForAll`, `EndedForGood`, `AnswersAccount` | `JanitorAssumption` |

The assumptions of the modules say that constants are numbers or sets of the expected
kind, and that the value for "none" is none of the others. None relates one time to
another. Four hypotheses do more, and stand in the theorems that need them:

* `RetentionOutlastsOffers`: `Retention` ≥ `ProjectTTL` + `HandlerTime` +
  `AttemptTTL`. A transfer is created by a submit that took its lock before the
  registration expired, so it cannot be accepted after this sum. The defaults (30 days
  against 72 hours and minutes) satisfy it; the configuration does not enforce it.
* `RetentionOutlastsProject`: `Retention` ≥ `ProjectTTL`, which the first implies.
* `NoDrops`: no SQL backend ends under a running handler (`BackendDrops = FALSE`). The
  code has no means of its own to ensure it. What holds without it is in the rows of
  the table that do not name it.
* `NamesAudience`: the client asks for tokens for this service only. Without it
  `PrunedIsDead` is false of the code (below).

None of the four is there to make a proof easier. With `Resources` `{"audience", "other"}`
TLC finds `PrunedIsDead` violated in four steps: an exchange for another resource is told
`invalid_grant` while the assertion is good (`app.ts`, `POST /v1/oauth2/token`), which
`lib/errors/errors.ts` calls "not usable and never will be". For the other three, with the other constants of the run `promise` TLC
finds a counterexample to each statement as soon as its hypothesis fails:

* with drops, `OfferComesWithCompute` fails: a submit that lost its lock before its
  call disables the compute after another submit has enabled it and before that one
  records the offer;
* with drops, `AcceptedMeansMoved` fails: a deletion that lost its lock deletes the
  project just before an offer of it is recorded, and the next poll takes the 404 for
  a transfer;
* with `Retention` 1 (no drops), a human accepts under a janitor run
  (`ClaimedIsNeverPurged`); with `Retention` 0, a poll takes a project the janitor has
  deleted for a transferred one (`AcceptedMeansMoved`), or opens a claim again that
  the janitor has reconciled (`KeepsPromise`).

The two relations of the times are therefore necessary up to one or two units of the
clock.

**The teardown** (`ClaimCeremonyProofs`), with and without drops.
`TeardownBeforeOffer` speaks about the moment after `StartTransfer` and is not
inductive: it says nothing of the steps before. The invariant `TeardownInv` has four parts.

* `FreezeInv`: from `setPending` on, the registration is frozen; and whoever is
  about to hand out a secret *and still has the lock* did so before the freeze.
  A handler without the lock cannot hand anything out since the row it must write
  goes through the lost client. This is the one place where the lock matters.
* `KeyInv`: a key is dead before it is marked, and which steps may count on it.
* `AccessInv`: after a reset whose snapshot is still fresh, the agent knows no
  password; after the disabling in addition there is no session; from the
  successful comparison on nobody can make one, since a session needs a password
  and a new password needs a session or a hand-out.
* `OfferInv`: all of it once a transfer request is recorded, and only a recorded
  one is accepted.

Notably no part asks that a submit in these steps holds the lock: two submits
that both believe they hold it (one lost it with its backend) reset,
disable and compare interleaved, and the invariant is preserved because a reset
takes the snapshot away from everyone else, and a disable or an enable by another
worker cannot bring back a password nobody knows.

**The order of the codes** (`ClaimCeremonyProofs`), with and without drops.
`OrderInv` adds to `PendingIsLatest` and `OpenOfferIsLatest` what a handler of
`createClaimCode` may rely on *while it has the lock* between its decision and the
insert: no transfer can be accepted, the human does not have the project, and, once
nothing is left to close, no code is pending. Others change attempts only under
the lock or to write off one that has expired; the human can accept none. A
handler that lost its lock has no such right, and needs none: its insert fails.
`LiveCodesAreRedeemed` is the same right for a submit: the code it was let in with stays
the newest and pending until it leaves its lock. `NoCodeForMoved` follows for the insert. That the registration is not frozen gives
the same without asking Neon, by `TeardownInv`.

**How it ends** (`ClaimEndProofs`). One invariant for each question, each on top of
the teardown and the order:

* `EndInv`, with drops: no row says `accepted`, `reconciled` or revoked while the
  holding organization has the project, and each step of a deletion finds what the
  one before it did. All of that is final, so a handler may rely on it without its
  lock; `TerminalIsComplete` alone is not inductive since it says nothing of
  the step that ends the registration.
* `TimeInv`, with drops: a running handler took its lock at most `HandlerTime` ago
  and, when it submits, before the registration expired; so every recorded transfer
  expires before the sum above, a janitor run begins after it, and the owner a
  run has read as not human stays so until it deletes.
* `SettledInv`, with drops: whoever still has the lock between the check of the
  claim and its write works on a claim that is not reconciled, because only a poll
  reconciles while there is a token, and the janitor only after. The refinement follows
  action by action: each one is a step of `ClaimPromise` or leaves `Phase` and
  `Secrets` alone, and only the freeze, the loss of the last secret, the offer, the
  acceptance, the ends of a claim and the deletions are steps.
* `AloneInv`, without drops: who has taken the lock holds it. `ComputeInv` then says that a
  redeeming handler works while no transfer is open, and `MovedInv` that one that
  polls has found an offered project, which only the janitor deletes, and only when
  nobody can poll any more: so its 404 is a human's.

**The lock** (`RegistrationLockProofs`). `LockInv` says who has which backend, and that a
backend holds exactly the lock of a request that has it and is past `lock`; from
this, at most one request per registration has a live session with the lock. The
refinement needs that `holder` is a function of the state: `HolderIs` shows that
the `CHOOSE` in it has one candidate, and each step then enters, writes, leaves,
forgets, or does nothing of `ExclusiveLock`.

**The rotation** (`RoleRotationProofs`). `QuietWhenReturned` needs all of
`RotationInv`: `FreshIsUnknown` (a role that still has the password this round gave
it is unknown to the agent, except while its reset is running), `PatchedSoFar` (the
endpoints patched in this loop are as wanted, except the one whose operation is
running, and no operation of another attempt is left), and `Handover` (what one
loop leaves to the next). A role the agent changes leaves `fresh` and makes the
comparison fail.

**Provisioning** (`ProvisioningProofs`). `ProvisioningInv` is the course of one request:
what is known, minted, enabled and stored at each step, and of a cleanup what it has
undone *unless it noted a failure*. `PlainFailureIsClean` needs the last part step by
step: the key that is known is dead before the project is deleted, and the rows were
gone before both.

**Enabled services** (`EnabledServicesProofs`). `ToldIsStored` needs `ServicesInv`: the
agent has been told nothing yet of the service its request changes (`NotToldYet`);
which steps belong to which operation (`StepOfOperation`); what was read of the rows
before the first write is still so for the service that is written last (`RowsRead`);
and the scopes a handler was given are the registration's until its last write
(`GivenScopes`), without which storing Auth could bring a query scope back.
`PrivateAuthIsKept` follows from the same: a public part is stored only over nothing.

**The janitor** (`JanitorRunProofs`). `JanitorInv` separates what a run knows only while
it has its lock (that the registration has not ended) from what stays true without it
(the owner and the key are as it left them). Two overlapping runs therefore commit one end
between them, and the other finds it. It holds from every state of `Left`, whichever of them
`Leftovers` contains: what a claim, a deletion or a provisioning left live is taken by the
run, and what it takes for dead was dead.

**Tokens** (`TokenServiceProofs`). What an answer claims must still hold when it
arrives. `AnswerInv` says that an authoritative code is on its way only when the
assertion is dead or the project has left the holding organization, neither of which
anything undoes, or when the request named another resource. Behind `project_claimed`
stands `RowsInv`: an attempt or a registration is accepted or reconciled only if the project
has left, and so is a key that is marked before any freeze; and a proxied operation that has
passed its checks *under the lock* is not frozen (`ProjectClient`). The times of a token
are related to the project's through the division into seconds.

*The layout.* In each module: what the helpers do, then one lemma per component or
group of actions with one step per action, then the composition over `Next` and the
temporal step. Steps that touch none of what an invariant is about are treated
together: `SafeMove` for the teardown, `Elsewhere` for the order.

*Only model-checked*: the liveness properties `MovedIsReconciled`, `UnclaimedIsPurged`,
`EveryRequestEnds`, `PreparationSucceeds`, `RowsAreSettled`, `WishEnds` and `DueIsSettled`,
which are beyond the prover (no rules for fairness or `ENABLED`). The statements of
section 8 are refuted, so there is nothing to prove.

## 8. Where code and documents disagree

Each is a run that finds a behaviour of the code refuting a sentence of the
repository. The details and the quoted lines are under `findings`.

| Run | Sentence | Behaviour |
|---|---|---|
| `token_after_teardown` | "agent tokens are revoked before the transfer URL is exposed" (`README.md`) | a token exchange that read the registration before the freeze records a full-scope token after the revocation; while the registration is frozen `authenticate` refuses it for project operations |
| `deleted_counts_as_claimed` | "only `reconciled` means the claim finished" (`README.md`) | a deletion that failed half-way, then a submitted code, then the janitor: reconciled, and nobody has the project |
| `query_scope_lost` | an agent whose Data API is enabled gets tokens with `data_api.query` (`test/e2e/local-service.test.ts:633`) | the credential row was written and the scopes were not; the retry relays Neon's 409, finds the row and never looks at the scopes |

## 9. What is not modelled

* *Text*: the matching of paths to operations, the validation of a Data API body's
  fields, parsing of configuration, the alphabet and hash of codes, signatures,
  wording of errors, static documents of discovery. What they decide is in the
  models as a choice: which operation, whether a body asks for Auth, which constant.
* *Key encryption*: a call to `node:crypto`; a stored key is the key.
* *Edge forwarder*: stateless rewriting of headers for another host.
* *Telemetry* and the script that replays it: no state of the service depends on it.
* *Deployment and database scripts, entry points*: no protocol state.
* `claimed_into_org`: written with `accepted`. The janitor's decision reads it beside
  the claim state, which is `accepted` or later whenever it is set.
* The attempt state `failed_plan`: in the schema, never written.
* Clock skew between the service, Postgres and Neon.
* `EnabledServices` enables Auth on the registration's own branch only; a PATCH of a
  branch or an endpoint is authorized and answered, its effect is not kept.
* A registration in `TokenService` has one client; several clients with the same
  assertion are several workers of the ceremony. The rows of a replaced code and of the
  one that replaces it change in one step there, and in two in the ceremony. A client that
  discards its assertion on `project_claimed` forgoes the poll that might have recorded
  `reconciled`, and the janitor records it; the same code is the answer when the project
  was deleted. The codes of `POST /claim` are about the claim code and go to the human.
* The client of the run `token_service` names this service as the resource of its exchanges.
  The model has the other case, and what comes of it is told in section 7.
* A client of `TokenService` presents tokens the service has minted: signature, issuer and
  kind are right.
* Token exchanges are not in `JanitorRun`: by the default times a registration that is due
  expired long before, and is refused. Its polls are, since the configuration does not
  enforce that order.
* A lock query that fails after Postgres took the lock (cancelled in between by an
  administrator): `RegistrationLock` lets one fail only without the lock.

Two behaviours of the code that the models show and no statement of the repository
speaks against: a process that dies in `provision` before `createRegistration`
leaves a project without a row, which nothing ever finds (`PlainFailureIsClean` and
`RowsAreSettled` say exactly what is left out); and a role that is dropped between the list and its
reset ends the handler with the computes enabled, so that an agent that drops roles for ever can delay a claim
(`PreparationSucceeds`).
