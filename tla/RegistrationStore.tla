------------------------- MODULE RegistrationStore -------------------------
(***************************************************************************)
(* The state one registration of the service lives in, and the operations  *)
(* every handler is built from: the rows Postgres keeps for it, what Neon  *)
(* knows of its project, the registration lock, and the request handlers   *)
(* that run one step at a time between two SQL statements or Neon calls.   *)
(*                                                                         *)
(* A handler can stop before any of its steps: the process dies, Neon      *)
(* refuses or times out, the SQL backend is gone. The code reacts to all   *)
(* of these the same way (the error propagates, the lock is released), and *)
(* a call that took effect but whose answer was lost is the call followed  *)
(* by such a stop. `Abort` therefore stands for every failure.             *)
(***************************************************************************)
EXTENDS Naturals

CONSTANTS
  Workers,       \* request slots; any of them can run any handler
  NoOne,         \* the lock's value while nobody holds it
  MaxAttempts,   \* bound: claim codes minted for the registration
  MaxTime,       \* bound: the last instant of the clock
  AttemptTTL,    \* claimAttemptTtlSeconds, of a code and of a transfer request
  ProjectTTL,    \* projectTtlSeconds: the registration expires at this instant
  Retention,     \* unclaimedRetentionSeconds: the janitor works after it
  HandlerTime,   \* bound: how long a handler that took the lock keeps running
  BackendDrops   \* TRUE when a SQL backend may drop under a running handler

ASSUME StoreAssumption ==
  /\ NoOne \notin Workers
  /\ MaxAttempts \in Nat
  /\ MaxTime \in Nat
  /\ AttemptTTL \in Nat \ {0}
  /\ ProjectTTL \in Nat \ {0}
  /\ Retention \in Nat
  /\ HandlerTime \in Nat
  /\ BackendDrops \in BOOLEAN

VARIABLES
  (* The row of `registrations`, its project key row and its credentials *)
  frozen,        \* issuance_frozen
  claimState,    \* claim_state
  revoked,       \* revoked_at and revoked_reason: "no", "agent", "retention"
  keyMarked,     \* project_keys.revoked_at is set
  derivedLive,   \* some derived_credentials row has no revoked_at
  (* The rows of `tokens`, by what they still allow *)
  assertionLive, \* the identity assertion is not revoked
  accessLive,    \* kinds of access tokens not revoked: "full" or "empty" scope
  (* The rows of `claim_attempts`, numbered in the order of created_at *)
  attempts,      \* how many there are; the last one is the latest
  attState,      \* state
  attOffered,    \* transfer_request_id is set
  attExpires,    \* expires_at
  (* The project at Neon *)
  owner,         \* the holding organization, the human's, or deleted
  keyLive,       \* Neon accepts the project-scoped API key
  computeOn,     \* the branch's computes are enabled
  knownPw,       \* the agent knows a password some role has now
  session,       \* a SQL session of the agent is open
  (* The service *)
  lock,          \* the holder of the registration's advisory lock
  pc,            \* each worker's next step
  mine,          \* each worker's local variables
  fresh,         \* workers whose role snapshot still equals the roles at Neon
  now            \* the clock every process reads

registrationVars == <<frozen, claimState, revoked>>
secretVars == <<keyMarked, derivedLive>>
tokenVars == <<assertionLive, accessLive>>
attemptVars == <<attempts, attState, attOffered, attExpires>>
projectVars == <<owner, keyLive>>
databaseVars == <<computeOn, knownPw, session>>
handlerVars == <<lock, pc, mine, fresh>>

vars == <<frozen, claimState, revoked, keyMarked, derivedLive,
          assertionLive, accessLive, attempts, attState, attOffered, attExpires,
          owner, keyLive, computeOn, knownPw, session,
          lock, pc, mine, fresh, now>>

AttemptIds == 1..MaxAttempts
ClaimStates == {"unclaimed", "pending", "accepted", "reconciled"}
AttemptStates == {"none", "pending", "accepted", "reconciled", "expired", "cancelled"}

(* A handler's locals: the attempt it works on, what it last read, how often
   it retried, the expiry of the transfer request it created, and when it took
   the lock. *)
NoLocals == [att |-> 0, sees |-> "none", tries |-> 0, offer |-> 0, since |-> 0]

-----------------------------------------------------------------------------
(* What the handlers ask of the store *)

(* requireUsableRegistration *)
Usable == revoked = "no" /\ claimState # "reconciled" /\ now < ProjectTTL

(* latestClaimAttempt *)
Latest == attempts
HasAttempt == attempts > 0

(* `attempt.expiresAt.getTime() <= Date.now()` *)
Expired(a) == attExpires[a] <= now

(* Some transfer URL has been handed to a human. *)
Offered == \E a \in AttemptIds : attOffered[a]

-----------------------------------------------------------------------------
(* Steps of a handler. Every one of them is instantaneous; time passes only
   between steps. *)

Goto(w, step) ==
  /\ pc' = [pc EXCEPT ![w] = step]
  /\ UNCHANGED <<lock, mine, fresh, now>>

GotoWith(w, step, locals) ==
  /\ pc' = [pc EXCEPT ![w] = step]
  /\ mine' = [mine EXCEPT ![w] = locals]
  /\ UNCHANGED <<lock, fresh, now>>

(* withRegistrationLock: check a client out and take the advisory lock on it.
   Waiting changes nothing, so the lock is taken when it is free. *)
Acquire(w, step, locals) ==
  /\ lock = NoOne
  /\ lock' = w
  /\ pc' = [pc EXCEPT ![w] = step]
  /\ mine' = [mine EXCEPT ![w] = [locals EXCEPT !.since = now]]
  /\ UNCHANGED <<fresh, now>>

(* The handler answers or throws: the lock is released with its client. *)
Finish(w) ==
  /\ pc' = [pc EXCEPT ![w] = "idle"]
  /\ mine' = [mine EXCEPT ![w] = NoLocals]
  /\ lock' = IF lock = w THEN NoOne ELSE lock
  /\ fresh' = fresh \ {w}
  /\ UNCHANGED now

(* A SQL statement on the locked client succeeds only while its backend, and
   with it the advisory lock, is still there. *)
Holds(w) == lock = w

(* The handler took the lock and has not answered yet. *)
InLock(w) == pc[w] \notin {"idle", "issueWait", "submitWait",
                           "exchangeRead", "exchangeRecord"}

-----------------------------------------------------------------------------
(* What can happen at any time *)

Abort(w) ==
  /\ pc[w] # "idle"
  /\ Finish(w)
  /\ UNCHANGED <<registrationVars, secretVars, tokenVars, attemptVars,
                 projectVars, databaseVars>>

(* The backend drops: Postgres frees the advisory lock, the handler does not
   notice before its next SQL statement. *)
DropBackend(w) ==
  /\ BackendDrops
  /\ Holds(w)
  /\ lock' = NoOne
  /\ UNCHANGED <<pc, mine, fresh, now, registrationVars, secretVars, tokenVars,
                 attemptVars, projectVars, databaseVars>>

(* The clock. A handler that took the lock ends within HandlerTime. *)
Tick ==
  /\ now < MaxTime
  /\ \A w \in Workers : InLock(w) => now < mine[w].since + HandlerTime
  /\ now' = now + 1
  /\ UNCHANGED <<handlerVars, registrationVars, secretVars, tokenVars,
                 attemptVars, projectVars, databaseVars>>

(* A registration whose provisioning has just committed: createRegistration,
   storeProjectKey and recordToken have run, and nothing was handed out yet. *)
StoreInit ==
  /\ frozen = FALSE
  /\ claimState = "unclaimed"
  /\ revoked = "no"
  /\ keyMarked = FALSE
  /\ derivedLive = FALSE
  /\ assertionLive = TRUE
  /\ accessLive = {}
  /\ attempts = 0
  /\ attState = [a \in AttemptIds |-> "none"]
  /\ attOffered = [a \in AttemptIds |-> FALSE]
  /\ attExpires = [a \in AttemptIds |-> 0]
  /\ owner = "holding"
  /\ keyLive = TRUE
  /\ computeOn = TRUE
  /\ knownPw = FALSE
  /\ session = FALSE
  /\ lock = NoOne
  /\ pc = [w \in Workers |-> "idle"]
  /\ mine = [w \in Workers |-> NoLocals]
  /\ fresh = {}
  /\ now = 0
=============================================================================
