-------------------------- MODULE RegistrationLock --------------------------
(***************************************************************************)
(* withRegistrationLock and the connection pool under it: a request checks *)
(* itself first on any pooled connection, then checks one out, waits on it *)
(* for the session-level advisory lock of its registration, works on that  *)
(* client alone, unlocks and gives it back. The pool and the advisory      *)
(* locks are the pg driver's and Postgres'; they are modelled as the code  *)
(* relies on them.                                                         *)
(***************************************************************************)
EXTENDS Naturals, FiniteSets

CONSTANTS
  Requests,       \* concurrent requests of one process
  Registrations,
  Backends,       \* Postgres backends that may exist at a time
  PoolSize,       \* `max` of the pool
  NoBackend,      \* the client of a request that has none
  NoOne           \* the holder of a lock that is free

ASSUME LockAssumption ==
  /\ NoBackend \notin Backends
  /\ NoOne \notin Requests
  /\ PoolSize \in Nat \ {0}
  /\ IsFiniteSet(Backends)

VARIABLES
  at,        \* each request's next step
  about,     \* the registration it is about
  client,    \* the backend it has checked out
  wrote,     \* it has written under the lock
  backend,   \* each backend: "none", "idle" in the pool, "out" with a request,
             \* "dead" with a request that has not noticed, or "ending"
  held       \* the advisory locks each backend holds

requestVars == <<at, about, client, wrote>>
vars == <<requestVars, backend, held>>

Steps == {"check", "checking", "connect", "lock", "work", "unlock", "ended"}

Pooled == {b \in Backends : backend[b] \in {"idle", "out", "dead"}}

(* The pool has an idle client, or may open one more. *)
Available(b) ==
  \/ backend[b] = "idle"
  \/ backend[b] = "none" /\ Cardinality(Pooled) < PoolSize

Goto(q, step) == at' = [at EXCEPT ![q] = step]

CheckOut(q, b, step) ==
  /\ Available(b)
  /\ backend' = [backend EXCEPT ![b] = "out"]
  /\ client' = [client EXCEPT ![q] = b]
  /\ Goto(q, step)
  /\ UNCHANGED <<about, wrote, held>>

(* release(): the pool keeps the client unless its connection is gone. *)
GiveBack(q, step) ==
  LET b == client[q]
  IN /\ backend' = [backend EXCEPT ![b] = IF @ = "dead" THEN "none" ELSE "idle"]
     /\ client' = [client EXCEPT ![q] = NoBackend]
     /\ Goto(q, step)

-----------------------------------------------------------------------------
(* The check before the lock, on a client of the pool's choice. *)
Check(q) ==
  /\ at[q] = "check"
  /\ \E b \in Backends : CheckOut(q, b, "checking")

Checked(q) ==
  /\ at[q] = "checking"
  /\ \E step \in {"connect", "ended"} :
       /\ backend[client[q]] = "dead" => step = "ended"
       /\ GiveBack(q, step)
  /\ UNCHANGED <<about, wrote, held>>

(* sql.connect() *)
Connect(q) ==
  /\ at[q] = "connect"
  /\ \E b \in Backends : CheckOut(q, b, "lock")

(* connectionTimeoutMillis *)
ConnectTimeout(q) ==
  /\ at[q] \in {"check", "connect"}
  /\ \A b \in Backends : ~Available(b)
  /\ Goto(q, "ended")
  /\ UNCHANGED <<about, client, wrote, backend, held>>

(* Wrong variant: the lock is tried once and the answer is not looked at. *)
LockTried(q) ==
  /\ at[q] = "lock"
  /\ backend[client[q]] = "out"
  /\ held' = [held EXCEPT ![client[q]] =
       @ \cup ({about[q]} \ UNION {held[b] : b \in Backends \ {client[q]}})]
  /\ Goto(q, "work")
  /\ UNCHANGED <<about, client, wrote, backend>>

(* pg_advisory_lock waits until no other session has the lock. *)
Lock(q) ==
  /\ at[q] = "lock"
  /\ backend[client[q]] = "out"
  /\ \A b \in Backends \ {client[q]} : about[q] \notin held[b]
  /\ held' = [held EXCEPT ![client[q]] = @ \cup {about[q]}]
  /\ Goto(q, "work")
  /\ UNCHANGED <<about, client, wrote, backend>>

(* The query fails, with its backend gone or refused by one that is still there;
   the outer finally gives the client back. *)
LockFails(q) ==
  /\ at[q] = "lock"
  /\ GiveBack(q, "ended")
  /\ UNCHANGED <<about, wrote, held>>

(* Wrong variant: the work is done on the pool, not on the locked client. *)
WriteThroughPool(q) ==
  /\ at[q] = "work"
  /\ \E b \in Backends : Available(b)
  /\ wrote' = [wrote EXCEPT ![q] = TRUE]
  /\ UNCHANGED <<at, about, client, backend, held>>

(* A statement of the work, on the locked client. *)
Write(q) ==
  /\ at[q] = "work"
  /\ backend[client[q]] = "out"
  /\ wrote' = [wrote EXCEPT ![q] = TRUE]
  /\ UNCHANGED <<at, about, client, backend, held>>

(* Wrong variant: what the operation returns needs a second connection, as
   BEGIN on the pool would. *)
WorkEndsOnPool(q) ==
  /\ at[q] = "work"
  /\ \E b \in Backends : Available(b)
  /\ Goto(q, "unlock")
  /\ UNCHANGED <<about, client, wrote, backend, held>>

(* The operation returns or throws, between any two of its statements. *)
WorkEnds(q) ==
  /\ at[q] = "work"
  /\ Goto(q, "unlock")
  /\ UNCHANGED <<about, client, wrote, backend, held>>

(* pg_advisory_unlock, release() *)
Unlock(q) ==
  /\ at[q] = "unlock"
  /\ backend[client[q]] = "out"
  /\ held' = [held EXCEPT ![client[q]] = @ \ {about[q]}]
  /\ GiveBack(q, "ended")
  /\ UNCHANGED <<about, wrote>>

(* Wrong variant: the client is given back although the unlock failed. *)
UnlockFailsKeep(q) ==
  /\ at[q] = "unlock"
  /\ GiveBack(q, "ended")
  /\ UNCHANGED <<about, wrote, held>>

(* The unlock query fails, with its backend gone or still there: the client is
   destroyed. *)
UnlockFails(q) ==
  /\ at[q] = "unlock"
  /\ backend' = [backend EXCEPT ![client[q]] = IF @ = "dead" THEN "none" ELSE "ending"]
  /\ client' = [client EXCEPT ![q] = NoBackend]
  /\ Goto(q, "ended")
  /\ UNCHANGED <<about, wrote, held>>

(* The next request. *)
Again(q) ==
  /\ at[q] = "ended"
  /\ Goto(q, "check")
  /\ \E r \in Registrations : about' = [about EXCEPT ![q] = r]
  /\ wrote' = [wrote EXCEPT ![q] = FALSE]
  /\ UNCHANGED <<client, backend, held>>

-----------------------------------------------------------------------------
(* A backend drops: Postgres frees its locks. The pool forgets an idle client,
   a checked-out one is noticed at its next query. *)
Drop(b) ==
  /\ backend[b] \in {"idle", "out"}
  /\ backend' = [backend EXCEPT ![b] = IF @ = "idle" THEN "none" ELSE "dead"]
  /\ held' = [held EXCEPT ![b] = {}]
  /\ UNCHANGED requestVars

(* Postgres ends the session of a destroyed client and frees its locks. *)
Exit(b) ==
  /\ backend[b] = "ending"
  /\ backend' = [backend EXCEPT ![b] = "none"]
  /\ held' = [held EXCEPT ![b] = {}]
  /\ UNCHANGED requestVars

-----------------------------------------------------------------------------
Init ==
  /\ at = [q \in Requests |-> "ended"]
  /\ about \in [Requests -> Registrations]
  /\ client = [q \in Requests |-> NoBackend]
  /\ wrote = [q \in Requests |-> FALSE]
  /\ backend = [b \in Backends |-> "none"]
  /\ held = [b \in Backends |-> {}]

RequestStep(q) ==
  \/ Check(q) \/ Checked(q)
  \/ Connect(q) \/ ConnectTimeout(q)
  \/ Lock(q) \/ LockFails(q)
  \/ Write(q) \/ WorkEnds(q)
  \/ Unlock(q) \/ UnlockFails(q)
  \/ Again(q)

Next ==
  \/ \E q \in Requests : RequestStep(q)
  \/ \E b \in Backends : Drop(b) \/ Exit(b)

Spec == Init /\ [][Next]_vars

(* The pool serves its waiters in order and so does Postgres, hence the strong
   fairness; that an operation ends is the handlers' affair. Nothing relies on
   the timeout of the pool, nor on a lock that is refused. *)
FairSpec ==
  /\ Spec
  /\ \A q \in Requests :
       /\ SF_vars(Check(q)) /\ SF_vars(Connect(q)) /\ SF_vars(Lock(q))
       /\ WF_vars(Checked(q)) /\ WF_vars(WorkEnds(q))
       /\ WF_vars(LockFails(q) /\ backend[client[q]] = "dead")
       /\ WF_vars(Unlock(q) \/ UnlockFails(q))
  /\ \A b \in Backends : WF_vars(Exit(b))

-----------------------------------------------------------------------------
(* Every variable has its type. *)
TypeOK ==
  /\ at \in [Requests -> Steps]
  /\ about \in [Requests -> Registrations]
  /\ client \in [Requests -> Backends \cup {NoBackend}]
  /\ wrote \in [Requests -> BOOLEAN]
  /\ backend \in [Backends -> {"none", "idle", "out", "dead", "ending"}]
  /\ held \in [Backends -> SUBSET Registrations]

(* A client that is back in the pool holds no advisory lock, however the request
   before ended: otherwise nobody could ever lock that registration again. *)
IdleHoldsNothing ==
  \A b \in Backends : backend[b] \in {"none", "idle", "dead"} => held[b] = {}

HasClient(q) == at[q] \in {"checking", "lock", "work", "unlock"}

(* Who has a checked-out backend, and which locks it holds for that request. *)
ClientInv ==
  /\ \A q \in Requests :
       /\ HasClient(q) => client[q] \in Backends /\ backend[client[q]] \in {"out", "dead"}
       /\ ~HasClient(q) => client[q] = NoBackend
  /\ \A p, q \in Requests : HasClient(p) /\ client[p] = client[q] => p = q

HeldInv ==
  /\ \A q \in Requests : HasClient(q) =>
       held[client[q]] =
         IF at[q] \in {"work", "unlock"} /\ backend[client[q]] = "out"
         THEN {about[q]} ELSE {}
  /\ \A b, c \in Backends : \A r \in held[b] : r \in held[c] => b = c

(* A session lock lives exactly as long as the request that took it on its
   client, or as the destroyed client's backend: the inductive form of
   IdleHoldsNothing. *)
LockInv == TypeOK /\ IdleHoldsNothing /\ ClientInv /\ HeldInv

(* A request writes only while its own session holds the lock of the
   registration it is about: a dropped backend fails the operation instead of
   leaving it running unlocked (store.ts). *)
WritesAreLocked ==
  [][\A q \in Requests : wrote'[q] /\ ~wrote[q] =>
       /\ about[q] \in held[client[q]]
       /\ \A p \in Requests \ {q} :
            at[p] = "work" /\ about[p] = about[q] => backend[client[p]] = "dead"]_vars

(* Every request is answered: those that wait for the lock keep the pool's
   connections, but the one that has the lock needs no other. *)
EveryRequestEnds == \A q \in Requests : at[q] = "check" ~> at[q] = "ended"

-----------------------------------------------------------------------------
(* The lock it implements: a request holds it from the query that takes it to
   the one that releases it, or until its backend is gone. *)
Holder(r, q) ==
  at[q] \in {"work", "unlock"} /\ about[q] = r /\ backend[client[q]] = "out"

holder ==
  [r \in Registrations |->
     IF \E q \in Requests : Holder(r, q) THEN CHOOSE q \in Requests : Holder(r, q)
     ELSE NoOne]

Abstract == INSTANCE ExclusiveLock WITH writes <- {q \in Requests : wrote[q]}

ImplementsLock == Abstract!Spec
=============================================================================
