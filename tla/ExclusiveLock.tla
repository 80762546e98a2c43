---------------------------- MODULE ExclusiveLock ----------------------------
(***************************************************************************)
(* What the rest of the service takes withRegistrationLock for: at most    *)
(* one request works under a registration's lock, it may lose the lock     *)
(* before it has noticed, and after that it writes nothing more.           *)
(* RegistrationStore's Acquire, Finish, DropBackend and Holds are these    *)
(* steps for one registration.                                             *)
(***************************************************************************)
CONSTANTS Requests, Registrations, NoOne

VARIABLES holder,   \* who has each registration's lock
          writes    \* requests that have written under the lock they hold

vars == <<holder, writes>>

Enter(q, r) ==
  /\ holder[r] = NoOne
  /\ \A s \in Registrations : holder[s] # q
  /\ holder' = [holder EXCEPT ![r] = q]
  /\ UNCHANGED writes

(* The only step that adds a writer. *)
Write(q) ==
  /\ \E r \in Registrations : holder[r] = q
  /\ writes' = writes \cup {q}
  /\ UNCHANGED holder

(* Released, or lost with the backend. *)
Leave(r) ==
  /\ holder[r] # NoOne
  /\ holder' = [holder EXCEPT ![r] = NoOne]
  /\ UNCHANGED writes

(* The request is over. *)
Forget(q) ==
  /\ \A r \in Registrations : holder[r] # q
  /\ writes' = writes \ {q}
  /\ UNCHANGED holder

Init ==
  /\ holder = [r \in Registrations |-> NoOne]
  /\ writes = {}

Next ==
  \/ \E q \in Requests, r \in Registrations : Enter(q, r)
  \/ \E q \in Requests : Write(q) \/ Forget(q)
  \/ \E r \in Registrations : Leave(r)

Spec == Init /\ [][Next]_vars
=============================================================================
