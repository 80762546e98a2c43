------------------------ MODULE RegistrationLockProofs ------------------------
(***************************************************************************)
(* Proofs about RegistrationLock, for any number of requests,              *)
(* registrations and backends and any size of the pool: the inductive      *)
(* invariant, what a writer under the lock may rely on, and the step       *)
(* simulation of ExclusiveLock.                                            *)
(***************************************************************************)
EXTENDS RegistrationLock, TLAPS

-----------------------------------------------------------------------------
(* The inductive invariant, conjunct by conjunct. *)
LEMMA InitInv == Init => LockInv
BY LockAssumption DEF Init, LockInv, TypeOK, IdleHoldsNothing, ClientInv, HeldInv,
   HasClient, Steps

(* Check and Connect: the client that is taken holds nothing and is nobody's. *)
LEMMA CheckOutInv ==
  ASSUME LockInv, NEW q \in Requests, NEW b \in Backends, NEW step \in Steps,
         step \in {"checking", "lock"}, ~HasClient(q), CheckOut(q, b, step)
  PROVE  LockInv'
<1> USE DEF LockInv, CheckOut, Available, Goto
<1>1. held[b] = {} /\ backend[b] \notin {"out", "dead"}
  BY DEF TypeOK, IdleHoldsNothing
<1>2. \A p \in Requests : HasClient(p) => client[p] # b
  BY <1>1 DEF ClientInv
<1>3. TypeOK'
  BY DEF TypeOK
<1>4. IdleHoldsNothing'
  BY DEF IdleHoldsNothing, TypeOK
<1>5. ClientInv'
  <2>1. \A p \in Requests : p # q => (HasClient(p)' <=> HasClient(p)) /\ client'[p] = client[p]
    BY DEF HasClient, TypeOK
  <2>2. client'[q] = b /\ HasClient(q)' /\ backend'[b] = "out"
    BY DEF HasClient, TypeOK
  <2>3. \A p \in Requests : p # q => client[p] # b
    BY <1>2, LockAssumption DEF ClientInv
  <2>4. \A c \in Backends : c # b => backend'[c] = backend[c]
    BY DEF TypeOK
  <2> QED  BY <2>1, <2>2, <2>3, <2>4 DEF ClientInv
<1>6. HeldInv'
  <2>1. \A p \in Requests : p # q /\ HasClient(p)' =>
          HasClient(p) /\ client'[p] = client[p] /\ client[p] # b /\ at'[p] = at[p]
            /\ backend'[client[p]] = backend[client[p]] /\ client[p] \in Backends
    BY <1>2 DEF HasClient, TypeOK, ClientInv
  <2>2. client'[q] = b /\ at'[q] = step
    BY DEF TypeOK
  <2>3. \A p \in Requests : HasClient(p)' =>
          held[client'[p]] =
            IF at'[p] \in {"work", "unlock"} /\ backend'[client'[p]] = "out"
            THEN {about[p]} ELSE {}
    <3> SUFFICES ASSUME NEW p \in Requests, HasClient(p)'
                 PROVE  held[client'[p]] =
                          IF at'[p] \in {"work", "unlock"} /\ backend'[client'[p]] = "out"
                          THEN {about[p]} ELSE {}
      OBVIOUS
    <3>1. CASE p = q
      BY <3>1, <2>2, <1>1
    <3>2. CASE p # q
      BY <3>2, <2>1 DEF HeldInv
    <3> QED  BY <3>1, <3>2
  <2> QED  BY <2>3 DEF HeldInv
<1> QED  BY <1>3, <1>4, <1>5, <1>6

(* Checked, LockFails, Unlock and UnlockFails: the client that is given back, or
   destroyed, was this request's alone, and it keeps no lock in the pool. *)
LEMMA LetGoInv ==
  ASSUME LockInv, NEW q \in Requests, HasClient(q),
         NEW step \in {"connect", "ended"},
         NEW state \in {"none", "idle", "ending"},
         NEW kept, kept \subseteq held[client[q]], state # "ending" => kept = {},
         Goto(q, step),
         client' = [client EXCEPT ![q] = NoBackend],
         backend' = [backend EXCEPT ![client[q]] = state],
         held' = [held EXCEPT ![client[q]] = kept],
         UNCHANGED <<about, wrote>>
  PROVE  LockInv'
<1> DEFINE b == client[q]
<1> USE DEF LockInv
<1>1. b \in Backends /\ held[b] \subseteq Registrations
  BY DEF ClientInv, TypeOK
<1>2. /\ ~HasClient(q)' /\ client'[q] = NoBackend
      /\ backend'[b] = state /\ held'[b] = kept
      /\ \A p \in Requests : p # q =>
           at'[p] = at[p] /\ client'[p] = client[p] /\ (HasClient(p)' <=> HasClient(p))
      /\ \A c \in Backends : c # b => backend'[c] = backend[c] /\ held'[c] = held[c]
  BY <1>1 DEF Goto, HasClient, TypeOK
<1>3. \A p \in Requests : p # q /\ HasClient(p) =>
        client[p] \in Backends /\ client[p] # b
  BY DEF ClientInv
<1> HIDE DEF b
<1>4. TypeOK'
  BY <1>1 DEF TypeOK, Goto, Steps, b
<1>5. IdleHoldsNothing'
  BY <1>1, <1>2 DEF IdleHoldsNothing
<1>6. ClientInv'
  <2>1. \A p \in Requests :
          /\ HasClient(p)' => client'[p] \in Backends /\ backend'[client'[p]] \in {"out", "dead"}
          /\ ~HasClient(p)' => client'[p] = NoBackend
    <3>1. \A p \in Requests :
            /\ HasClient(p) => client[p] \in Backends /\ backend[client[p]] \in {"out", "dead"}
            /\ ~HasClient(p) => client[p] = NoBackend
      BY DEF ClientInv
    <3> QED  BY <1>2, <1>3, <3>1
  <2>2. \A p, r \in Requests : HasClient(p)' /\ client'[p] = client'[r] => p = r
    <3>1. \A p, r \in Requests : HasClient(p) /\ client[p] = client[r] => p = r
      BY DEF ClientInv
    <3> QED  BY <1>2, <1>3, <3>1, LockAssumption
  <2> QED  BY <2>1, <2>2 DEF ClientInv
<1>7. HeldInv'
  <2>1. \A p \in Requests : HasClient(p)' =>
          held'[client'[p]] =
            IF at'[p] \in {"work", "unlock"} /\ backend'[client'[p]] = "out"
            THEN {about'[p]} ELSE {}
    BY <1>2, <1>3 DEF HeldInv
  <2>2. \A c \in Backends : held'[c] \subseteq held[c]
    BY <1>1, <1>2 DEF b
  <2>3. \A c, d \in Backends : \A r \in held'[c] : r \in held'[d] => c = d
    BY <2>2 DEF HeldInv
  <2> QED  BY <2>1, <2>3 DEF HeldInv
<1> QED  BY <1>4, <1>5, <1>6, <1>7

(* Lock: no other session has it, and this client had none. *)
LEMMA LockStepInv ==
  ASSUME LockInv, NEW q \in Requests, Lock(q)
  PROVE  LockInv'
<1> DEFINE b == client[q]
<1> USE DEF LockInv
<1>1. b \in Backends /\ backend[b] = "out" /\ held[b] = {} /\ about[q] \in Registrations
  BY DEF Lock, HasClient, ClientInv, HeldInv, TypeOK
<1>2. /\ at'[q] = "work" /\ held'[b] = {about[q]}
      /\ \A p \in Requests : p # q => at'[p] = at[p]
      /\ \A p \in Requests : HasClient(p)' <=> HasClient(p)
      /\ \A c \in Backends : c # b => held'[c] = held[c] /\ about[q] \notin held[c]
      /\ client' = client /\ backend' = backend /\ about' = about /\ wrote' = wrote
  BY <1>1 DEF Lock, Goto, HasClient, TypeOK
<1>3. \A p \in Requests : p # q /\ HasClient(p) =>
        client[p] \in Backends /\ client[p] # b
  BY <1>1 DEF ClientInv
<1> HIDE DEF b
<1>4. TypeOK'
  BY <1>1 DEF TypeOK, Lock, Goto, Steps, b
<1>5. IdleHoldsNothing'
  BY <1>1, <1>2 DEF IdleHoldsNothing
<1>6. ClientInv'
  BY <1>2 DEF ClientInv
<1>7. HeldInv'
  <2>1. \A p \in Requests : HasClient(p)' =>
          held'[client'[p]] =
            IF at'[p] \in {"work", "unlock"} /\ backend'[client'[p]] = "out"
            THEN {about'[p]} ELSE {}
    <3>1. ASSUME NEW p \in Requests, p # q, HasClient(p)
          PROVE  held'[client[p]] = held[client[p]]
      BY <1>2, <1>3, <3>1
    <3>2. held'[client[q]] = {about[q]}
      BY <1>2 DEF b
    <3> QED  BY <1>1, <1>2, <3>1, <3>2 DEF HeldInv, b
  <2>2. \A c, d \in Backends : \A r \in held'[c] : r \in held'[d] => c = d
    BY <1>2 DEF HeldInv
  <2> QED  BY <2>1, <2>2 DEF HeldInv
<1> QED  BY <1>4, <1>5, <1>6, <1>7

(* Write and WorkEnds move nothing but the step and the writers. *)
LEMMA WorkInv ==
  ASSUME LockInv, NEW q \in Requests, Write(q) \/ WorkEnds(q)
  PROVE  LockInv'
<1> USE DEF LockInv, Write, WorkEnds, Goto
<1>1. /\ client' = client /\ backend' = backend /\ about' = about /\ held' = held
      /\ \A p \in Requests : HasClient(p)' <=> HasClient(p)
      /\ \A p \in Requests : at'[p] \in {"work", "unlock"} <=> at[p] \in {"work", "unlock"}
  BY DEF HasClient, TypeOK
<1>2. TypeOK'
  BY DEF TypeOK, Steps
<1>3. IdleHoldsNothing' /\ ClientInv'
  BY <1>1 DEF IdleHoldsNothing, ClientInv
<1>4. HeldInv'
  BY <1>1 DEF HeldInv
<1> QED  BY <1>2, <1>3, <1>4

(* ConnectTimeout and Again: a request without a client stays without one. *)
LEMMA NoClientInv ==
  ASSUME LockInv, NEW q \in Requests, ConnectTimeout(q) \/ Again(q)
  PROVE  LockInv'
<1> USE DEF LockInv, ConnectTimeout, Again, Goto
<1>1. /\ client' = client /\ backend' = backend /\ held' = held
      /\ \A p \in Requests : HasClient(p)' <=> HasClient(p)
      /\ \A p \in Requests : HasClient(p) => at'[p] = at[p] /\ about'[p] = about[p]
  BY DEF HasClient, TypeOK
<1>2. TypeOK'
  BY DEF TypeOK, Steps
<1>3. IdleHoldsNothing' /\ ClientInv'
  BY <1>1 DEF IdleHoldsNothing, ClientInv
<1>4. HeldInv'
  BY <1>1 DEF HeldInv
<1> QED  BY <1>2, <1>3, <1>4

(* Drop and Exit: Postgres frees the locks of a backend that is gone. *)
LEMMA BackendInv ==
  ASSUME LockInv, NEW b \in Backends, Drop(b) \/ Exit(b)
  PROVE  LockInv'
<1> USE DEF LockInv, requestVars
<1>1. /\ at' = at /\ client' = client /\ about' = about /\ held'[b] = {}
      /\ backend'[b] \in {"none", "dead"} /\ (backend[b] = "out" => backend'[b] = "dead")
      /\ backend[b] # "dead"
      /\ \A c \in Backends : c # b => backend'[c] = backend[c] /\ held'[c] = held[c]
      /\ \A p \in Requests : HasClient(p)' <=> HasClient(p)
  BY DEF Drop, Exit, HasClient, TypeOK
<1>2. TypeOK'
  BY DEF TypeOK, Drop, Exit
<1>3. IdleHoldsNothing'
  BY <1>1 DEF IdleHoldsNothing
<1>4. ClientInv'
  <2>1. \A p \in Requests :
          /\ HasClient(p)' => client'[p] \in Backends /\ backend'[client'[p]] \in {"out", "dead"}
          /\ ~HasClient(p)' => client'[p] = NoBackend
    BY <1>1 DEF ClientInv
  <2>2. \A p, r \in Requests : HasClient(p)' /\ client'[p] = client'[r] => p = r
    BY <1>1 DEF ClientInv
  <2> QED  BY <2>1, <2>2 DEF ClientInv
<1>5. HeldInv'
  <2>1. \A p \in Requests : HasClient(p)' =>
          held'[client'[p]] =
            IF at'[p] \in {"work", "unlock"} /\ backend'[client'[p]] = "out"
            THEN {about'[p]} ELSE {}
    <3> SUFFICES ASSUME NEW p \in Requests, HasClient(p)
                 PROVE  held'[client[p]] =
                          IF at[p] \in {"work", "unlock"} /\ backend'[client[p]] = "out"
                          THEN {about[p]} ELSE {}
      BY <1>1
    <3>1. CASE client[p] = b
      BY <1>1, <3>1
    <3>2. CASE client[p] # b
      BY <1>1, <3>2 DEF HeldInv, ClientInv
    <3> QED  BY <3>1, <3>2
  <2>2. \A c \in Backends : held'[c] \subseteq held[c]
    BY <1>1
  <2>3. \A c, d \in Backends : \A r \in held'[c] : r \in held'[d] => c = d
    BY <2>2 DEF HeldInv
  <2> QED  BY <2>1, <2>3 DEF HeldInv
<1> QED  BY <1>2, <1>3, <1>4, <1>5

(* The four actions that let a client go are instances of LetGoInv. *)
LEMMA LetsGoInv ==
  ASSUME LockInv, NEW q \in Requests,
         Checked(q) \/ LockFails(q) \/ Unlock(q) \/ UnlockFails(q)
  PROVE  LockInv'
<1> DEFINE b == client[q]
           freed == IF backend[b] = "dead" THEN "none" ELSE "idle"
<1>1. HasClient(q) /\ b \in Backends /\ held \in [Backends -> SUBSET Registrations]
      /\ backend[b] \in {"out", "dead"}
  BY DEF LockInv, ClientInv, TypeOK, HasClient, Checked, LockFails, Unlock, UnlockFails
<1>2. held = [held EXCEPT ![b] = held[b]]
  BY <1>1
<1>3. CASE Checked(q)
  <2>1. held[b] = {}
    BY <1>1, <1>3 DEF LockInv, HeldInv, Checked
  <2>2. PICK step \in {"connect", "ended"} : GiveBack(q, step)
    BY <1>3 DEF Checked
  <2>3. backend' = [backend EXCEPT ![b] = freed] /\ Goto(q, step)
        /\ client' = [client EXCEPT ![q] = NoBackend] /\ held' = [held EXCEPT ![b] = {}]
    BY <1>2, <1>3, <2>1, <2>2 DEF GiveBack, Checked
  <2> QED  BY <1>1, <1>3, <2>3, LetGoInv DEF Checked
<1>4. CASE LockFails(q)
  <2>1. held[b] = {}
    BY <1>1, <1>4 DEF LockInv, HeldInv, LockFails
  <2>2. backend' = [backend EXCEPT ![b] = freed] /\ Goto(q, "ended")
        /\ client' = [client EXCEPT ![q] = NoBackend] /\ held' = [held EXCEPT ![b] = {}]
    BY <1>2, <1>4, <2>1 DEF GiveBack, LockFails
  <2> QED  BY <1>1, <1>4, <2>2, LetGoInv DEF LockFails
<1>5. CASE Unlock(q)
  <2>1. held[b] = {about[q]}
    BY <1>1, <1>5 DEF LockInv, HeldInv, Unlock
  <2>2. backend' = [backend EXCEPT ![b] = freed] /\ Goto(q, "ended")
        /\ client' = [client EXCEPT ![q] = NoBackend] /\ held' = [held EXCEPT ![b] = {}]
    BY <1>1, <1>5, <2>1 DEF GiveBack, Unlock
  <2> QED  BY <1>1, <1>5, <2>2, LetGoInv DEF Unlock
<1>6. CASE UnlockFails(q)
  <2> DEFINE state == IF backend[b] = "dead" THEN "none" ELSE "ending"
  <2>1. state # "ending" => held[b] = {}
    BY <1>1 DEF LockInv, IdleHoldsNothing
  <2>2. backend' = [backend EXCEPT ![b] = state] /\ Goto(q, "ended")
        /\ client' = [client EXCEPT ![q] = NoBackend] /\ held' = [held EXCEPT ![b] = held[b]]
    BY <1>2, <1>6 DEF UnlockFails
  <2> QED  BY <1>1, <1>6, <2>1, <2>2, LetGoInv DEF UnlockFails
<1> QED  BY <1>3, <1>4, <1>5, <1>6

(* The inductive step. *)
LEMMA NextInv == LockInv /\ [Next]_vars => LockInv'
<1> SUFFICES ASSUME LockInv, [Next]_vars  PROVE LockInv'
  OBVIOUS
<1>1. CASE UNCHANGED vars
  BY <1>1 DEF LockInv, TypeOK, IdleHoldsNothing, ClientInv, HeldInv, HasClient, vars, requestVars
<1>2. ASSUME NEW q \in Requests, RequestStep(q)  PROVE LockInv'
  <2>1. CASE Check(q) \/ Connect(q)
    BY <2>1, CheckOutInv DEF Check, Connect, HasClient, Steps
  <2>2. CASE Checked(q) \/ LockFails(q) \/ Unlock(q) \/ UnlockFails(q)
    BY <2>2, LetsGoInv
  <2>3. CASE Lock(q)
    BY <2>3, LockStepInv
  <2>4. CASE Write(q) \/ WorkEnds(q)
    BY <2>4, WorkInv
  <2>5. CASE ConnectTimeout(q) \/ Again(q)
    BY <2>5, NoClientInv
  <2> QED  BY <1>2, <2>1, <2>2, <2>3, <2>4, <2>5 DEF RequestStep
<1>3. ASSUME NEW b \in Backends, Drop(b) \/ Exit(b)  PROVE LockInv'
  BY <1>3, BackendInv
<1> QED  BY <1>1, <1>2, <1>3 DEF Next

(* Pool and locks agree: a session lock lives as long as the request that took it
   on its client, or as the destroyed client's backend (withRegistrationLock). *)
THEOREM LocksFollowRequests == Spec => []LockInv
BY InitInv, NextInv, PTL DEF Spec

(* No client goes back to the pool with an advisory lock, whichever step of
   withRegistrationLock failed. *)
THEOREM PoolIsClean == Spec => []IdleHoldsNothing
<1>1. LockInv => IdleHoldsNothing
  BY DEF LockInv
<1> QED  BY <1>1, LocksFollowRequests, PTL

-----------------------------------------------------------------------------
(* Who is at work with a live backend holds the lock there, alone. *)
LEMMA HolderHolds ==
  ASSUME LockInv, NEW q \in Requests, NEW r, Holder(r, q)
  PROVE  client[q] \in Backends /\ held[client[q]] = {r}
BY DEF LockInv, ClientInv, HeldInv, HasClient, Holder

(* Two holders would share a client. *)
LEMMA OneHolder ==
  ASSUME LockInv, NEW p \in Requests, NEW q \in Requests, NEW r, Holder(r, p), Holder(r, q)
  PROVE  p = q
<1>1. client[p] \in Backends /\ client[q] \in Backends
      /\ held[client[p]] = {r} /\ held[client[q]] = {r}
  BY HolderHolds
<1>2. client[p] = client[q]
  BY <1>1 DEF LockInv, HeldInv
<1> QED  BY <1>2 DEF LockInv, ClientInv, HasClient, Holder

(* Only Write makes a writer. *)
LEMMA WriterWrites ==
  ASSUME LockInv, Next, NEW q \in Requests, wrote'[q], ~wrote[q]
  PROVE  Write(q)
<1>1. wrote \in [Requests -> BOOLEAN]
  BY DEF LockInv, TypeOK
<1>2. ASSUME NEW p \in Requests, RequestStep(p)  PROVE Write(q)
  <2>1. CASE Write(p)
    <3>1. wrote' = [wrote EXCEPT ![p] = TRUE]
      BY <2>1 DEF Write
    <3>2. p = q
      BY <3>1, <1>1
    <3> QED  BY <2>1, <3>2
  <2>2. CASE Again(p)
    BY <2>2, <1>1 DEF Again
  <2>3. CASE wrote' = wrote
    BY <2>3
  <2> QED  BY <1>2, <2>1, <2>2, <2>3
        DEF RequestStep, Check, Checked, Connect, ConnectTimeout, Lock, LockFails, WorkEnds,
            Unlock, UnlockFails, CheckOut
<1>3. ASSUME NEW b \in Backends, Drop(b) \/ Exit(b)  PROVE FALSE
  BY <1>3 DEF Drop, Exit, requestVars
<1> QED  BY <1>2, <1>3 DEF Next

(* A statement under withRegistrationLock runs while the request's own session has
   the lock, and no other request of that registration can write. *)
THEOREM WritersHoldTheLock == Spec => WritesAreLocked
<1> DEFINE Locked ==
      \A q \in Requests : wrote'[q] /\ ~wrote[q] =>
        /\ about[q] \in held[client[q]]
        /\ \A p \in Requests \ {q} :
             at[p] = "work" /\ about[p] = about[q] => backend[client[p]] = "dead"
<1>1. LockInv /\ [Next]_vars => [Locked]_vars
  <2> SUFFICES ASSUME LockInv, Next, NEW q \in Requests, wrote'[q], ~wrote[q]
               PROVE  /\ about[q] \in held[client[q]]
                      /\ \A p \in Requests \ {q} :
                           at[p] = "work" /\ about[p] = about[q] => backend[client[p]] = "dead"
    OBVIOUS
  <2>1. Holder(about[q], q)
    BY WriterWrites DEF Write, Holder
  <2>2. held[client[q]] = {about[q]}
    BY <2>1, HolderHolds
  <2>3. ASSUME NEW p \in Requests \ {q}, at[p] = "work", about[p] = about[q]
        PROVE  backend[client[p]] = "dead"
    <3>1. ~Holder(about[q], p)
      BY <2>1, OneHolder
    <3> QED  BY <2>3, <3>1 DEF Holder, LockInv, ClientInv, HasClient
  <2> QED  BY <2>2, <2>3
<1>2. Spec => [][Locked]_vars
  BY <1>1, LocksFollowRequests, PTL DEF Spec
<1> QED  BY <1>2 DEF WritesAreLocked

-----------------------------------------------------------------------------
(* The refinement of ExclusiveLock: what `holder` is, without its CHOOSE. *)
HolderIs ==
  /\ holder = [r \in Registrations |-> holder[r]]
  /\ \A r \in Registrations :
       /\ \A q \in Requests : holder[r] = q <=> Holder(r, q)
       /\ (\A q \in Requests : ~Holder(r, q)) => holder[r] = NoOne

(* The CHOOSE in `holder` has one candidate at most. *)
LEMMA HolderIsSo == LockInv => HolderIs
<1> SUFFICES ASSUME LockInv, NEW r \in Registrations
             PROVE  /\ \A q \in Requests : holder[r] = q <=> Holder(r, q)
                    /\ (\A q \in Requests : ~Holder(r, q)) => holder[r] = NoOne
  BY DEF HolderIs, holder
<1>1. CASE \E q \in Requests : Holder(r, q)
  <2>1. PICK q \in Requests : Holder(r, q)
    BY <1>1
  <2>2. holder[r] \in Requests /\ Holder(r, holder[r])
    BY <1>1 DEF holder
  <2> QED  BY <2>1, <2>2, OneHolder
<1>2. CASE \A q \in Requests : ~Holder(r, q)
  BY <1>2, LockAssumption DEF holder
<1> QED  BY <1>1, <1>2

(* Nobody gets or loses a lock. *)
LEMMA SameHolder ==
  ASSUME HolderIs, HolderIs',
         \A r \in Registrations, p \in Requests : Holder(r, p)' <=> Holder(r, p)
  PROVE  holder' = holder
<1>1. \A r \in Registrations : holder'[r] = holder[r]
  BY LockAssumption DEF HolderIs
<1> QED  BY <1>1 DEF HolderIs

(* A request gets a free lock. *)
LEMMA HolderComes ==
  ASSUME HolderIs, HolderIs', NEW r \in Registrations, NEW q \in Requests,
         \A p \in Requests : ~Holder(r, p),
         \A s \in Registrations, p \in Requests :
           Holder(s, p)' <=> Holder(s, p) \/ (s = r /\ p = q)
  PROVE  holder[r] = NoOne /\ holder' = [holder EXCEPT ![r] = q]
<1>1. holder[r] = NoOne /\ holder'[r] = q
  BY DEF HolderIs
<1>2. \A s \in Registrations : s # r => holder'[s] = holder[s]
  BY DEF HolderIs
<1> QED  BY <1>1, <1>2 DEF HolderIs

(* A request loses the lock it held. *)
LEMMA HolderGoes ==
  ASSUME HolderIs, HolderIs', NEW r \in Registrations, NEW q \in Requests,
         Holder(r, q),
         \A s \in Registrations, p \in Requests :
           Holder(s, p)' <=> Holder(s, p) /\ p # q
  PROVE  holder[r] # NoOne /\ holder' = [holder EXCEPT ![r] = NoOne]
<1>1. holder[r] = q /\ q # NoOne
  BY LockAssumption DEF HolderIs
<1>2. \A p \in Requests : ~Holder(r, p)'
  BY <1>1 DEF HolderIs
<1>3. holder'[r] = NoOne
  BY <1>2 DEF HolderIs
<1>4. \A s \in Registrations : s # r => ~Holder(s, q)
  BY DEF Holder
<1>5. \A s \in Registrations : s # r => holder'[s] = holder[s]
  BY <1>4 DEF HolderIs
<1> QED  BY <1>1, <1>3, <1>5 DEF HolderIs

(* The mapped writers. *)
Writers == {q \in Requests : wrote[q]}

(* Check, Connect, ConnectTimeout, WorkEnds, Exit and what only moves a request
   without the lock: nobody gets or loses it. *)
LEMMA QuietStep ==
  ASSUME LockInv, HolderIs, HolderIs', NEW q \in Requests,
         Check(q) \/ Connect(q) \/ ConnectTimeout(q) \/ WorkEnds(q)
  PROVE  holder' = holder /\ Writers' = Writers
<1>1. CASE Check(q) \/ Connect(q)
  <2>1. PICK b \in Backends, step \in {"checking", "lock"} : CheckOut(q, b, step)
    BY <1>1 DEF Check, Connect
  <2>2. backend[b] \notin {"out", "dead"}
    BY <2>1 DEF CheckOut, Available
  <2>3. at[q] \in {"check", "connect"}
    BY <1>1 DEF Check, Connect
  <2>4. \A p \in Requests : p # q /\ HasClient(p) =>
          at'[p] = at[p] /\ client'[p] = client[p] /\ client[p] # b
            /\ backend'[client[p]] = backend[client[p]]
    BY <2>1, <2>2 DEF CheckOut, Goto, LockInv, ClientInv, TypeOK
  <2>5. \A p \in Requests : HasClient(p)' /\ p # q => HasClient(p)
    BY <2>1 DEF CheckOut, Goto, HasClient, LockInv, TypeOK
  <2>6. at'[q] = step /\ about' = about /\ wrote' = wrote
    BY <2>1 DEF CheckOut, Goto, LockInv, TypeOK
  <2>7. \A r \in Registrations, p \in Requests : Holder(r, p)' <=> Holder(r, p)
    <3> SUFFICES ASSUME NEW r \in Registrations, NEW p \in Requests
                 PROVE  Holder(r, p)' <=> Holder(r, p)
      OBVIOUS
    <3>1. CASE p = q
      BY <3>1, <2>3, <2>6 DEF Holder
    <3>2. CASE p # q
      BY <3>2, <2>4, <2>5, <2>6 DEF Holder, HasClient
    <3> QED  BY <3>1, <3>2
  <2> QED  BY <2>6, <2>7, SameHolder DEF Writers
<1>2. CASE ConnectTimeout(q) \/ WorkEnds(q)
  <2>1. \A r \in Registrations, p \in Requests : Holder(r, p)' <=> Holder(r, p)
    BY <1>2 DEF ConnectTimeout, WorkEnds, Goto, Holder, LockInv, TypeOK
  <2>2. wrote' = wrote
    BY <1>2 DEF ConnectTimeout, WorkEnds
  <2> QED  BY <2>1, <2>2, SameHolder DEF Writers
<1> QED  BY <1>1, <1>2

(* Checked, LockFails, Unlock and UnlockFails: a request that held it leaves. *)
LEMMA LeavingStep ==
  ASSUME LockInv, HolderIs, HolderIs', NEW q \in Requests,
         Checked(q) \/ LockFails(q) \/ Unlock(q) \/ UnlockFails(q)
  PROVE  /\ Writers' = Writers
         /\ \/ holder' = holder
            \/ \E r \in Registrations : holder[r] # NoOne /\ holder' = [holder EXCEPT ![r] = NoOne]
<1>1. HasClient(q) /\ client[q] \in Backends
  BY DEF LockInv, ClientInv, HasClient, Checked, LockFails, Unlock, UnlockFails
<1>2. about' = about /\ wrote' = wrote /\ at'[q] \in {"connect", "ended"}
  BY DEF Checked, LockFails, Unlock, UnlockFails, GiveBack, Goto, LockInv, TypeOK
<1>3. \A p \in Requests : p # q => at'[p] = at[p] /\ client'[p] = client[p]
  BY DEF Checked, LockFails, Unlock, UnlockFails, GiveBack, Goto, LockInv, TypeOK
<1>4. \A c \in Backends : c # client[q] => backend'[c] = backend[c]
  BY DEF Checked, LockFails, Unlock, UnlockFails, GiveBack, LockInv, TypeOK
<1>5. \A p \in Requests : p # q /\ HasClient(p) =>
        client[p] \in Backends /\ client[p] # client[q]
  BY DEF LockInv, ClientInv
<1>6. \A s \in Registrations, p \in Requests : Holder(s, p)' <=> Holder(s, p) /\ p # q
  <2> SUFFICES ASSUME NEW s \in Registrations, NEW p \in Requests
               PROVE  Holder(s, p)' <=> Holder(s, p) /\ p # q
    OBVIOUS
  <2>1. CASE p = q
    BY <2>1, <1>2 DEF Holder
  <2>2. CASE p # q /\ HasClient(p)
    BY <2>2, <1>2, <1>3, <1>4, <1>5 DEF Holder
  <2>3. CASE p # q /\ ~HasClient(p)
    BY <2>3, <1>3 DEF Holder, HasClient
  <2> QED  BY <2>1, <2>2, <2>3
<1>7. CASE \E r \in Registrations : Holder(r, q)
  BY <1>2, <1>6, <1>7, HolderGoes DEF Writers
<1>8. CASE \A r \in Registrations : ~Holder(r, q)
  BY <1>2, <1>6, <1>8, SameHolder DEF Writers
<1> QED  BY <1>7, <1>8

(* Drop and Exit: the lock goes with the backend, noticed or not. *)
LEMMA BackendStep ==
  ASSUME LockInv, HolderIs, HolderIs', NEW b \in Backends, Drop(b) \/ Exit(b)
  PROVE  /\ Writers' = Writers
         /\ \/ holder' = holder
            \/ \E r \in Registrations : holder[r] # NoOne /\ holder' = [holder EXCEPT ![r] = NoOne]
<1>1. /\ at' = at /\ client' = client /\ about' = about /\ wrote' = wrote
      /\ backend'[b] # "out"
      /\ \A c \in Backends : c # b => backend'[c] = backend[c]
  BY DEF Drop, Exit, requestVars, LockInv, TypeOK
<1>2. \A s \in Registrations, p \in Requests :
        Holder(s, p)' <=> Holder(s, p) /\ client[p] # b
  <2> SUFFICES ASSUME NEW s \in Registrations, NEW p \in Requests
               PROVE  Holder(s, p)' <=> Holder(s, p) /\ client[p] # b
    OBVIOUS
  <2>1. CASE HasClient(p)
    BY <2>1, <1>1 DEF Holder, LockInv, ClientInv
  <2>2. CASE ~HasClient(p)
    BY <2>2, <1>1 DEF Holder, HasClient
  <2> QED  BY <2>1, <2>2
<1>3. CASE \E q \in Requests, r \in Registrations : Holder(r, q) /\ client[q] = b
  <2>1. PICK q \in Requests, r \in Registrations : Holder(r, q) /\ client[q] = b
    BY <1>3
  <2>2. \A s \in Registrations, p \in Requests : Holder(s, p) => (client[p] # b <=> p # q)
    BY <2>1 DEF Holder, HasClient, LockInv, ClientInv
  <2> QED  BY <1>1, <1>2, <2>1, <2>2, HolderGoes DEF Writers
<1>4. CASE \A q \in Requests, r \in Registrations : Holder(r, q) => client[q] # b
  BY <1>1, <1>2, <1>4, SameHolder DEF Writers
<1> QED  BY <1>3, <1>4

(* Lock: the guard of pg_advisory_lock is the abstract one. *)
LEMMA EnteringStep ==
  ASSUME LockInv, HolderIs, HolderIs', NEW q \in Requests, Lock(q)
  PROVE  /\ Writers' = Writers /\ about[q] \in Registrations
         /\ holder[about[q]] = NoOne
         /\ \A s \in Registrations : holder[s] # q
         /\ holder' = [holder EXCEPT ![about[q]] = q]
<1>1. /\ about[q] \in Registrations /\ at[q] = "lock" /\ backend[client[q]] = "out"
      /\ about' = about /\ wrote' = wrote /\ client' = client /\ backend' = backend
      /\ at' = [at EXCEPT ![q] = "work"]
      /\ \A b \in Backends \ {client[q]} : about[q] \notin held[b]
  BY DEF Lock, Goto, LockInv, TypeOK
<1>2. \A s \in Registrations : ~Holder(s, q)
  BY <1>1 DEF Holder
<1>3. ASSUME NEW p \in Requests, Holder(about[q], p)  PROVE FALSE
  <2>1. client[p] \in Backends /\ about[q] \in held[client[p]]
    BY <1>3, HolderHolds
  <2>2. client[p] = client[q]
    BY <1>1, <2>1
  <2>3. p = q
    BY <1>3, <2>2 DEF Holder, HasClient, LockInv, ClientInv
  <2> QED  BY <1>1, <1>2, <1>3, <2>3
<1>4. \A s \in Registrations, p \in Requests :
        Holder(s, p)' <=> Holder(s, p) \/ (s = about[q] /\ p = q)
  <2> SUFFICES ASSUME NEW s \in Registrations, NEW p \in Requests
               PROVE  Holder(s, p)' <=> Holder(s, p) \/ (s = about[q] /\ p = q)
    OBVIOUS
  <2>1. CASE p = q
    BY <2>1, <1>1, <1>2 DEF Holder, LockInv, TypeOK
  <2>2. CASE p # q
    BY <2>2, <1>1 DEF Holder, LockInv, TypeOK
  <2> QED  BY <2>1, <2>2
<1>5. holder[about[q]] = NoOne /\ holder' = [holder EXCEPT ![about[q]] = q]
  BY <1>1, <1>3, <1>4, HolderComes
<1> QED  BY <1>1, <1>2, <1>5 DEF HolderIs, Writers

(* Write is the abstract Write. *)
LEMMA WritingStep ==
  ASSUME LockInv, HolderIs, HolderIs', NEW q \in Requests, Write(q)
  PROVE  /\ holder' = holder /\ Writers' = Writers \cup {q}
         /\ \E r \in Registrations : holder[r] = q
<1>1. \A r \in Registrations, p \in Requests : Holder(r, p)' <=> Holder(r, p)
  BY DEF Write, Holder
<1>2. about[q] \in Registrations /\ Holder(about[q], q)
  BY DEF Write, Holder, LockInv, TypeOK
<1>3. wrote' = [wrote EXCEPT ![q] = TRUE] /\ wrote \in [Requests -> BOOLEAN]
  BY DEF Write, LockInv, TypeOK
<1>4. \A p \in Requests : wrote'[p] <=> wrote[p] \/ p = q
  BY <1>3
<1> QED  BY <1>1, <1>2, <1>4, SameHolder DEF HolderIs, Writers

(* Again forgets the writes of one who does not hold the lock. *)
LEMMA ForgettingStep ==
  ASSUME LockInv, HolderIs, HolderIs', NEW q \in Requests, Again(q)
  PROVE  /\ holder' = holder /\ Writers' = Writers \ {q}
         /\ \A r \in Registrations : holder[r] # q
<1>1. /\ at[q] = "ended" /\ at'[q] = "check" /\ client' = client /\ backend' = backend
      /\ \A p \in Requests : p # q => at'[p] = at[p] /\ about'[p] = about[p]
  BY DEF Again, Goto, LockInv, TypeOK
<1>2. \A r \in Registrations, p \in Requests : Holder(r, p)' <=> Holder(r, p)
  <2> SUFFICES ASSUME NEW r \in Registrations, NEW p \in Requests
               PROVE  Holder(r, p)' <=> Holder(r, p)
    OBVIOUS
  <2>1. CASE p = q
    BY <2>1, <1>1 DEF Holder
  <2>2. CASE p # q
    BY <2>2, <1>1 DEF Holder
  <2> QED  BY <2>1, <2>2
<1>3. wrote' = [wrote EXCEPT ![q] = FALSE] /\ wrote \in [Requests -> BOOLEAN]
  BY DEF Again, LockInv, TypeOK
<1>4. \A p \in Requests : wrote'[p] <=> wrote[p] /\ p # q
  BY <1>3
<1>5. \A r \in Registrations : ~Holder(r, q)
  BY <1>1 DEF Holder
<1> QED  BY <1>2, <1>4, <1>5, SameHolder DEF HolderIs, Writers

(* Every step of a request or of a backend is one of the abstract lock or none. *)
LEMMA StepSimulates ==
  ASSUME LockInv, HolderIs, HolderIs', [Next]_vars
  PROVE  [Abstract!Next]_(Abstract!vars)
<1> USE DEF Abstract!Next, Abstract!vars, Writers
<1>1. CASE UNCHANGED vars
  <2>1. \A r \in Registrations, p \in Requests : Holder(r, p)' <=> Holder(r, p)
    BY <1>1 DEF Holder, vars, requestVars
  <2>2. wrote' = wrote
    BY <1>1 DEF vars, requestVars
  <2> QED  BY <2>1, <2>2, SameHolder
<1>2. ASSUME NEW q \in Requests, RequestStep(q)  PROVE [Abstract!Next]_(Abstract!vars)
  <2>1. CASE Check(q) \/ Connect(q) \/ ConnectTimeout(q) \/ WorkEnds(q)
    BY <2>1, QuietStep
  <2>2. CASE Checked(q) \/ LockFails(q) \/ Unlock(q) \/ UnlockFails(q)
    BY <2>2, LeavingStep DEF Abstract!Leave
  <2>3. CASE Lock(q)
    BY <2>3, EnteringStep DEF Abstract!Enter
  <2>4. CASE Write(q)
    BY <2>4, WritingStep DEF Abstract!Write
  <2>5. CASE Again(q)
    BY <2>5, ForgettingStep DEF Abstract!Forget
  <2> QED  BY <1>2, <2>1, <2>2, <2>3, <2>4, <2>5 DEF RequestStep
<1>3. ASSUME NEW b \in Backends, Drop(b) \/ Exit(b)  PROVE [Abstract!Next]_(Abstract!vars)
  BY <1>3, BackendStep DEF Abstract!Leave
<1> QED  BY <1>1, <1>2, <1>3 DEF Next

(* What the handlers take withRegistrationLock for is what the pool and the
   session locks give: one worker per registration, who may lose the lock before
   noticing and then writes nothing more. *)
THEOREM LockIsExclusive == Spec => ImplementsLock
<1>1. Init => Abstract!Init
  <2> SUFFICES ASSUME Init  PROVE Abstract!Init
    OBVIOUS
  <2>1. HolderIs /\ \A r \in Registrations, q \in Requests : ~Holder(r, q)
    BY InitInv, HolderIsSo DEF Init, Holder
  <2>2. \A q \in Requests : ~wrote[q]
    BY DEF Init
  <2> QED  BY <2>1, <2>2 DEF Abstract!Init, HolderIs
<1>2. LockInv /\ LockInv' /\ [Next]_vars => [Abstract!Next]_(Abstract!vars)
  <2>1. LockInv' => HolderIs'
    BY HolderIsSo, PTL
  <2> QED  BY <2>1, HolderIsSo, StepSimulates
<1> QED  BY <1>1, <1>2, LocksFollowRequests, PTL DEF Spec, ImplementsLock, Abstract!Spec
=============================================================================
