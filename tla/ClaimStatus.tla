---------------------------- MODULE ClaimStatus ----------------------------
(***************************************************************************)
(* The agent polls GET /v1/projects/:projectId/claim: an attempt that is   *)
(* out of time is closed, a project that left the holding organization is  *)
(* accepted, and an accepted claim is reconciled, all under the lock.      *)
(***************************************************************************)
EXTENDS RegistrationStore

PollSteps == {"pollOwner", "pollMarkAttempt", "pollMarkRegistration",
              "pollReconcile"}

(* authenticateClaimStatus: a reconciled registration may be read again with
   a revoked token; no access token outlives the registration. *)
MayPoll ==
  /\ now < ProjectTTL
  /\ claimState = "reconciled" \/ (accessLive # {} /\ Usable)

(* The time check comes first: it closes the attempt whatever Neon says. *)
PollExpired(w) ==
  /\ pc[w] = "idle"
  /\ lock = NoOne
  /\ MayPoll
  /\ HasAttempt
  /\ attState[Latest] = "pending"
  /\ Expired(Latest)
  /\ attState' = [attState EXCEPT ![Latest] = "expired"]
  /\ Finish(w)
  /\ UNCHANGED <<registrationVars, secretVars, tokenVars, attempts, attOffered,
                 attExpires, projectVars, databaseVars>>

(* Wrong variant: Neon is asked before there is a transfer request. *)
PollPendingAlways(w) ==
  /\ pc[w] = "idle"
  /\ MayPoll
  /\ HasAttempt
  /\ attState[Latest] = "pending"
  /\ ~Expired(Latest)
  /\ Acquire(w, "pollOwner", [NoLocals EXCEPT !.att = Latest])
  /\ UNCHANGED <<registrationVars, secretVars, tokenVars, attemptVars,
                 projectVars, databaseVars>>

(* A pending attempt asks Neon for the owner only once it has its transfer. *)
PollPending(w) ==
  /\ pc[w] = "idle"
  /\ MayPoll
  /\ HasAttempt
  /\ attState[Latest] = "pending"
  /\ ~Expired(Latest)
  /\ attOffered[Latest]
  /\ Acquire(w, "pollOwner", [NoLocals EXCEPT !.att = Latest])
  /\ UNCHANGED <<registrationVars, secretVars, tokenVars, attemptVars,
                 projectVars, databaseVars>>

(* A poll that finds the attempt accepted finishes what an earlier one began. *)
PollAccepted(w) ==
  /\ pc[w] = "idle"
  /\ MayPoll
  /\ HasAttempt
  /\ attState[Latest] = "accepted"
  /\ Acquire(w, "pollReconcile", [NoLocals EXCEPT !.att = Latest])
  /\ UNCHANGED <<registrationVars, secretVars, tokenVars, attemptVars,
                 projectVars, databaseVars>>

(* getProjectOwnerOrg: any answer but the holding organization, a 404
   included, means the project moved. *)
LooksMoved == owner # "holding"

PollOwner(w) ==
  /\ pc[w] = "pollOwner"
  /\ LooksMoved
  /\ Goto(w, "pollMarkAttempt")
  /\ UNCHANGED <<registrationVars, secretVars, tokenVars, attemptVars,
                 projectVars, databaseVars>>

PollMarkAttempt(w) ==
  /\ pc[w] = "pollMarkAttempt"
  /\ Holds(w)
  /\ attState' = [attState EXCEPT ![mine[w].att] = "accepted"]
  /\ Goto(w, "pollMarkRegistration")
  /\ UNCHANGED <<registrationVars, secretVars, tokenVars, attempts, attOffered,
                 attExpires, projectVars, databaseVars>>

PollMarkRegistration(w) ==
  /\ pc[w] = "pollMarkRegistration"
  /\ Holds(w)
  /\ claimState' = "accepted"
  /\ Goto(w, "pollReconcile")
  /\ UNCHANGED <<frozen, revoked, secretVars, tokenVars, attemptVars,
                 projectVars, databaseVars>>

(* completeClaimReconciliation: one transaction. *)
PollReconcile(w) ==
  /\ pc[w] = "pollReconcile"
  /\ Holds(w)
  /\ assertionLive' = FALSE
  /\ accessLive' = {}
  /\ claimState' = "reconciled"
  /\ attState' = [attState EXCEPT ![mine[w].att] = "reconciled"]
  /\ Finish(w)
  /\ UNCHANGED <<frozen, revoked, secretVars, attempts, attOffered, attExpires,
                 projectVars, databaseVars>>

-----------------------------------------------------------------------------
PollProgress(w) ==
  PollOwner(w) \/ PollMarkAttempt(w) \/ PollMarkRegistration(w) \/ PollReconcile(w)

PollNext ==
  \E w \in Workers :
    PollExpired(w) \/ PollPending(w) \/ PollAccepted(w) \/ PollProgress(w)
=============================================================================
