--------------------------- MODULE RetentionPurge ---------------------------
(***************************************************************************)
(* The janitor: once the retention period is over, a registration that is  *)
(* neither revoked nor reconciled is settled one way or the other, under   *)
(* its lock. A run that fails leaves it to the next day's run.             *)
(***************************************************************************)
EXTENDS RegistrationStore

PurgeSteps == {"purgeOwner", "purgeDelete", "purgeKey", "purgeCommit"}

(* Wrong variant: purging begins when the registration expires. *)
RetentionOverAtExpiry == now >= ProjectTTL

(* listRetentionCandidates: `created_at < $1`, for the registration created at
   instant 0. *)
RetentionOver == now > Retention

(* Wrong variant: an accepted claim counts as settled. *)
SettledWhenAccepted == revoked # "no" \/ claimState \in {"accepted", "reconciled"}

(* decideLockedPurgeAction skips these; nothing is done for a skip. *)
Settled == revoked # "no" \/ claimState = "reconciled"

(* Wrong variant: a claim that was begun is decided before the owner. *)
PurgeDecisionClaimFirst(w) ==
  IF mine[w].sees = "begun" THEN "claimed"
  ELSE IF owner = "holding" THEN "delete" ELSE "gone"

(* decideLockedPurgeAction on the registration this worker read and the owner
   Neon names. A project that moved may be named with its new owner or be a
   404, a deleted one is a 404. *)
PurgeDecision(w) ==
  IF owner = "holding" THEN "delete"
  ELSE IF owner = "human" \/ mine[w].sees = "begun" THEN "claimed"
  ELSE "gone"

(* findRegistration under the lock; what it read of the claim is kept. *)
PurgeBegin(w) ==
  /\ pc[w] = "idle"
  /\ RetentionOver
  /\ ~Settled
  /\ Acquire(w, "purgeOwner", [NoLocals EXCEPT !.sees =
       IF claimState \in {"pending", "accepted"} THEN "begun" ELSE "none"])
  /\ UNCHANGED <<registrationVars, secretVars, tokenVars, attemptVars,
                 projectVars, databaseVars>>

PurgeOwner(w) ==
  /\ pc[w] = "purgeOwner"
  /\ GotoWith(w, IF PurgeDecision(w) = "delete" THEN "purgeDelete" ELSE "purgeKey",
              [mine[w] EXCEPT !.sees = PurgeDecision(w)])
  /\ UNCHANGED <<registrationVars, secretVars, tokenVars, attemptVars,
                 projectVars, databaseVars>>

(* The organization key cannot delete a project it no longer owns; that 404 is
   taken for success. *)
PurgeDelete(w) ==
  /\ pc[w] = "purgeDelete"
  /\ IF owner = "holding"
     THEN owner' = "deleted" /\ session' = FALSE
     ELSE UNCHANGED <<owner, session>>
  /\ Goto(w, "purgeKey")
  /\ UNCHANGED <<registrationVars, secretVars, tokenVars, attemptVars, keyLive,
                 computeOn, knownPw>>

(* Wrong variant: only the row is marked, the key stays valid at Neon. *)
PurgeKeyRowOnly(w) ==
  /\ pc[w] = "purgeKey"
  /\ keyLive' = keyLive
  /\ Goto(w, "purgeCommit")
  /\ UNCHANGED <<registrationVars, secretVars, tokenVars, attemptVars, owner,
                 databaseVars>>

(* revokeUpstreamProjectKey: skipped for a marked key, a 404 is ignored. *)
PurgeKey(w) ==
  /\ pc[w] = "purgeKey"
  /\ keyLive' = IF keyMarked THEN keyLive ELSE FALSE
  /\ Goto(w, "purgeCommit")
  /\ UNCHANGED <<registrationVars, secretVars, tokenVars, attemptVars, owner,
                 databaseVars>>

(* commitRetentionCleanup: one transaction. *)
PurgeCommit(w) ==
  /\ pc[w] = "purgeCommit"
  /\ Holds(w)
  /\ IF mine[w].sees = "claimed"
     THEN claimState' = "reconciled" /\ UNCHANGED revoked
     ELSE revoked' = "retention" /\ UNCHANGED claimState
  /\ assertionLive' = FALSE
  /\ accessLive' = {}
  /\ keyMarked' = TRUE
  /\ Finish(w)
  /\ UNCHANGED <<frozen, derivedLive, attemptVars, projectVars, databaseVars>>

-----------------------------------------------------------------------------
PurgeProgress(w) ==
  PurgeOwner(w) \/ PurgeDelete(w) \/ PurgeKey(w) \/ PurgeCommit(w)

PurgeNext == \E w \in Workers : PurgeBegin(w) \/ PurgeProgress(w)
=============================================================================
