---------------------------- MODULE CodeIssuance ----------------------------
(***************************************************************************)
(* Minting claim codes: POST /v1/agent/identity/claim and                  *)
(* POST /v1/projects/:projectId/claim. A code is the attempt it was minted *)
(* with, so attempts are their own codes here.                             *)
(***************************************************************************)
EXTENDS RegistrationStore

IssueSteps == {"issueWait", "issueOwner", "issueClose", "issueInsert"}

Decisions == {"refuse", "mint", "expire", "cancel"}

(* Wrong variant: a redeemed code is cancelled like an unused one. *)
IssuanceDecisionUnfrozen ==
  CASE claimState \in {"accepted", "reconciled"} -> "refuse"
    [] claimState \in {"unclaimed", "pending"} /\ ~HasAttempt -> "mint"
    [] claimState \in {"unclaimed", "pending"} /\ HasAttempt ->
         CASE attState[Latest] \in {"accepted", "reconciled"} -> "refuse"
           [] attState[Latest] = "pending" /\ Expired(Latest) -> "expire"
           [] attState[Latest] = "pending" /\ ~Expired(Latest) -> "cancel"
           [] OTHER -> "mint"

(* claimCodeIssuance, for a registration whose latest attempt is Latest. The
   attempt state "failed_plan" of the schema is never written. *)
IssuanceDecision ==
  CASE claimState \in {"accepted", "reconciled"} -> "refuse"
    [] claimState \in {"unclaimed", "pending"} /\ ~HasAttempt ->
         IF frozen THEN "refuse" ELSE "mint"
    [] claimState \in {"unclaimed", "pending"} /\ HasAttempt ->
         CASE attState[Latest] \in {"accepted", "reconciled"} -> "refuse"
           [] attState[Latest] = "pending" /\ Expired(Latest) -> "expire"
           [] attState[Latest] = "pending" /\ ~Expired(Latest) ->
                IF frozen THEN "refuse" ELSE "cancel"
           [] OTHER -> "mint"

(* Wrong variant: the code that is replaced is left pending. *)
AfterDecisionInsert(decision) ==
  IF decision = "expire" THEN "issueClose" ELSE "issueInsert"

(* The first SQL statement after the decision. *)
AfterDecision(decision) ==
  IF decision = "mint" THEN "issueInsert" ELSE "issueClose"

-----------------------------------------------------------------------------
(* The checks before the wait for the lock. The assertion's revocation is
   checked here only; the access-token route checks its token again. *)
IssueVerify(w) ==
  /\ pc[w] = "idle"
  /\ Usable
  /\ \/ /\ assertionLive
        /\ GotoWith(w, "issueWait", [NoLocals EXCEPT !.sees = "assertion"])
     \/ /\ accessLive # {}
        /\ GotoWith(w, "issueWait", [NoLocals EXCEPT !.sees = "access"])
  /\ UNCHANGED <<registrationVars, secretVars, tokenVars, attemptVars,
                 projectVars, databaseVars>>

(* Wrong variant: Neon is not asked who owns a frozen project. *)
IssueDecideUnowned(w) ==
  /\ pc[w] = "issueWait"
  /\ Usable
  /\ mine[w].sees = "access" => accessLive # {}
  /\ IssuanceDecision # "refuse"
  /\ Acquire(w, AfterDecision(IssuanceDecision),
             [NoLocals EXCEPT !.sees = IssuanceDecision])
  /\ UNCHANGED <<registrationVars, secretVars, tokenVars, attemptVars,
                 projectVars, databaseVars>>

(* Under the lock: read the registration and its latest attempt, decide. *)
IssueDecide(w) ==
  /\ pc[w] = "issueWait"
  /\ Usable
  /\ mine[w].sees = "access" => accessLive # {}
  /\ IssuanceDecision # "refuse"
  /\ Acquire(w, IF frozen THEN "issueOwner" ELSE AfterDecision(IssuanceDecision),
             [NoLocals EXCEPT !.sees = IssuanceDecision])
  /\ UNCHANGED <<registrationVars, secretVars, tokenVars, attemptVars,
                 projectVars, databaseVars>>

(* A frozen registration gets a code only while Neon says the holding
   organization owns the project. *)
IssueOwner(w) ==
  /\ pc[w] = "issueOwner"
  /\ owner = "holding"
  /\ Goto(w, AfterDecision(mine[w].sees))
  /\ UNCHANGED <<registrationVars, secretVars, tokenVars, attemptVars,
                 projectVars, databaseVars>>

(* The latest attempt is closed before its successor exists. *)
IssueClose(w) ==
  /\ pc[w] = "issueClose"
  /\ Holds(w)
  /\ attState' = [attState EXCEPT ![Latest] =
       IF mine[w].sees = "expire" THEN "expired" ELSE "cancelled"]
  /\ Goto(w, "issueInsert")
  /\ UNCHANGED <<registrationVars, secretVars, tokenVars, attempts, attOffered,
                 attExpires, projectVars, databaseVars>>

(* createClaimAttempt; the code is in the answer. *)
IssueInsert(w) ==
  /\ pc[w] = "issueInsert"
  /\ Holds(w)
  /\ attempts < MaxAttempts      \* bound
  /\ attempts' = attempts + 1
  /\ attState' = [attState EXCEPT ![attempts + 1] = "pending"]
  /\ attExpires' = [attExpires EXCEPT ![attempts + 1] = now + AttemptTTL]
  /\ Finish(w)
  /\ UNCHANGED <<registrationVars, secretVars, tokenVars, attOffered,
                 projectVars, databaseVars>>

-----------------------------------------------------------------------------
IssueProgress(w) ==
  IssueDecide(w) \/ IssueOwner(w) \/ IssueClose(w) \/ IssueInsert(w)

IssueNext == \E w \in Workers : IssueVerify(w) \/ IssueProgress(w)
=============================================================================
