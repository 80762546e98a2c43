---------------------------- MODULE AgentAccess ----------------------------
(***************************************************************************)
(* What an agent does with its project before the claim: exchange the      *)
(* identity assertion for access tokens, revoke tokens, read credentials   *)
(* and call the proxied Management API, use a password it was given, and   *)
(* delete the project.                                                     *)
(***************************************************************************)
EXTENDS RegistrationStore

AgentSteps == {"exchangeRead", "exchangeRecord", "opCall", "opRecord",
               "delProject", "delKey", "delTokens", "delMark", "delRegistration"}

-----------------------------------------------------------------------------
(* POST /v1/oauth2/token. It runs on the pool, without the registration lock:
   the token check, the registration it reads and the token it records are
   three separate statements. *)

ExchangeVerify(w) ==
  /\ pc[w] = "idle"
  /\ assertionLive
  /\ now < ProjectTTL          \* the assertion expires with the registration
  /\ Goto(w, "exchangeRead")
  /\ UNCHANGED <<registrationVars, secretVars, tokenVars, attemptVars,
                 projectVars, databaseVars>>

ExchangeRead(w) ==
  /\ pc[w] = "exchangeRead"
  /\ Usable
  /\ GotoWith(w, "exchangeRecord",
       [NoLocals EXCEPT !.sees = IF frozen THEN "empty" ELSE "full"])
  /\ UNCHANGED <<registrationVars, secretVars, tokenVars, attemptVars,
                 projectVars, databaseVars>>

(* mintAccessToken refuses an expiry at or before the issue time. *)
ExchangeRecord(w) ==
  /\ pc[w] = "exchangeRecord"
  /\ now < ProjectTTL
  /\ accessLive' = accessLive \cup {mine[w].sees}
  /\ Finish(w)
  /\ UNCHANGED <<registrationVars, secretVars, assertionLive, attemptVars,
                 projectVars, databaseVars>>

(* POST /v1/oauth2/revoke; an access token that expires is as good as revoked. *)
RevokeToken ==
  /\ \/ /\ assertionLive
        /\ assertionLive' = FALSE
        /\ UNCHANGED accessLive
     \/ \E kind \in accessLive :
          /\ accessLive' = accessLive \ {kind}
          /\ UNCHANGED assertionLive
  /\ UNCHANGED <<registrationVars, secretVars, attemptVars, projectVars,
                 databaseVars, handlerVars, now>>

-----------------------------------------------------------------------------
(* Requests that need an unfrozen registration, under the lock *)

(* Wrong variant: a frozen registration is let through. *)
AuthenticatedFrozen == "full" \in accessLive /\ Usable

(* authenticate, repeated under the lock. Access tokens live at most as long
   as the registration. *)
Authenticated == "full" \in accessLive /\ Usable /\ ~frozen

(* GET credentials and the proxied Management API: projectClient needs the
   stored key. *)
OpBegin(w) ==
  /\ pc[w] = "idle"
  /\ Authenticated
  /\ ~keyMarked
  /\ Acquire(w, "opCall", NoLocals)
  /\ UNCHANGED <<registrationVars, secretVars, tokenVars, attemptVars,
                 projectVars, databaseVars>>

(* Neon answers the project-scoped key. *)
OpCall(w) ==
  /\ pc[w] = "opCall"
  /\ keyLive
  /\ owner = "holding"
  /\ Goto(w, "opRecord")
  /\ UNCHANGED <<registrationVars, secretVars, tokenVars, attemptVars,
                 projectVars, databaseVars>>

(* The answer carries a password and its row is recorded before it is sent. *)
HandOutRecorded(w) ==
  /\ pc[w] = "opRecord"
  /\ Holds(w)
  /\ derivedLive' = TRUE
  /\ knownPw' = TRUE
  /\ Finish(w)
  /\ UNCHANGED <<registrationVars, keyMarked, tokenVars, attemptVars,
                 projectVars, computeOn, session>>

(* A proxied GET of connection_uri answers with a password too, and records
   usage only. *)
HandOutUnrecorded(w) ==
  /\ pc[w] = "opRecord"
  /\ Holds(w)
  /\ knownPw' = TRUE
  /\ Finish(w)
  /\ UNCHANGED <<registrationVars, secretVars, tokenVars, attemptVars,
                 projectVars, computeOn, session>>

-----------------------------------------------------------------------------
(* The agent's own SQL connections (external): the passwords it was given, and
   the roles a session of it can create or alter. *)

Connect ==
  /\ knownPw
  /\ computeOn
  /\ owner # "deleted"
  /\ ~session
  /\ session' = TRUE
  /\ UNCHANGED <<registrationVars, secretVars, tokenVars, attemptVars,
                 projectVars, computeOn, knownPw, handlerVars, now>>

AlterRoles ==
  /\ session
  /\ owner # "deleted"
  /\ knownPw' = TRUE
  /\ fresh' = {}
  /\ UNCHANGED <<registrationVars, secretVars, tokenVars, attemptVars,
                 projectVars, computeOn, session, lock, pc, mine, now>>

-----------------------------------------------------------------------------
(* DELETE /v1/projects/:projectId *)

DeleteBegin(w) ==
  /\ pc[w] = "idle"
  /\ Authenticated
  /\ Acquire(w, "delProject", NoLocals)
  /\ UNCHANGED <<registrationVars, secretVars, tokenVars, attemptVars,
                 projectVars, databaseVars>>

(* deleteClaimableProject: a 404 is an error here. *)
DeleteProject(w) ==
  /\ pc[w] = "delProject"
  /\ owner = "holding"
  /\ owner' = "deleted"
  /\ session' = FALSE
  /\ Goto(w, "delKey")
  /\ UNCHANGED <<registrationVars, secretVars, tokenVars, attemptVars,
                 keyLive, computeOn, knownPw>>

(* revokeProjectKey: so is a 404 here. *)
DeleteKey(w) ==
  /\ pc[w] = "delKey"
  /\ keyLive
  /\ keyLive' = FALSE
  /\ Goto(w, "delTokens")
  /\ UNCHANGED <<registrationVars, secretVars, tokenVars, attemptVars,
                 owner, databaseVars>>

DeleteTokens(w) ==
  /\ pc[w] = "delTokens"
  /\ Holds(w)
  /\ assertionLive' = FALSE
  /\ accessLive' = {}
  /\ Goto(w, "delMark")
  /\ UNCHANGED <<registrationVars, secretVars, attemptVars, projectVars,
                 databaseVars>>

DeleteMark(w) ==
  /\ pc[w] = "delMark"
  /\ Holds(w)
  /\ keyMarked' = TRUE
  /\ Goto(w, "delRegistration")
  /\ UNCHANGED <<registrationVars, derivedLive, tokenVars, attemptVars,
                 projectVars, databaseVars>>

DeleteRegistration(w) ==
  /\ pc[w] = "delRegistration"
  /\ Holds(w)
  /\ revoked' = "agent"
  /\ Finish(w)
  /\ UNCHANGED <<frozen, claimState, secretVars, tokenVars, attemptVars,
                 projectVars, databaseVars>>

-----------------------------------------------------------------------------
AgentProgress(w) ==
  \/ ExchangeRead(w) \/ ExchangeRecord(w)
  \/ OpCall(w) \/ HandOutRecorded(w) \/ HandOutUnrecorded(w)
  \/ DeleteProject(w) \/ DeleteKey(w) \/ DeleteTokens(w)
  \/ DeleteMark(w) \/ DeleteRegistration(w)

AgentNext ==
  \/ RevokeToken \/ Connect \/ AlterRoles
  \/ \E w \in Workers :
       ExchangeVerify(w) \/ OpBegin(w) \/ DeleteBegin(w) \/ AgentProgress(w)
=============================================================================
