-------------------------- MODULE TokenServiceProofs --------------------------
(***************************************************************************)
(* Proofs about TokenService, for any resolution of the clock, any life of *)
(* access tokens and of the registration, and any number of tokens.        *)
(***************************************************************************)
EXTENDS TokenService, TLAPS

(* Whole seconds: the last one that has begun. *)
LEMMA FloorBounds ==
  ASSUME NEW a \in Nat
  PROVE  Floor(a) \in Nat /\ Floor(a) * Second <= a /\ a < (Floor(a) + 1) * Second
BY TokenAssumption, SMT DEF Floor

(* Seconds pass as the clock does. *)
LEMMA FloorMonotone ==
  ASSUME NEW a \in Nat, NEW b \in Nat, a <= b
  PROVE  Floor(a) <= Floor(b)
<1>1. a \div Second <= b \div Second
  <2>1. /\ a \div Second \in Nat /\ b \div Second \in Nat
        /\ (a \div Second) * Second <= a /\ b < ((b \div Second) + 1) * Second
    BY FloorBounds DEF Floor
  <2>2. (a \div Second) * Second < ((b \div Second) + 1) * Second
    BY <2>1, TokenAssumption
  <2> QED  BY <2>1, <2>2, TokenAssumption, SMT
<1> QED  BY <1>1 DEF Floor

(* The initial states. *)
LEMMA InitInv == Init => TokenInv
<1> SUFFICES ASSUME Init  PROVE TokenInv
  OBVIOUS
<1>1. expiresAt \in Nat /\ Floor(expiresAt) \in Nat /\ Floor(expiresAt) * Second <= expiresAt
  BY TokenAssumption, FloorBounds DEF Init
<1>2. handler \in Handlers /\ client \in Clients
  BY DEF Init, NoRequest, Handlers, Clients, Tokens, Goals, HandlerSteps, Codes
<1>3. token \in [Tokens -> Rows] /\ \A t \in Tokens : token[t].exp * Second <= expiresAt
  BY <1>1, TokenAssumption DEF Init, Rows
<1>4. now \in 0..MaxNow /\ lost \in 0..MaxLost
  BY TokenAssumption DEF Init
<1>5. TypeOK
  BY <1>2, <1>3, <1>4 DEF Init, TypeOK
<1>6. RowsInv
  BY DEF Init, RowsInv, Claimed, Tokens
<1>7. AnswerInv /\ PrunedIsDead /\ ToldRevokedIsDead
  BY <1>1 DEF Init, AnswerInv, PrunedIsDead, ToldRevokedIsDead, NoRequest, Tokens
<1> QED  BY <1>5, <1>6, <1>7 DEF TokenInv

-----------------------------------------------------------------------------
(* A step of the handler that changes no more of the rows than the claim's. *)
LEMMA HandlerStep ==
  ASSUME TokenInv, UNCHANGED <<now, expiresAt, frozen, revoked, keyMarked, owner, token, client, lost>>,
         claimState' \in {"unclaimed", "accepted", "reconciled"},
         attempt' \in {"none", "pending", "offered", "lapsed", "closed", "accepted", "reconciled"},
         Claimed(claimState') \/ Claimed(attempt') => Left,
         claimState' = "reconciled" => token["assertion"].revoked,
         handler' \in Handlers, AnswerInv'
  PROVE  TokenInv'
<1> USE DEF TokenInv
<1>1. TypeOK'
  BY DEF TypeOK
<1>2. RowsInv'
  BY DEF RowsInv, Left
<1>3. PrunedIsDead <=> PrunedIsDead'
  BY DEF PrunedIsDead, Dead, Left, Expired, nowSeconds
<1>4. ToldRevokedIsDead'
  BY DEF ToldRevokedIsDead, Expired, nowSeconds
<1> QED  BY <1>1, <1>2, <1>3, <1>4

(* The handler answers, and what the client may conclude from the code is so. *)
LEMMA AnswerKnows ==
  ASSUME TokenInv, UNCHANGED <<now, expiresAt, frozen, revoked, owner, token>>,
         NEW code \in Codes, Answer(code), handler.kind # "revoke",
         code = "ok" => handler.kind # "exchange",
         code \in Authoritative => Dead \/ Left \/ handler.resource = "other"
  PROVE  handler' \in Handlers /\ AnswerInv'
<1> USE DEF TokenInv
<1>1. handler' \in Handlers /\ handler'.at = "answer" /\ handler'.code = code
      /\ handler'.kind = handler.kind /\ handler'.resource = handler.resource
  BY DEF TypeOK, Answer, Handlers, HandlerSteps
<1>2. (Dead \/ Left) => (Dead \/ Left)'
  BY DEF Dead, Left, Expired, nowSeconds
<1> QED  BY <1>1, <1>2 DEF AnswerInv

(* The same, when the rows stay as they are. *)
LEMMA AnswerStep ==
  ASSUME TokenInv, UNCHANGED <<now, expiresAt, claimVars, token, client, lost>>,
         NEW code \in Codes, Answer(code), handler.kind # "revoke",
         code = "ok" => handler.kind # "exchange",
         code \in Authoritative => Dead \/ Left \/ handler.resource = "other"
  PROVE  TokenInv'
<1>1. handler' \in Handlers /\ AnswerInv'
  BY AnswerKnows DEF claimVars
<1>2. RowsInv /\ TypeOK
  BY DEF TokenInv
<1> QED  BY <1>1, <1>2, HandlerStep DEF claimVars, RowsInv, TypeOK

(* The handler goes on to its next step. *)
Steps == {"find", "table", "usable", "lock", "client", "issue", "owner", "poll", "accept",
          "reconcile", "mint"}

(* What the handler has to know for it. *)
LEMMA GotoKnows ==
  ASSUME TokenInv, UNCHANGED <<now, expiresAt, frozen, revoked, owner, token>>,
         NEW step \in Steps, Goto(step), handler.kind # "revoke",
         step = "find" => handler.kind = "status",
         step = "client" => handler.locked /\ ~frozen,
         step \in {"accept", "reconcile"} => Left,
         handler.kind = "exchange" =>
           step \in {"table", "usable", "mint"} /\ handler.token = "assertion",
         step = "mint" => handler.kind = "exchange"
  PROVE  handler' \in Handlers /\ AnswerInv'
<1> USE DEF TokenInv
<1>1. handler' \in Handlers /\ handler'.at = step /\ handler'.kind = handler.kind
      /\ handler'.token = handler.token /\ handler'.locked = handler.locked
  BY DEF TypeOK, Goto, Handlers, HandlerSteps, Steps
<1> QED  BY <1>1 DEF AnswerInv, Left, Steps

(* The same, when the rows stay as they are. *)
LEMMA GotoStep ==
  ASSUME TokenInv, UNCHANGED <<now, expiresAt, claimVars, token, client, lost>>,
         NEW step \in Steps, Goto(step), handler.kind # "revoke",
         step = "find" => handler.kind = "status",
         step = "client" => handler.locked /\ ~frozen,
         step \in {"accept", "reconcile"} => Left,
         handler.kind = "exchange" =>
           step \in {"table", "usable", "mint"} /\ handler.token = "assertion",
         step = "mint" => handler.kind = "exchange"
  PROVE  TokenInv'
<1>1. handler' \in Handlers /\ AnswerInv'
  BY GotoKnows DEF claimVars
<1>2. RowsInv /\ TypeOK
  BY DEF TokenInv
<1> QED  BY <1>1, <1>2, HandlerStep DEF claimVars, RowsInv, TypeOK

(* Past the checks: only an unfrozen registration is operated on. *)
LEMMA ProceedStep ==
  ASSUME TokenInv, UNCHANGED <<now, expiresAt, claimVars, token, client, lost>>,
         Proceed, handler.kind # "revoke",
         handler.kind = "exchange" => handler.token = "assertion",
         handler.kind = "operate" => ~frozen
  PROVE  TokenInv'
<1>1. CASE handler.kind = "exchange"
  BY <1>1, GotoStep DEF Proceed, Steps
<1>2. CASE handler.kind # "exchange" /\ ~handler.locked
  BY <1>2, GotoStep DEF Proceed, Steps
<1>3. CASE handler.kind # "exchange" /\ handler.locked
  <2>1. Goto(Route(handler.kind)) /\ Route(handler.kind) \in {"client", "issue", "poll"}
        /\ (Route(handler.kind) = "client" => handler.kind = "operate")
    BY <1>3 DEF Proceed, Route
  <2> QED  BY <1>3, <2>1, GotoStep DEF Steps
<1> QED  BY <1>1, <1>2, <1>3

(* The instants the checks compare. *)
LEMMA Instants ==
  ASSUME TypeOK
  PROVE  /\ now \in Nat /\ expiresAt \in Nat /\ nowSeconds \in Nat /\ Floor(expiresAt) \in Nat
         /\ Floor(expiresAt) * Second <= expiresAt
         /\ expiresAt <= now => Floor(expiresAt) <= nowSeconds
<1>1. now \in Nat /\ expiresAt \in Nat
  BY TokenAssumption DEF TypeOK
<1> QED  BY <1>1, FloorBounds, FloorMonotone DEF nowSeconds

(* Every refusal of verifyAssertion, isTokenRevoked and requireUsableRegistration
   that tells the client to discard its assertion is right, unless the client has
   asked for a token of another service. *)
LEMMA ChecksInv ==
  ASSUME TokenInv, Verify \/ Find \/ Table \/ Usable
  PROVE  TokenInv'
<1>1. handler.kind # "revoke"
  BY DEF TokenInv, AnswerInv, Verify, Find, Table, Usable
<1>2. handler.at # "find" => (handler.kind = "exchange" => handler.token = "assertion")
  BY DEF TokenInv, AnswerInv, Verify, Find, Table, Usable
<1>3. {"ok", "invalid_grant", "token_expired", "unauthorized", "claim_in_progress",
       "project_claimed", "project_expired", "not_found"} = Codes
  BY DEF Codes, Authoritative
<1>4. CASE Verify
  <2>1. CASE handler.resource = "other"
    BY <1>1, <1>3, <1>4, <2>1, AnswerStep DEF Verify, Authoritative
  <2>2. CASE handler.resource # "other" /\ Expired(handler.token)
    <3>1. ExpiredCode(handler.token) \in Codes /\ ExpiredCode(handler.token) # "ok"
      BY <1>3 DEF ExpiredCode
    <3>2. ExpiredCode(handler.token) \in Authoritative => Dead
      BY <2>2 DEF ExpiredCode, Authoritative, Dead
    <3> QED  BY <1>1, <1>4, <2>2, <3>1, <3>2, AnswerStep DEF Verify
  <2>3. CASE handler.resource # "other" /\ ~Expired(handler.token)
    <3>1. PICK step \in {"find", "table"} :
            Goto(step) /\ (step = "find" <=> handler.kind = "status")
      BY <1>4, <2>3 DEF Verify
    <3> QED  BY <1>1, <1>2, <1>4, <3>1, GotoStep DEF Verify, Steps
  <2> QED  BY <2>1, <2>2, <2>3
<1>5. CASE Find
  <2>1. handler.kind = "status"
    BY <1>5 DEF Find, TokenInv, AnswerInv
  <2> QED  BY <1>5, <2>1, ProceedStep, GotoStep DEF Find, Steps
<1>6. CASE Table
  <2>1. CASE token[handler.token].revoked
    <3>1. PICK code \in {"invalid_grant", "unauthorized"} :
            Answer(code) /\ (code = "invalid_grant" => handler.token = "assertion")
      BY <1>6, <2>1 DEF Table
    <3>2. code \in Authoritative => Dead
      BY <2>1, <3>1 DEF Authoritative, Dead
    <3> QED  BY <1>1, <1>3, <1>6, <3>1, <3>2, AnswerStep DEF Table
  <2>2. CASE ~token[handler.token].revoked
    BY <1>1, <1>2, <1>6, <2>2, GotoStep DEF Table, Steps
  <2> QED  BY <2>1, <2>2
<1>7. CASE Usable
  <2>1. Usability \in Codes
    BY <1>3 DEF Usability
  <2>2. Usability # "ok" => Dead
    BY Instants DEF Usability, Dead, Expired, TokenInv, RowsInv
  <2>3. CASE Usability # "ok"
    BY <1>1, <1>7, <2>1, <2>2, <2>3, AnswerStep DEF Usable
  <2>4. CASE Usability = "ok"
    <3>1. Answer("claim_in_progress") \/ (Proceed /\ (handler.kind = "operate" => ~frozen))
      BY <1>7, <2>4 DEF Usable, RefusedWhenFrozen
    <3> QED  BY <1>1, <1>2, <1>3, <1>7, <3>1, AnswerStep, ProceedStep DEF Usable, Authoritative
  <2> QED  BY <2>3, <2>4
<1> QED  BY <1>4, <1>5, <1>6, <1>7

(* withRegistrationLock: what was checked before the wait counts for nothing. *)
LEMMA LockInv ==
  ASSUME TokenInv, Lock
  PROVE  TokenInv'
<1> USE DEF TokenInv
<1>1. handler.kind # "revoke" /\ handler.kind # "exchange"
  BY DEF AnswerInv, Lock
<1>2. AfterWait \in {"usable", "verify"}
  BY DEF AfterWait
<1>3. handler' \in Handlers /\ handler'.at = AfterWait /\ handler'.kind = handler.kind
      /\ handler'.token = handler.token
  BY <1>2 DEF TypeOK, Lock, Handlers, HandlerSteps
<1>4. AnswerInv'
  BY <1>1, <1>2, <1>3 DEF AnswerInv
<1> QED  BY <1>3, <1>4, HandlerStep DEF Lock, claimVars, RowsInv, TypeOK

(* What the routes refuse under the lock with a code to prune by has left the
   holding organization. *)
LEMMA RoutesInv ==
  ASSUME TokenInv, ProjectClient \/ Issue \/ CheckOwner \/ Poll \/ AcceptClaim
  PROVE  TokenInv'
<1> USE DEF TokenInv
<1>1. handler.kind # "revoke" /\ handler.kind # "exchange"
  BY DEF AnswerInv, ProjectClient, Issue, CheckOwner, Poll, AcceptClaim
<1>2. {"ok", "project_claimed", "claim_in_progress", "not_found"} \subseteq Codes
      /\ "project_claimed" \in Authoritative
      /\ {"ok", "claim_in_progress", "not_found"} \cap Authoritative = {}
  BY DEF Codes, Authoritative
<1>3. CASE ProjectClient
  <2>1. keyMarked => Left
    BY <1>3 DEF ProjectClient, AnswerInv, RowsInv
  <2>2. PICK code \in {"ok", "project_claimed"} :
          Answer(code) /\ (code = "project_claimed" => Left)
    BY <1>3, <2>1 DEF ProjectClient
  <2> QED  BY <1>1, <1>2, <1>3, <2>2, AnswerStep DEF ProjectClient
<1>4. ASSUME UNCHANGED <<now, expiresAt, frozen, claimState, revoked, keyMarked, owner,
                         token, client, lost>>,
             attempt' \in {attempt, "pending", "closed"} \/ (attempt' = "accepted" /\ Left),
             handler' \in Handlers, AnswerInv'
      PROVE  TokenInv'
  BY <1>4, HandlerStep DEF RowsInv, TypeOK, Claimed
<1>5. CASE Issue
  <2>1. Issuance \in {"ok", "project_claimed", "claim_in_progress"}
        /\ (Issuance = "project_claimed" => Left)
    BY DEF Issuance, RowsInv
  <2>2. \/ Answer(Issuance) /\ UNCHANGED attempt
        \/ Goto("owner") /\ UNCHANGED attempt
        \/ Answer("ok") /\ attempt' = "pending"
    BY <1>5 DEF Issue
  <2>3. handler' \in Handlers /\ AnswerInv'
    BY <1>1, <1>2, <1>5, <2>1, <2>2, AnswerKnows, GotoKnows DEF Issue, Steps
  <2> QED  BY <1>4, <1>5, <2>2, <2>3 DEF Issue
<1>6. CASE CheckOwner
  <2>1. \/ Answer("project_claimed") /\ Left /\ UNCHANGED attempt
        \/ Answer("ok") /\ attempt' = "pending"
    BY <1>6 DEF CheckOwner, Left
  <2>2. handler' \in Handlers /\ AnswerInv'
    BY <1>1, <1>2, <1>6, <2>1, AnswerKnows DEF CheckOwner
  <2> QED  BY <1>4, <1>6, <2>1, <2>2 DEF CheckOwner
<1>7. CASE Poll
  <2>1. \/ Answer("not_found") /\ UNCHANGED attempt
        \/ Answer("ok") /\ attempt' \in {attempt, "closed"}
        \/ Goto("accept") /\ attempt' = "accepted" /\ Left
        \/ Goto("reconcile") /\ UNCHANGED attempt /\ Left
    BY <1>7 DEF Poll, RowsInv, Claimed, Left
  <2>2. handler' \in Handlers /\ AnswerInv'
    BY <1>1, <1>2, <1>7, <2>1, AnswerKnows, GotoKnows DEF Poll, Steps
  <2> QED  BY <1>4, <1>7, <2>1, <2>2 DEF Poll
<1>8. CASE AcceptClaim
  <2>1. Left
    BY <1>8 DEF AcceptClaim, AnswerInv
  <2>2. handler' \in Handlers /\ AnswerInv'
    BY <1>1, <1>8, <2>1, GotoKnows DEF AcceptClaim, Steps
  <2> QED  BY <1>8, <2>1, <2>2, HandlerStep DEF AcceptClaim, TypeOK
<1> QED  BY <1>3, <1>5, <1>6, <1>7, <1>8

(* mintAccessToken: what it mints fits, and what it refuses is over. *)
LEMMA MintInv ==
  ASSUME TokenInv, Mint
  PROVE  TokenInv'
<1>1. /\ nowSeconds \in Nat /\ Floor(expiresAt) \in Nat /\ AccessTTL \in Nat \ {0}
      /\ Floor(expiresAt) * Second <= expiresAt /\ Second \in Nat /\ expiresAt \in Nat
  BY Instants, TokenAssumption DEF TokenInv
<1>2. MintedExp \in Nat /\ MintedExp <= Floor(expiresAt)
      /\ (MintedExp <= nowSeconds => Floor(expiresAt) <= nowSeconds)
  BY <1>1 DEF MintedExp, LeastOf
<1>3. MintedExp * Second <= expiresAt
  BY <1>1, <1>2, SMT
<1>4. handler.kind # "revoke" /\ handler.kind = "exchange"
  BY DEF TokenInv, AnswerInv, Mint
<1>5. CASE MintedExp <= nowSeconds
  <2>1. Dead
    BY <1>2, <1>5 DEF Dead, Expired, TokenInv, RowsInv
  <2> QED  BY <1>4, <1>5, <2>1, AnswerStep DEF Mint, Codes, Authoritative
<1>6. CASE ~(MintedExp <= nowSeconds)
  <2> USE DEF TokenInv
  <2>1. handler' = [handler EXCEPT !.at = "record", !.exp = MintedExp]
    BY <1>6 DEF Mint
  <2>2. handler' \in Handlers /\ handler'.at = "record" /\ handler'.exp = MintedExp
        /\ handler'.kind = handler.kind
    BY <1>2, <2>1 DEF TypeOK, Handlers, HandlerSteps
  <2>3. AnswerInv'
    BY <1>3, <1>4, <2>2 DEF AnswerInv, Mint
  <2> QED  BY <2>2, <2>3, HandlerStep DEF Mint, claimVars, RowsInv, TypeOK
<1> QED  BY <1>5, <1>6

(* recordToken: the new row is not the assertion's, and fits. *)
LEMMA RecordInv ==
  ASSUME TokenInv, Record
  PROVE  TokenInv'
<1> USE TokenAssumption DEF TokenInv, claimVars
<1>1. PICK j \in Jtis :
        /\ token' = [token EXCEPT ![j] = [exp |-> handler.exp, revoked |-> FALSE]]
        /\ handler' = [handler EXCEPT !.at = "answer", !.code = "ok", !.token = j, !.exp = 0]
        /\ client' = [client EXCEPT !.told = @ \ {j}]
  BY DEF Record
<1>2. j \in Tokens /\ j # "assertion" /\ handler.exp \in Nat /\ handler.kind = "exchange"
      /\ handler.exp * Second <= expiresAt
  BY DEF Tokens, TypeOK, Handlers, AnswerInv, Record
<1>3. /\ handler' \in Handlers /\ handler'.at = "answer" /\ handler'.code = "ok"
      /\ handler'.kind = handler.kind /\ handler'.token = j
  BY <1>1, <1>2 DEF TypeOK, Handlers, HandlerSteps, Codes
<1>4. /\ client' \in Clients /\ client'.assertion = client.assertion
      /\ client'.told = client.told \ {j}
  BY <1>1 DEF TypeOK, Clients
<1>5. /\ token' \in [Tokens -> Rows] /\ token'[j].exp = handler.exp
      /\ \A t \in Tokens \ {j} : token'[t] = token[t]
  BY <1>1, <1>2 DEF TypeOK, Rows
<1>6. TypeOK'
  BY <1>2, <1>3, <1>4, <1>5 DEF TypeOK, Record
<1>7. token'["assertion"] = token["assertion"]
  BY <1>2, <1>5 DEF Tokens
<1>8. RowsInv'
  BY <1>7 DEF RowsInv, Record, Left
<1>9. AnswerInv'
  BY <1>2, <1>3 DEF AnswerInv, Record, Authoritative
<1>10. PrunedIsDead <=> PrunedIsDead'
  BY <1>4, <1>7 DEF PrunedIsDead, Dead, Left, Expired, nowSeconds, Record
<1>11. ToldRevokedIsDead'
  BY <1>4, <1>5 DEF ToldRevokedIsDead, Expired, nowSeconds, Record, TypeOK, Clients
<1> QED  BY <1>6, <1>8, <1>9, <1>10, <1>11 DEF NamesAudience

(* POST /v1/oauth2/revoke: 200 is said of a token that is revoked or over. *)
LEMMA RevokeInv ==
  ASSUME TokenInv, Revoke
  PROVE  TokenInv'
<1> USE DEF TokenInv, claimVars
<1>1. handler.token \in Tokens /\ handler.kind = "revoke"
  BY DEF TypeOK, Handlers, AnswerInv, Revoke
<1>2. /\ token' \in [Tokens -> Rows]
      /\ \A t \in Tokens : token'[t].exp = token[t].exp /\ (token[t].revoked => token'[t].revoked)
      /\ token'[handler.token].revoked \/ Expired(handler.token)
  BY <1>1 DEF TypeOK, Rows, Revoke, RevocationJti
<1>3. handler' \in Handlers /\ handler'.at = "answer" /\ handler'.code = "ok"
      /\ handler'.kind = handler.kind /\ handler'.token = handler.token
  BY DEF TypeOK, Handlers, HandlerSteps, Codes, Revoke, Answer
<1>4. TypeOK'
  BY <1>2, <1>3 DEF TypeOK, Revoke
<1>5. RowsInv'
  BY <1>2 DEF RowsInv, Revoke, Left, Tokens
<1>6. AnswerInv'
  BY <1>1, <1>2, <1>3 DEF AnswerInv, Revoke, Authoritative, Expired, nowSeconds
<1>7. PrunedIsDead => PrunedIsDead'
  BY <1>2 DEF PrunedIsDead, Dead, Left, Expired, nowSeconds, Revoke, Tokens
<1>8. ToldRevokedIsDead'
  BY <1>2 DEF ToldRevokedIsDead, Expired, nowSeconds, Revoke, TypeOK, Clients
<1> QED  BY <1>4, <1>5, <1>6, <1>7, <1>8 DEF NamesAudience

-----------------------------------------------------------------------------
(* A request that is sent: an exchange presents the assertion. *)
LEMMA Sent ==
  ASSUME TypeOK, Send
  PROVE  /\ handler' \in Handlers /\ handler'.at \in {"revoke", "verify"}
         /\ handler'.kind = "exchange" => handler'.token = "assertion"
         /\ handler'.kind = "revoke" <=> handler'.at = "revoke"
<1> USE TokenAssumption
<1>1. NoRequest \in Handlers /\ "assertion" \in Tokens /\ client \in Clients
  BY DEF NoRequest, Handlers, HandlerSteps, Codes, Tokens, TypeOK
<1>2. CASE Exchange
  <2>1. PICK resource \in Resources :
          handler' = [NoRequest EXCEPT !.at = "verify", !.kind = "exchange", !.resource = resource]
    BY <1>2 DEF Exchange
  <2> QED  BY <1>1, <2>1 DEF NoRequest, Handlers, HandlerSteps
<1>3. CASE handler' = [NoRequest EXCEPT !.at = "revoke", !.kind = "revoke"]
  BY <1>1, <1>3 DEF NoRequest, Handlers, HandlerSteps
<1>4. CASE handler' = [NoRequest EXCEPT !.at = "verify", !.kind = "code"]
  BY <1>1, <1>4 DEF NoRequest, Handlers, HandlerSteps
<1>5. CASE /\ client.access # NoToken /\ client.goal \notin WithAssertion
           /\ handler' = [NoRequest EXCEPT !.kind = client.goal, !.token = client.access,
                            !.at = IF client.goal = "revoke" THEN "revoke" ELSE "verify"]
  <2>1. client.access \in Tokens /\ client.goal \in {"operate", "code", "status", "revoke"}
    BY <1>1, <1>5 DEF Send, Clients, Tokens, Goals, WithAssertion
  <2> QED  BY <1>1, <1>5, <2>1 DEF Handlers, HandlerSteps
<1> QED  BY <1>2, <1>3, <1>4, <1>5 DEF Send, Request

(* A client acts: the rows stay as they are. *)
LEMMA ClientStep ==
  ASSUME TokenInv, UNCHANGED <<now, expiresAt, claimVars, token>>,
         lost' \in 0..MaxLost, client' \in Clients, handler' \in Handlers, AnswerInv', ToldRevokedIsDead',
         NamesAudience => PrunedIsDead'
  PROVE  TokenInv'
BY DEF TokenInv, TypeOK, RowsInv, Left, claimVars, NamesAudience

(* The client: what it does with an answer. *)
LEMMA ClientInv ==
  ASSUME TokenInv, Send \/ Receive \/ Lose \/ \E goal \in Goals : Want(goal)
  PROVE  TokenInv'
<1> USE TokenAssumption DEF claimVars
<1>0. TypeOK /\ AnswerInv /\ ToldRevokedIsDead /\ (NamesAudience => PrunedIsDead)
      /\ client \in Clients /\ handler \in Handlers /\ lost \in 0..MaxLost
  BY DEF TokenInv, TypeOK
<1>1. ASSUME NoRequest \in Handlers, handler' = NoRequest
      PROVE  handler' \in Handlers /\ AnswerInv'
  BY <1>1 DEF AnswerInv, NoRequest
<1>2. NoRequest \in Handlers
  BY DEF NoRequest, Handlers, HandlerSteps, Codes, Tokens
<1>3. CASE Receive
  <2>1. handler' = NoRequest /\ UNCHANGED <<now, expiresAt, claimVars, token, lost>>
    BY <1>3 DEF Receive
  <2>2. client' \in Clients
    BY <1>0, <1>3 DEF Receive, AnswerInv, Clients, Handlers
  <2>3. /\ client'.told = client.told \/ (client'.told = client.told \cup {handler.token}
                                            /\ handler.kind = "revoke")
        /\ client'.assertion = client.assertion \/ handler.code \in Authoritative
    BY <1>0, <1>3, <2>2 DEF Receive, Clients
  <2>4. ToldRevokedIsDead'
    BY <1>0, <1>3, <2>1, <2>3
       DEF AnswerInv, ToldRevokedIsDead, Expired, nowSeconds, Receive
  <2>5. NamesAudience => handler.resource # "other"
    BY <1>0 DEF NamesAudience, Handlers
  <2>6. NamesAudience /\ handler.code \in Authoritative => Dead \/ Left
    BY <1>0, <1>3, <2>5 DEF AnswerInv, Receive
  <2>7. NamesAudience => PrunedIsDead'
    BY <1>0, <2>1, <2>3, <2>6 DEF PrunedIsDead, Dead, Left, Expired, nowSeconds
  <2> QED  BY <1>0, <1>1, <1>2, <2>1, <2>2, <2>4, <2>7, ClientStep
<1>4. ASSUME UNCHANGED <<now, expiresAt, claimVars, token>>, client' \in Clients,
             client'.told = client.told, client'.assertion = client.assertion,
             lost' \in 0..MaxLost, handler' \in Handlers, AnswerInv'
      PROVE  TokenInv'
  BY <1>0, <1>4, ClientStep DEF ToldRevokedIsDead, PrunedIsDead, Dead, Left, Expired, nowSeconds
<1>5. CASE Send
  <2>1. /\ handler' \in Handlers /\ handler'.at \in {"revoke", "verify"}
        /\ handler'.kind = "exchange" => handler'.token = "assertion"
        /\ handler'.kind = "revoke" <=> handler'.at = "revoke"
    BY <1>0, <1>5, Sent
  <2>2. AnswerInv'
    BY <2>1 DEF AnswerInv
  <2> QED  BY <1>0, <1>4, <1>5, <2>1, <2>2 DEF Send
<1>6. CASE Lose
  BY <1>0, <1>1, <1>2, <1>4, <1>6 DEF Lose
<1>7. ASSUME NEW goal \in Goals, Want(goal)  PROVE TokenInv'
  <2>1. /\ client' \in Clients /\ client'.told = client.told
        /\ client'.assertion = client.assertion
    BY <1>0, <1>7 DEF Want, Clients
  <2>2. AnswerInv'
    BY <1>0, <1>7 DEF Want, AnswerInv, Dead, Left, Expired, nowSeconds
  <2> QED  BY <1>0, <1>4, <1>7, <2>1, <2>2 DEF Want
<1> QED  BY <1>3, <1>5, <1>6, <1>7

-----------------------------------------------------------------------------
(* The claim, a deletion and the janitor only revoke. *)
LEMMA RevokedTokens ==
  ASSUME TypeOK, NEW which, RevokeTokens(which)
  PROVE  /\ token' \in [Tokens -> Rows]
         /\ \A t \in Tokens : token'[t].exp = token[t].exp /\ (token[t].revoked => token'[t].revoked)
         /\ \A t \in Tokens \cap which : token'[t].revoked
BY DEF TypeOK, RevokeTokens, Rows

(* Rows that are only revoked, a project that is only given away, and a clock that
   only goes on: nothing that is dead comes alive again. *)
LEMMA RowsStep ==
  ASSUME TokenInv, UNCHANGED <<expiresAt, client, lost>>,
         now' \in 0..MaxNow, now <= now',
         frozen' \in BOOLEAN, keyMarked' \in BOOLEAN, revoked' \in BOOLEAN, revoked => revoked',
         claimState' \in {"unclaimed", "accepted", "reconciled"},
         attempt' \in {"none", "pending", "offered", "lapsed", "closed", "accepted", "reconciled"},
         owner' \in {"holding", "human", "deleted"}, Left => Left',
         token' \in [Tokens -> Rows],
         \A t \in Tokens : token'[t].exp = token[t].exp /\ (token[t].revoked => token'[t].revoked),
         RowsInv', handler' \in Handlers,
         \/ handler' = handler /\ (handler.at = "client" => ~frozen')
         \/ handler.kind # "revoke" /\ handler.kind # "exchange" /\ Answer("ok")
  PROVE  TokenInv'
<1>0. TypeOK /\ AnswerInv /\ ToldRevokedIsDead /\ (NamesAudience => PrunedIsDead)
      /\ client \in Clients /\ handler \in Handlers
  BY DEF TokenInv, TypeOK
<1>1. now \in Nat /\ now' \in Nat /\ Floor(now) <= Floor(now') /\ Floor(now) \in Nat
      /\ Floor(now') \in Nat
  BY <1>0, TokenAssumption, FloorMonotone, FloorBounds DEF TypeOK
<1>2. \A t \in Tokens : Expired(t) => Expired(t)'
  <2>1. \A t \in Tokens : token[t].exp \in Nat
    BY <1>0 DEF TypeOK, Rows
  <2> QED  BY <1>1, <2>1 DEF Expired, nowSeconds, Floor
<1>3. Dead => Dead'
  BY <1>2 DEF Dead, Tokens
<1>4. TypeOK'
  BY <1>0 DEF TypeOK
<1>5. ToldRevokedIsDead'
  BY <1>0, <1>2 DEF ToldRevokedIsDead, Clients
<1>6. PrunedIsDead => PrunedIsDead'
  BY <1>3 DEF PrunedIsDead
<1>7. CASE handler' = handler /\ (handler.at = "client" => ~frozen')
  <2>1. handler.token \in Tokens
    BY <1>0 DEF Handlers
  <2>2. (handler.at = "answer" /\ handler.kind = "revoke" =>
           token[handler.token].revoked \/ Expired(handler.token))'
    BY <1>0, <1>2, <1>7, <2>1 DEF AnswerInv
  <2> QED  BY <1>0, <1>3, <1>4, <1>5, <1>6, <1>7, <2>2 DEF AnswerInv, TokenInv, NamesAudience
<1>8. CASE handler.kind # "revoke" /\ handler.kind # "exchange" /\ Answer("ok")
  <2>1. handler'.at = "answer" /\ handler'.code = "ok" /\ handler'.kind = handler.kind
    BY <1>0, <1>8 DEF Answer, Handlers
  <2>2. AnswerInv'
    BY <1>8, <2>1 DEF AnswerInv, Authoritative
  <2> QED  BY <1>0, <1>4, <1>5, <1>6, <2>2 DEF TokenInv, NamesAudience
<1> QED  BY <1>7, <1>8

(* completeClaimReconciliation, of a claim whose project is known to have left. *)
LEMMA ReconcileInv ==
  ASSUME TokenInv, ReconcileClaim
  PROVE  TokenInv'
<1> USE DEF TokenInv
<1>1. handler.kind # "revoke" /\ handler.kind # "exchange" /\ Left
  BY DEF AnswerInv, ReconcileClaim
<1>2. /\ token' \in [Tokens -> Rows]
      /\ \A t \in Tokens : token'[t].exp = token[t].exp /\ (token[t].revoked => token'[t].revoked)
      /\ \A t \in Tokens \cap Tokens : token'[t].revoked
  BY RevokedTokens DEF ReconcileClaim
<1>3. RowsInv'
  BY <1>1, <1>2 DEF RowsInv, ReconcileClaim, Left, Tokens
<1>4. handler' \in Handlers /\ Left'
  BY <1>1 DEF TypeOK, Handlers, HandlerSteps, Codes, ReconcileClaim, Answer, Left
<1>5. now \in Nat /\ now \in 0..MaxNow
  BY TokenAssumption DEF TypeOK
<1> QED  BY <1>1, <1>2, <1>3, <1>4, <1>5, RowsStep DEF ReconcileClaim, TypeOK

(* What others do to the rows. *)
LEMMA OthersInv ==
  ASSUME TokenInv,
         \/ Freeze \/ MarkKey \/ RevokeAccess \/ Offer \/ AcceptTransfer \/ Lapse
         \/ DeleteProject \/ RevokeAll \/ RevokeRegistration \/ Settle \/ Tick
  PROVE  TokenInv'
<1> USE DEF claimVars
<1>0. TypeOK /\ RowsInv /\ AnswerInv /\ handler \in Handlers
  BY DEF TokenInv, TypeOK
<1>1. now \in Nat /\ now \in 0..MaxNow /\ now <= now /\ MaxNow \in Nat
  BY <1>0, TokenAssumption DEF TypeOK
<1>2. handler.at = "client" => ~frozen /\ handler.locked
  BY <1>0 DEF AnswerInv
<1>3. ASSUME UNCHANGED <<now, expiresAt, token, client, handler, lost>>,
             frozen' \in BOOLEAN, keyMarked' \in BOOLEAN, revoked' \in BOOLEAN,
             revoked => revoked',
             claimState' \in {"unclaimed", "accepted", "reconciled"},
             attempt' \in {"none", "pending", "offered", "lapsed", "closed", "accepted", "reconciled"},
             owner' \in {"holding", "human", "deleted"}, Left => Left', RowsInv',
             frozen' # frozen => ~handler.locked
      PROVE  TokenInv'
  <2>1. /\ token' \in [Tokens -> Rows]
        /\ \A t \in Tokens : token'[t].exp = token[t].exp /\ (token[t].revoked => token'[t].revoked)
    BY <1>0, <1>3 DEF TypeOK
  <2>2. handler' = handler /\ (handler.at = "client" => ~frozen')
    BY <1>2, <1>3
  <2> QED  BY <1>0, <1>1, <1>3, <2>1, <2>2, RowsStep
<1>4. CASE Freeze
  <2>1. RowsInv'
    BY <1>0, <1>4 DEF RowsInv, Freeze, Left
  <2> QED  BY <1>0, <1>3, <1>4, <2>1 DEF Freeze, Redeemed, Free, TypeOK, Left
<1>5. CASE MarkKey
  <2>1. RowsInv'
    BY <1>0, <1>5 DEF RowsInv, MarkKey, Left, Redeemed
  <2> QED  BY <1>0, <1>3, <1>5, <2>1 DEF MarkKey, TypeOK, Left
<1>6. CASE Offer
  <2>1. RowsInv'
    BY <1>0, <1>6 DEF RowsInv, Offer, Left, Claimed
  <2> QED  BY <1>0, <1>3, <1>6, <2>1 DEF Offer, TypeOK, Left
<1>7. CASE AcceptTransfer
  <2>1. RowsInv'
    BY <1>0, <1>7 DEF RowsInv, AcceptTransfer, Left
  <2> QED  BY <1>0, <1>3, <1>7, <2>1 DEF AcceptTransfer, TypeOK, Left
<1>8. CASE Lapse
  <2>1. RowsInv'
    BY <1>0, <1>8 DEF RowsInv, Lapse, Left, Claimed
  <2> QED  BY <1>0, <1>3, <1>8, <2>1 DEF Lapse, TypeOK, Left
<1>9. CASE DeleteProject
  <2>1. RowsInv'
    BY <1>0, <1>9 DEF RowsInv, DeleteProject, Left
  <2> QED  BY <1>0, <1>3, <1>9, <2>1 DEF DeleteProject, TypeOK, Left
<1>10. CASE RevokeRegistration
  <2>1. RowsInv'
    BY <1>0, <1>10 DEF RowsInv, RevokeRegistration, Left
  <2> QED  BY <1>0, <1>3, <1>10, <2>1 DEF RevokeRegistration, TypeOK, Left
<1>11. ASSUME NEW which, RevokeTokens(which), UNCHANGED <<now, expiresAt, claimVars, client, handler, lost>>
       PROVE  TokenInv'
  <2>1. /\ token' \in [Tokens -> Rows]
        /\ \A t \in Tokens : token'[t].exp = token[t].exp /\ (token[t].revoked => token'[t].revoked)
    BY <1>0, <1>11, RevokedTokens
  <2>2. RowsInv'
    BY <1>0, <1>11, <2>1 DEF RowsInv, Left, Tokens
  <2> QED  BY <1>0, <1>1, <1>2, <1>11, <2>1, <2>2, RowsStep DEF TypeOK, Left
<1>12. CASE RevokeAccess \/ RevokeAll
  BY <1>11, <1>12 DEF RevokeAccess, RevokeAll
<1>13. CASE Settle
  <2>1. /\ token' \in [Tokens -> Rows]
        /\ \A t \in Tokens : token'[t].exp = token[t].exp /\ (token[t].revoked => token'[t].revoked)
        /\ \A t \in Tokens \cap Tokens : token'[t].revoked
    BY <1>0, <1>13, RevokedTokens DEF Settle
  <2>2. Left' /\ keyMarked' \in BOOLEAN /\ UNCHANGED <<now, expiresAt, frozen, attempt, owner, client, handler, lost>>
        /\ claimState' \in {"unclaimed", "accepted", "reconciled"} /\ revoked' \in BOOLEAN
        /\ (revoked => revoked')
    BY <1>0, <1>13 DEF Settle, Left, TypeOK
  <2>3. RowsInv'
    BY <1>0, <2>1, <2>2 DEF RowsInv, Tokens
  <2> QED  BY <1>0, <1>1, <1>2, <2>1, <2>2, <2>3, RowsStep DEF TypeOK
<1>14. CASE Tick
  <2>1. now' \in 0..MaxNow /\ now <= now'
    BY <1>1, <1>14 DEF Tick
  <2>2. RowsInv'
    BY <1>0, <1>14 DEF RowsInv, Tick, Left
  <2>3. /\ token' \in [Tokens -> Rows]
        /\ \A t \in Tokens : token'[t].exp = token[t].exp /\ (token[t].revoked => token'[t].revoked)
    BY <1>0, <1>14 DEF TypeOK, Tick
  <2> QED  BY <1>0, <1>2, <1>14, <2>1, <2>2, <2>3, RowsStep DEF Tick, TypeOK, Left
<1> QED  BY <1>4, <1>5, <1>6, <1>7, <1>8, <1>9, <1>10, <1>12, <1>13, <1>14

-----------------------------------------------------------------------------
(* The inductive step. *)
LEMMA NextInv == TokenInv /\ [Next]_vars => TokenInv'
<1> SUFFICES ASSUME TokenInv, [Next]_vars  PROVE TokenInv'
  OBVIOUS
<1>1. CASE UNCHANGED vars
  <2>1. client' = client /\ handler' = handler
    BY <1>1 DEF vars
  <2>2. TypeOK' /\ RowsInv' /\ AnswerInv' /\ ToldRevokedIsDead' /\ (PrunedIsDead => PrunedIsDead')
    BY <1>1 DEF TokenInv, TypeOK, RowsInv, AnswerInv, PrunedIsDead, ToldRevokedIsDead, Dead, Left,
       Expired, nowSeconds, vars, claimVars
  <2> QED  BY <2>2 DEF TokenInv, NamesAudience
<1>2. CASE Next
  BY <1>2, ChecksInv, LockInv, RoutesInv, ReconcileInv, MintInv, RecordInv, RevokeInv,
     ClientInv, OthersInv DEF Next, Serve
<1> QED  BY <1>1, <1>2

(* The answers of the token service agree with its rows at every instant: in the
   states of a claim too, where more refusals carry a code to prune by. *)
THEOREM TokensAgree == Spec => []TokenInv
BY InitInv, NextInv, PTL DEF Spec

(* A client that asks for tokens of this service only never discards, on an
   authoritative code (lib/errors), an assertion of a project that the holding
   organization still has and of which something could still come. Without the
   hypothesis the code refutes it. *)
THEOREM OnlyTheDeadIsPruned ==
  ASSUME NamesAudience
  PROVE  Spec => []PrunedIsDead
<1>1. TokenInv => PrunedIsDead
  BY DEF TokenInv
<1> QED  BY <1>1, TokensAgree, PTL

(* A 200 of POST /v1/oauth2/revoke is the end of the token. *)
THEOREM RevokedStaysDead == Spec => []ToldRevokedIsDead
<1>1. TokenInv => ToldRevokedIsDead
  BY DEF TokenInv
<1> QED  BY <1>1, TokensAgree, PTL

(* mintAccessToken mints no token that is over, and none that outlives its
   project, however time is cut into seconds. *)
THEOREM NoDeadMint == Spec => MintedIsAlive
<1> DEFINE Alive ==
      handler'.at = "record" /\ handler.at # "record" =>
        handler'.exp > Floor(now') /\ handler'.exp * Second <= expiresAt
<1>1. TokenInv /\ TokenInv' /\ [Next]_vars => [Alive]_vars
  <2> SUFFICES ASSUME TokenInv, TokenInv', Next, handler'.at = "record", handler.at # "record"
               PROVE  handler'.exp > Floor(now') /\ handler'.exp * Second <= expiresAt
    OBVIOUS
  <2>1. Mint
    <3>1. handler \in Handlers /\ handler' \in Handlers /\ handler' # handler
      BY DEF TokenInv, TypeOK
    <3>2. \A step \in HandlerSteps : Goto(step) => handler'.at = step
      BY <3>1 DEF Goto, Handlers
    <3>3. \A code : ~Answer(code)
      BY <3>1 DEF Answer, Handlers
    <3>4. ~Proceed
      BY <3>2 DEF Proceed, Route, HandlerSteps
    <3>5. ~(Verify \/ Find \/ Table \/ Usable \/ Revoke)
      BY <3>2, <3>3, <3>4 DEF Verify, Find, Table, Usable, Revoke, HandlerSteps
    <3>6. ~Lock
      BY <3>1 DEF Lock, AfterWait, Handlers
    <3>7. ~(ProjectClient \/ Issue \/ CheckOwner \/ Poll \/ AcceptClaim \/ ReconcileClaim)
      BY <3>2, <3>3 DEF ProjectClient, Issue, CheckOwner, Poll, AcceptClaim, ReconcileClaim,
         HandlerSteps
    <3>8. ~(Send \/ Receive \/ Lose)
      BY Sent DEF Receive, Lose, NoRequest, TokenInv
    <3>9. ~Record
      BY <3>1 DEF Record, Handlers
    <3> QED  BY <3>1, <3>5, <3>6, <3>7, <3>8, <3>9
          DEF Next, Serve, Want, Freeze, MarkKey, RevokeAccess, Offer, AcceptTransfer, Lapse,
              DeleteProject, RevokeAll, RevokeRegistration, Settle, Tick
  <2>2. MintedExp \in Nat /\ nowSeconds \in Nat
    BY Instants, TokenAssumption DEF TokenInv, MintedExp, LeastOf
  <2>3. handler'.exp = MintedExp /\ ~(MintedExp <= nowSeconds) /\ now' = now
    BY <2>1 DEF Mint, Answer, TokenInv, TypeOK, Handlers
  <2>4. handler'.exp * Second <= expiresAt
    BY <2>1 DEF TokenInv, AnswerInv, Mint
  <2> QED  BY <2>2, <2>3, <2>4 DEF nowSeconds
<1>2. Spec => [][Alive]_vars
  BY <1>1, TokensAgree, PTL DEF Spec
<1> QED  BY <1>2 DEF MintedIsAlive
===============================================================================
