----------------------- MODULE EnabledServicesProofs -----------------------
(***************************************************************************)
(* Theorems about EnabledServices: whatever fails or is lost on the way,   *)
(* an agent is told of a service only what the rows say, and the private   *)
(* part of an Auth credential, once stored, stays.                         *)
(***************************************************************************)
EXTENDS EnabledServices, TLAPS

(* The services with a credential row. *)
Kept == {"auth", "data_api"}

(* The scopes that a registration or a token can carry before a claim. *)
OpenScopes ==
  {"postgres.read", "postgres.write", "data_api.query", "data_api.configure",
   "auth.configure"}

HandlerRecords ==
  [at : HandlerSteps, op : OPERATIONS, target : Targets, neonAuth : BOOLEAN,
   status : {200, 201, 404, 409}, has : SUBSET Kept, scopes : SUBSET OpenScopes,
   got : {"none", "public", "full"}]

(* The types, with the locals of the handler. *)
ServicesTyped ==
  /\ auth \in BOOLEAN /\ dataApi \subseteq Targets /\ frozen \in BOOLEAN
  /\ stored = [c \in Kept |-> stored[c]]
  /\ stored["auth"] \in {"none", "full", "public"}
  /\ stored["data_api"] \in Targets \cup {Nowhere}
  /\ scopes \subseteq OpenScopes /\ token \subseteq OpenScopes
  /\ handler \in HandlerRecords
  /\ told \in [Kept -> {"unknown", "enabled", "disabled"}]

(* The steps that persist an enabled service, and the ones of each. *)
DataApiSteps == {"getDataApi", "storeDataApi", "scopeDataApi"}
AuthSteps == {"getAuth", "storeAuth", "scopeAuth"}
DropSteps == {"dropRow", "dropScope"}

PostsAuth == Is("POST", "auth") \/ handler.neonAuth
DropsOwn == Is("DELETE", "data-api") /\ handler.target = Own

(* Which operation takes which step. *)
StepOfOperation ==
  /\ handler.neonAuth => Is("POST", "data-api")
  /\ handler.at = "read" => Is("POST", "auth") \/ Is("POST", "data-api")
  /\ handler.at \in DataApiSteps => Is("POST", "data-api")
  /\ handler.at \in AuthSteps => PostsAuth
  /\ handler.at \in DropSteps => DropsOwn

(* The agent was told nothing yet of what its request may change. *)
NotToldYet ==
  handler.at # "idle" =>
    /\ handler.op.method # "GET" /\ handler.op.resource = "data-api" =>
         told["data_api"] = "unknown"
    /\ PostsAuth => told["auth"] = "unknown"

(* The scopes the handler was given are the registration's until it wrote them
   for the last time. *)
GivenScopes ==
  handler.at \notin {"idle", "answer", "error"} => handler.scopes = scopes

(* What the handler read of the rows, and what it stored of them so far. *)
RowsRead ==
  /\ handler.op.method = "POST" =>
       /\ "auth" \in handler.has => stored["auth"] # "none"
       /\ "data_api" \in handler.has => stored["data_api"] # Nowhere
  /\ handler.at \in DataApiSteps /\ "auth" \notin handler.has => stored["auth"] = "none"
  /\ handler.at = "getAuth" => stored["auth"] = "none"
  /\ handler.at = "storeAuth" =>
       handler.got = "full" \/ (handler.got = "public" /\ stored["auth"] = "none")
  /\ handler.at = "scopeDataApi" => stored["data_api"] # Nowhere
  /\ handler.at = "scopeAuth" => stored["auth"] # "none"
  /\ handler.at \in AuthSteps /\ Is("POST", "data-api") => stored["data_api"] # Nowhere
  /\ handler.at = "dropScope" => stored["data_api"] = Nowhere

(* What the answer will tell is stored. *)
AnswerIsStored ==
  handler.at = "answer" =>
    /\ Is("POST", "data-api") => stored["data_api"] # Nowhere
    /\ PostsAuth => stored["auth"] # "none"
    /\ DropsOwn => stored["data_api"] = Nowhere /\ "data_api.query" \notin scopes

(* The inductive invariant. *)
ServicesInv ==
  /\ ServicesTyped /\ StepOfOperation /\ NotToldYet /\ GivenScopes
  /\ RowsRead /\ AnswerIsStored /\ ToldIsStored

-----------------------------------------------------------------------------
(* The scopes that a capability gives before a claim. *)
LEMMA OpenScopesAreGrantable ==
  ScopesForCapabilities(AlwaysGranted \cup GrantableOnRequest) = OpenScopes
<1>1. /\ CapabilityScopes["postgres"] = {"postgres.read", "postgres.write"}
      /\ CapabilityScopes["data_api"] = {"data_api.query", "data_api.configure"}
      /\ CapabilityScopes["auth"] = {"auth.configure"}
  BY DEF CapabilityScopes
<1>2. AlwaysGranted \cup GrantableOnRequest = {"postgres", "data_api", "auth"}
  BY DEF AlwaysGranted, GrantableOnRequest
<1> QED  BY <1>1, <1>2, SMTT(30) DEF ScopesForCapabilities, OpenScopes

(* What is granted is open. *)
LEMMA GrantedScopesAreOpen ==
  ASSUME NEW asked
  PROVE  WithGrantableConfigureScopes(ScopesForCapabilities(Granted(asked))) \subseteq OpenScopes
<1>1. ScopesForCapabilities(Granted(asked)) \subseteq
        ScopesForCapabilities(AlwaysGranted \cup GrantableOnRequest)
  BY DEF ScopesForCapabilities, Granted
<1>2. GrantableConfigureScopes \subseteq OpenScopes
  BY DEF GrantableConfigureScopes, OpenScopes
<1> QED  BY <1>1, <1>2, OpenScopesAreGrantable DEF WithGrantableConfigureScopes

(* Enabling a service opens its scopes; disabling the Data API closes its query
   scope and no other. *)
LEMMA ChangedScopes ==
  ASSUME NEW given \in SUBSET OpenScopes, NEW service \in Kept
  PROVE  /\ WithGrantedCapability(given, service) \subseteq OpenScopes
         /\ WithGrantableConfigureScopes(given) \subseteq OpenScopes
         /\ WithoutDataApiQuery(given) \subseteq OpenScopes
         /\ "data_api.query" \notin WithoutDataApiQuery(given)
<1>1. /\ CapabilityScopes["data_api"] = {"data_api.query", "data_api.configure"}
      /\ CapabilityScopes["auth"] = {"auth.configure"}
  BY DEF CapabilityScopes
<1>2. GrantableConfigureScopes \subseteq OpenScopes \ {"data_api.query"}
  BY DEF GrantableConfigureScopes, OpenScopes
<1>3. ScopesForCapabilities({service}) \subseteq OpenScopes
  <2>1. ScopesForCapabilities({service}) = CapabilityScopes[service]
    BY DEF ScopesForCapabilities
  <2> QED  BY <1>1, <2>1 DEF Kept, OpenScopes
<1> QED  BY <1>2, <1>3 DEF WithGrantedCapability, WithGrantableConfigureScopes, WithoutDataApiQuery

(* Nobody is at work before the first request. *)
LEMMA NoRequestTyped == NoRequest \in HandlerRecords
<1>1. Op("GET", "project", "any", "none") \in OPERATIONS
  BY DEF OPERATIONS, Op
<1>2. Own \in Targets
  BY TargetAssumption DEF Own, Targets
<1> QED  BY <1>1, <1>2 DEF NoRequest, HandlerRecords, HandlerSteps

(* The record of a handler, field by field. *)
HandlerWith(at, op, target, neonAuth, status, has, given, got) ==
  [at |-> at, op |-> op, target |-> target, neonAuth |-> neonAuth, status |-> status,
   has |-> has, scopes |-> given, got |-> got]

(* With fields of their types it is one. *)
LEMMA HandlerWithTyped ==
  ASSUME NEW at \in HandlerSteps, NEW op \in OPERATIONS, NEW target \in Targets,
         NEW neonAuth \in BOOLEAN, NEW status \in {200, 201, 404, 409},
         NEW has \in SUBSET Kept, NEW given \in SUBSET OpenScopes,
         NEW got \in {"none", "public", "full"}, NEW h,
         h = HandlerWith(at, op, target, neonAuth, status, has, given, got)
  PROVE  /\ h \in HandlerRecords
         /\ h.at = at /\ h.op = op /\ h.target = target /\ h.neonAuth = neonAuth
         /\ h.status = status /\ h.has = has /\ h.scopes = given /\ h.got = got
BY DEF HandlerWith, HandlerRecords

(* A handler is the record of its fields. *)
LEMMA HandlerFields ==
  ASSUME handler \in HandlerRecords
  PROVE  /\ handler.at \in HandlerSteps /\ handler.op \in OPERATIONS
         /\ handler.target \in Targets /\ handler.neonAuth \in BOOLEAN
         /\ handler.status \in {200, 201, 404, 409} /\ handler.has \in SUBSET Kept
         /\ handler.scopes \in SUBSET OpenScopes /\ handler.got \in {"none", "public", "full"}
BY DEF HandlerRecords

(* No target is nowhere. *)
LEMMA TargetsAreSomewhere == Nowhere \notin Targets /\ Own \in Targets
BY TargetAssumption DEF Nowhere, Targets, Own

(* The rows that provisioning leaves. *)
LEMMA ServicesStart == Init => ServicesInv
<1> SUFFICES ASSUME Init PROVE ServicesInv
  OBVIOUS
<1> USE DEF Init
<1>1. PICK asked \in SUBSET Capabilities, neonAuth \in BOOLEAN :
        /\ auth = ("auth" \in Granted(asked) \/ neonAuth)
        /\ dataApi = IF "data_api" \in Granted(asked) THEN {Own} ELSE {}
        /\ stored = [s \in {"auth", "data_api"} |->
             IF s = "data_api" THEN IF s \in Granted(asked) THEN Own ELSE Nowhere
             ELSE IF s \in Granted(asked) THEN "full" ELSE IF neonAuth THEN "public" ELSE "none"]
        /\ scopes = WithGrantableConfigureScopes(ScopesForCapabilities(Granted(asked)))
  OBVIOUS
<1>2. frozen = FALSE /\ token = {} /\ handler = NoRequest
      /\ told = [s \in {"auth", "data_api"} |-> "unknown"]
  OBVIOUS
<1> HIDE DEF Init
<1>3. /\ stored = [c \in Kept |-> stored[c]]
      /\ stored["auth"] \in {"none", "full", "public"}
      /\ stored["data_api"] \in {Own, Nowhere}
  BY <1>1 DEF Kept
<1>4. ServicesTyped
  BY <1>1, <1>2, <1>3, GrantedScopesAreOpen, NoRequestTyped, TargetsAreSomewhere
  DEF ServicesTyped, Kept
<1>5. /\ handler.at = "idle" /\ handler.op.method = "GET" /\ ~handler.neonAuth
      /\ told["auth"] = "unknown" /\ told["data_api"] = "unknown"
  BY <1>2 DEF NoRequest, Op
<1>6. StepOfOperation /\ NotToldYet /\ GivenScopes /\ RowsRead /\ AnswerIsStored /\ ToldIsStored
  BY <1>5 DEF StepOfOperation, NotToldYet, GivenScopes, RowsRead, AnswerIsStored, ToldIsStored,
     DataApiSteps, AuthSteps, DropSteps, Is
<1> QED  BY <1>4, <1>6 DEF ServicesInv

-----------------------------------------------------------------------------
(* The steps of a request. *)

(* It is authorized: the agent may be told nothing of what it changes. *)
LEMMA RequestKeeps == ASSUME ServicesInv, Request PROVE ServicesInv'
<1> USE DEF ServicesInv, ServicesTyped
<1>1. PICK op \in OPERATIONS, t \in Targets, n \in BOOLEAN :
        /\ Authorized(op)
        /\ op.resource # "data-api" => t = Own
        /\ n => op.method = "POST" /\ op.resource = "data-api"
        /\ handler' = [NoRequest EXCEPT !.at = "call", !.op = op, !.target = t,
                                        !.neonAuth = n, !.scopes = scopes]
        /\ told' = [told EXCEPT
             !["data_api"] = IF op.method # "GET" /\ op.resource = "data-api"
                             THEN "unknown" ELSE @,
             !["auth"] = IF (op.method = "POST" /\ op.resource = "auth") \/ n
                         THEN "unknown" ELSE @]
  BY Zenon DEF Request
<1>2. UNCHANGED <<auth, dataApi, stored, scopes, frozen, token>>
  BY DEF Request, upstreamVars, rowVars
<1>3. /\ handler'.at = "call" /\ handler'.op = op /\ handler'.neonAuth = n
      /\ handler'.scopes = scopes /\ handler'.has = {} /\ handler' \in HandlerRecords
  <2>1. handler' = HandlerWith("call", op, t, n, 200, {}, scopes, "none")
    BY <1>1 DEF NoRequest, HandlerWith
  <2> QED  BY <2>1, HandlerWithTyped DEF HandlerSteps
<1>4. /\ told' \in [Kept -> {"unknown", "enabled", "disabled"}]
      /\ told'["data_api"] = IF op.method # "GET" /\ op.resource = "data-api"
                             THEN "unknown" ELSE told["data_api"]
      /\ told'["auth"] = IF (op.method = "POST" /\ op.resource = "auth") \/ n
                         THEN "unknown" ELSE told["auth"]
  BY <1>1 DEF Kept
<1>5. ServicesTyped'
  BY <1>2, <1>3, <1>4
<1>6. StepOfOperation' /\ NotToldYet'
  BY <1>1, <1>3, <1>4 DEF StepOfOperation, NotToldYet, PostsAuth, Is, DataApiSteps, AuthSteps,
     DropSteps
<1>7. GivenScopes' /\ RowsRead' /\ AnswerIsStored'
  BY <1>2, <1>3 DEF GivenScopes, RowsRead, AnswerIsStored, DataApiSteps, AuthSteps
<1>8. ToldIsStored'
  BY <1>2, <1>4 DEF ToldIsStored
<1> QED  BY <1>5, <1>6, <1>7, <1>8

(* The locals that a step to another leaves alone. *)
Carries ==
  /\ handler' \in HandlerRecords
  /\ handler'.op = handler.op /\ handler'.neonAuth = handler.neonAuth
  /\ told' = told /\ frozen' = frozen /\ token' = token

(* The rows are as they were. *)
LEMMA CallKeeps == ASSUME ServicesInv, Call PROVE ServicesInv'
<1> USE DEF ServicesInv, ServicesTyped
<1> DEFINE answered == UpstreamStatus
<1>1. answered \in {200, 201, 404, 409}
  BY DEF UpstreamStatus
<1>2. /\ handler.at = "call" /\ UNCHANGED <<stored, scopes, frozen, token, told>>
      /\ handler' = [handler EXCEPT !.status = answered, !.at = AfterCall(answered)]
  BY DEF Call, rowVars, UnchangedHere
<1> HIDE DEF answered
<1>3. AfterCall(answered) \in {"error", "read", "dropRow", "answer"}
  BY DEF AfterCall
<1>4. /\ Carries /\ handler'.at = AfterCall(answered) /\ handler'.target = handler.target
      /\ handler'.has = handler.has /\ handler'.scopes = handler.scopes
  <2>1. handler' = HandlerWith(AfterCall(answered), handler.op, handler.target, handler.neonAuth,
                               answered, handler.has, handler.scopes, handler.got)
    BY <1>2 DEF HandlerWith, HandlerRecords
  <2> QED  BY <1>1, <1>2, <1>3, <2>1, HandlerFields, HandlerWithTyped DEF Carries, HandlerSteps
<1>5. /\ AfterCall(answered) = "read" => Is("POST", "auth") \/ Is("POST", "data-api")
      /\ AfterCall(answered) = "dropRow" => DropsOwn
      /\ AfterCall(answered) = "answer" => ~PostsAuth /\ ~Is("POST", "data-api") /\ ~DropsOwn
  BY DEF AfterCall, DropsOwn, PostsAuth, Is, StepOfOperation
<1>6. (auth \in BOOLEAN /\ dataApi \subseteq Targets)'
  BY <1>4 DEF Call, HandlerRecords
<1>7. ServicesTyped'
  BY <1>2, <1>4, <1>6 DEF Carries
<1>8. StepOfOperation' /\ NotToldYet' /\ GivenScopes' /\ AnswerIsStored'
  BY <1>2, <1>3, <1>4, <1>5 DEF Carries, StepOfOperation, NotToldYet, GivenScopes, AnswerIsStored,
     PostsAuth, DropsOwn, Is, DataApiSteps, AuthSteps, DropSteps
<1>9. RowsRead' /\ ToldIsStored'
  BY <1>2, <1>3, <1>4 DEF Carries, RowsRead, ToldIsStored, DataApiSteps, AuthSteps, Is
<1> QED  BY <1>7, <1>8, <1>9

(* What the rows have decides what is still to be persisted. *)
LEMMA ReadKeeps == ASSUME ServicesInv, Read PROVE ServicesInv'
<1> USE DEF ServicesInv, ServicesTyped
<1> DEFINE found == {c \in {"auth", "data_api"} :
                       stored[c] # (IF c = "auth" THEN "none" ELSE Nowhere)}
<1>1. /\ handler.at = "read"
      /\ UNCHANGED <<auth, dataApi, stored, scopes, frozen, token, told>>
      /\ handler' = [handler EXCEPT !.has = found, !.at = NextAfterRead(found),
                       !.got = IF handler.status = 201 THEN "full" ELSE "none"]
  BY DEF Read, upstreamVars, rowVars, UnchangedHere
<1>2. /\ found \subseteq Kept /\ ("auth" \in found <=> stored["auth"] # "none")
      /\ "data_api" \in found <=> stored["data_api"] # Nowhere
  BY DEF Kept
<1> HIDE DEF found
<1>3. /\ NextAfterRead(found) \in {"storeAuth", "answer", "getAuth", "storeDataApi", "getDataApi"}
      /\ NextAfterRead(found) = "answer" =>
           /\ Is("POST", "auth") => "auth" \in found
           /\ Is("POST", "data-api") =>
                "data_api" \in found /\ (handler.neonAuth => "auth" \in found)
      /\ NextAfterRead(found) \in {"storeDataApi", "getDataApi"} => Is("POST", "data-api")
      /\ NextAfterRead(found) \in {"storeAuth", "getAuth"} => PostsAuth
      /\ NextAfterRead(found) = "storeAuth" =>
           handler.status = 201 /\ ~Is("POST", "data-api")
      /\ NextAfterRead(found) = "getAuth" =>
           "auth" \notin found /\ (Is("POST", "data-api") => "data_api" \in found)
  BY <1>1 DEF NextAfterRead, PostsAuth, Is, StepOfOperation
<1>4. /\ Carries /\ handler'.at = NextAfterRead(found) /\ handler'.target = handler.target
      /\ handler'.has = found /\ handler'.scopes = handler.scopes
      /\ handler.status = 201 => handler'.got = "full"
  <2>1. handler' = HandlerWith(NextAfterRead(found), handler.op, handler.target, handler.neonAuth,
                               handler.status, found, handler.scopes,
                               IF handler.status = 201 THEN "full" ELSE "none")
    BY <1>1 DEF HandlerWith, HandlerRecords
  <2> QED
    BY <1>1, <1>2, <1>3, <2>1, HandlerFields, HandlerWithTyped DEF Carries, HandlerSteps
<1>5. ServicesTyped'
  BY <1>1, <1>4 DEF Carries
<1>6. StepOfOperation' /\ NotToldYet' /\ GivenScopes' /\ ToldIsStored'
  BY <1>1, <1>3, <1>4 DEF Carries, StepOfOperation, NotToldYet, GivenScopes, ToldIsStored,
     PostsAuth, DropsOwn, Is, DataApiSteps, AuthSteps, DropSteps
<1>7. RowsRead'
  BY <1>1, <1>2, <1>3, <1>4 DEF Carries, RowsRead, DataApiSteps, AuthSteps, Is
<1>8. AnswerIsStored'
  <2>1. ~Is("DELETE", "data-api")
    BY <1>1 DEF StepOfOperation, Is
  <2> QED  BY <1>1, <1>2, <1>3, <1>4, <2>1 DEF Carries, AnswerIsStored, PostsAuth, DropsOwn, Is, StepOfOperation
<1> QED  BY <1>5, <1>6, <1>7, <1>8

(* The Data API's credential row, then its scopes. *)
LEMMA DataApiKeeps ==
  ASSUME ServicesInv, GetDataApi \/ StoreDataApi \/ ScopeDataApi
  PROVE  ServicesInv'
<1> USE DEF ServicesInv, ServicesTyped
<1>1. CASE GetDataApi
  <2>1. /\ handler.at = "getDataApi"
        /\ UNCHANGED <<auth, dataApi, stored, scopes, frozen, token, told>>
        /\ \/ \E t \in Targets :
               handler' = [handler EXCEPT !.at = "storeDataApi", !.target = t]
           \/ handler' = [handler EXCEPT !.at = "error"]
    BY <1>1 DEF GetDataApi, Goto, upstreamVars, rowVars, UnchangedHere
  <2>2. /\ Carries /\ handler'.at \in {"storeDataApi", "error"}
        /\ handler'.has = handler.has /\ handler'.scopes = handler.scopes
    <3>0. UNCHANGED <<frozen, token, told>>
      BY <2>1
    <3>1. CASE \E t \in Targets :
                 handler' = [handler EXCEPT !.at = "storeDataApi", !.target = t]
      <4>1. PICK t \in Targets : handler' = [handler EXCEPT !.at = "storeDataApi", !.target = t]
        BY <3>1
      <4>2. handler' = HandlerWith("storeDataApi", handler.op, t, handler.neonAuth,
                                   handler.status, handler.has, handler.scopes, handler.got)
        BY <4>1 DEF HandlerWith, HandlerRecords
      <4> QED  BY <3>0, <4>2, HandlerFields, HandlerWithTyped DEF Carries, HandlerSteps
    <3>2. CASE handler' = [handler EXCEPT !.at = "error"]
      BY <3>0, <3>2 DEF Carries, HandlerRecords, HandlerSteps
    <3> QED  BY <2>1, <3>1, <3>2
  <2>3. ServicesTyped'
    BY <2>1, <2>2 DEF Carries
  <2> QED
    BY <2>1, <2>2, <2>3 DEF Carries, StepOfOperation, NotToldYet, GivenScopes, RowsRead,
       AnswerIsStored, ToldIsStored, PostsAuth, DropsOwn, Is, DataApiSteps, AuthSteps, DropSteps
<1>2. CASE StoreDataApi
  <2>1. /\ handler.at = "storeDataApi" /\ handler' = [handler EXCEPT !.at = "scopeDataApi"]
        /\ stored' = [stored EXCEPT !["data_api"] = handler.target]
        /\ UNCHANGED <<auth, dataApi, scopes, frozen, token, told>>
    BY <1>2 DEF StoreDataApi, Goto, upstreamVars, UnchangedHere
  <2>2. /\ Carries /\ handler'.at = "scopeDataApi"
        /\ handler'.has = handler.has /\ handler'.scopes = handler.scopes
    BY <2>1 DEF Carries, HandlerRecords, HandlerSteps
  <2>3. /\ stored'["data_api"] \in Targets /\ stored'["data_api"] # Nowhere
        /\ stored'["auth"] = stored["auth"] /\ stored' = [c \in Kept |-> stored'[c]]
    <3>1. handler.target \in Targets
      BY HandlerFields
    <3> QED  BY <2>1, <3>1, TargetsAreSomewhere DEF Kept
  <2>4. ServicesTyped'
    BY <2>1, <2>2, <2>3 DEF Carries
  <2>5. Is("POST", "data-api") /\ told["data_api"] = "unknown"
    BY <2>1 DEF StepOfOperation, NotToldYet, DataApiSteps, Is
  <2> QED
    BY <2>1, <2>2, <2>3, <2>4, <2>5 DEF Carries, StepOfOperation, NotToldYet, GivenScopes, RowsRead,
       AnswerIsStored, ToldIsStored, PostsAuth, DropsOwn, Is, DataApiSteps, AuthSteps, DropSteps
<1>3. CASE ScopeDataApi
  <2>1. /\ handler.at = "scopeDataApi"
        /\ scopes' = WithGrantedCapability(handler.scopes, "data_api")
        /\ handler' = [handler EXCEPT !.scopes = scopes',
             !.at = IF handler.neonAuth /\ "auth" \notin handler.has THEN "getAuth" ELSE "answer"]
        /\ UNCHANGED <<auth, dataApi, stored, frozen, token, told>>
    BY <1>3 DEF ScopeDataApi, upstreamVars, UnchangedHere
  <2>2. scopes' \subseteq OpenScopes
    BY <2>1, ChangedScopes DEF HandlerRecords, Kept
  <2>3. /\ Carries /\ handler'.has = handler.has /\ handler'.scopes = scopes'
        /\ handler'.at = IF handler.neonAuth /\ "auth" \notin handler.has THEN "getAuth" ELSE "answer"
    <3>1. handler' = HandlerWith(
            IF handler.neonAuth /\ "auth" \notin handler.has THEN "getAuth" ELSE "answer",
            handler.op, handler.target, handler.neonAuth, handler.status, handler.has, scopes',
            handler.got)
      BY <2>1 DEF HandlerWith, HandlerRecords
    <3> QED  BY <2>1, <2>2, <3>1, HandlerFields, HandlerWithTyped DEF Carries, HandlerSteps
  <2>4. ServicesTyped'
    BY <2>1, <2>2, <2>3 DEF Carries
  <2>5. Is("POST", "data-api") /\ told["data_api"] = "unknown" /\ stored["data_api"] # Nowhere
    BY <2>1 DEF StepOfOperation, NotToldYet, RowsRead, DataApiSteps, Is
  <2> QED
    BY <2>1, <2>3, <2>4, <2>5 DEF Carries, StepOfOperation, NotToldYet, GivenScopes, RowsRead,
       AnswerIsStored, ToldIsStored, PostsAuth, DropsOwn, Is, DataApiSteps, AuthSteps, DropSteps
<1> QED  BY <1>1, <1>2, <1>3

(* Auth's credential row, then its scope. *)
LEMMA AuthKeeps ==
  ASSUME ServicesInv, GetAuth \/ StoreAuth \/ ScopeAuth
  PROVE  ServicesInv'
<1> USE DEF ServicesInv, ServicesTyped
<1>1. CASE GetAuth
  <2>1. /\ handler.at = "getAuth"
        /\ UNCHANGED <<auth, dataApi, stored, scopes, frozen, token, told>>
        /\ handler' = [handler EXCEPT !.at = IF auth THEN "storeAuth" ELSE "error",
                                      !.got = "public"]
    BY <1>1 DEF GetAuth, upstreamVars, rowVars, UnchangedHere
  <2>2. /\ Carries /\ handler'.at \in {"storeAuth", "error"} /\ handler'.got = "public"
        /\ handler'.has = handler.has /\ handler'.scopes = handler.scopes
    <3>1. handler' = HandlerWith(
            IF auth THEN "storeAuth" ELSE "error", handler.op, handler.target, handler.neonAuth,
            handler.status, handler.has, handler.scopes, "public")
      BY <2>1 DEF HandlerWith, HandlerRecords
    <3> QED  BY <2>1, <3>1, HandlerFields, HandlerWithTyped DEF Carries, HandlerSteps
  <2>3. ServicesTyped'
    BY <2>1, <2>2 DEF Carries
  <2> QED
    BY <2>1, <2>2, <2>3 DEF Carries, StepOfOperation, NotToldYet, GivenScopes, RowsRead,
       AnswerIsStored, ToldIsStored, PostsAuth, DropsOwn, Is, DataApiSteps, AuthSteps, DropSteps
<1>2. CASE StoreAuth
  <2>1. /\ handler.at = "storeAuth" /\ handler' = [handler EXCEPT !.at = "scopeAuth"]
        /\ stored' = [stored EXCEPT !["auth"] = handler.got]
        /\ UNCHANGED <<auth, dataApi, scopes, frozen, token, told>>
    BY <1>2 DEF StoreAuth, Goto, upstreamVars, UnchangedHere
  <2>2. /\ Carries /\ handler'.at = "scopeAuth"
        /\ handler'.has = handler.has /\ handler'.scopes = handler.scopes
    BY <2>1 DEF Carries, HandlerRecords, HandlerSteps
  <2>3. /\ stored'["auth"] \in {"full", "public"} /\ stored'["data_api"] = stored["data_api"]
        /\ stored' = [c \in Kept |-> stored'[c]]
    BY <2>1 DEF Kept, RowsRead
  <2>4. ServicesTyped'
    BY <2>1, <2>2, <2>3 DEF Carries
  <2>5. PostsAuth /\ told["auth"] = "unknown"
    BY <2>1 DEF StepOfOperation, NotToldYet, AuthSteps
  <2> QED
    BY <2>1, <2>2, <2>3, <2>4, <2>5 DEF Carries, StepOfOperation, NotToldYet, GivenScopes, RowsRead,
       AnswerIsStored, ToldIsStored, PostsAuth, DropsOwn, Is, DataApiSteps, AuthSteps, DropSteps
<1>3. CASE ScopeAuth
  <2>1. /\ handler.at = "scopeAuth" /\ handler' = [handler EXCEPT !.at = "answer"]
        /\ scopes' = WithGrantedCapability(handler.scopes, "auth")
        /\ UNCHANGED <<auth, dataApi, stored, frozen, token, told>>
    BY <1>3 DEF ScopeAuth, Goto, upstreamVars, UnchangedHere
  <2>2. scopes' \subseteq OpenScopes
    BY <2>1, ChangedScopes DEF HandlerRecords, Kept
  <2>3. /\ Carries /\ handler'.at = "answer" /\ handler'.has = handler.has
    BY <2>1 DEF Carries, HandlerRecords, HandlerSteps
  <2>4. ServicesTyped'
    BY <2>1, <2>2, <2>3 DEF Carries
  <2>5. /\ PostsAuth /\ stored["auth"] # "none"
        /\ Is("POST", "data-api") => stored["data_api"] # Nowhere
    BY <2>1 DEF StepOfOperation, RowsRead, AuthSteps
  <2>6. "data_api.query" \notin scopes => "data_api.query" \notin scopes'
    <3>1. handler.scopes = scopes
      BY <2>1 DEF GivenScopes
    <3>2. ScopesForCapabilities({"auth"}) = {"auth.configure"}
      BY DEF ScopesForCapabilities, CapabilityScopes
    <3> QED  BY <2>1, <3>1, <3>2 DEF WithGrantedCapability, WithGrantableConfigureScopes,
             GrantableConfigureScopes
  <2>7. ToldIsStored'
    BY <2>1, <2>3, <2>6 DEF Carries, ToldIsStored
  <2> QED
    BY <2>1, <2>3, <2>4, <2>5, <2>7 DEF Carries, StepOfOperation, NotToldYet, GivenScopes, RowsRead,
       AnswerIsStored, PostsAuth, DropsOwn, Is, DataApiSteps, AuthSteps, DropSteps
<1> QED  BY <1>1, <1>2, <1>3

(* A disabled Data API loses its row, then its query scope. *)
LEMMA DropKeeps == ASSUME ServicesInv, DropRow \/ DropScope PROVE ServicesInv'
<1> USE DEF ServicesInv, ServicesTyped
<1>1. CASE DropRow
  <2>1. /\ handler.at = "dropRow" /\ handler' = [handler EXCEPT !.at = "dropScope"]
        /\ stored' = [stored EXCEPT !["data_api"] = Nowhere]
        /\ UNCHANGED <<auth, dataApi, scopes, frozen, token, told>>
    BY <1>1 DEF DropRow, Goto, upstreamVars, UnchangedHere
  <2>2. /\ Carries /\ handler'.at = "dropScope" /\ handler'.target = handler.target
        /\ handler'.has = handler.has /\ handler'.scopes = handler.scopes
    BY <2>1 DEF Carries, HandlerRecords, HandlerSteps
  <2>3. /\ stored'["data_api"] = Nowhere /\ stored'["auth"] = stored["auth"]
        /\ stored' = [c \in Kept |-> stored'[c]]
    BY <2>1 DEF Kept
  <2>4. ServicesTyped'
    BY <2>1, <2>2, <2>3 DEF Carries
  <2>5. DropsOwn /\ told["data_api"] = "unknown"
    BY <2>1 DEF StepOfOperation, NotToldYet, DropSteps, DropsOwn, Is
  <2> QED
    BY <2>1, <2>2, <2>3, <2>4, <2>5 DEF Carries, StepOfOperation, NotToldYet, GivenScopes, RowsRead,
       AnswerIsStored, ToldIsStored, PostsAuth, DropsOwn, Is, DataApiSteps, AuthSteps, DropSteps
<1>2. CASE DropScope
  <2>1. /\ handler.at = "dropScope" /\ handler' = [handler EXCEPT !.at = "answer"]
        /\ scopes' = WithoutDataApiQuery(handler.scopes)
        /\ UNCHANGED <<auth, dataApi, stored, frozen, token, told>>
    BY <1>2 DEF DropScope, Goto, upstreamVars, UnchangedHere
  <2>2. scopes' \subseteq OpenScopes /\ "data_api.query" \notin scopes'
    <3>1. handler.scopes \in SUBSET OpenScopes /\ "auth" \in Kept
      BY DEF HandlerRecords, Kept
    <3> QED  BY <2>1, <3>1, ChangedScopes
  <2>3. /\ Carries /\ handler'.at = "answer" /\ handler'.has = handler.has
        /\ handler'.target = handler.target
    BY <2>1 DEF Carries, HandlerRecords, HandlerSteps
  <2>4. ServicesTyped'
    BY <2>1, <2>2, <2>3 DEF Carries
  <2>5. DropsOwn /\ stored["data_api"] = Nowhere
    BY <2>1 DEF StepOfOperation, RowsRead, DropSteps
  <2> QED
    BY <2>1, <2>2, <2>3, <2>4, <2>5 DEF Carries, StepOfOperation, NotToldYet, GivenScopes, RowsRead,
       AnswerIsStored, ToldIsStored, PostsAuth, DropsOwn, Is, DataApiSteps, AuthSteps, DropSteps
<1> QED  BY <1>1, <1>2

(* The request ends, with an answer or without. *)
LEMMA EndKeeps == ASSUME ServicesInv, Answer \/ Fail PROVE ServicesInv'
<1> USE DEF ServicesInv, ServicesTyped
<1>1. /\ handler' = NoRequest /\ UNCHANGED <<auth, dataApi, stored, scopes, frozen, token>>
  BY DEF Answer, Fail, upstreamVars, rowVars, UnchangedHere
<1>2. /\ handler'.at = "idle" /\ handler'.op.method = "GET" /\ ~handler'.neonAuth
      /\ handler' \in HandlerRecords
  BY <1>1, NoRequestTyped DEF NoRequest, Op
<1>3. StepOfOperation' /\ NotToldYet' /\ GivenScopes' /\ RowsRead' /\ AnswerIsStored'
  BY <1>2 DEF StepOfOperation, NotToldYet, GivenScopes, RowsRead, AnswerIsStored, PostsAuth,
     DropsOwn, Is, DataApiSteps, AuthSteps, DropSteps
<1>4. told' \in [Kept -> {"unknown", "enabled", "disabled"}] /\ ToldIsStored'
  <2>1. CASE Answer
    <3>1. /\ handler.at = "answer"
          /\ told' \in [Kept -> {"unknown", "enabled", "disabled"}]
          /\ told'["data_api"] = IF Is("POST", "data-api") THEN "enabled"
                                 ELSE IF DropsOwn THEN "disabled" ELSE told["data_api"]
          /\ told'["auth"] = IF PostsAuth THEN "enabled" ELSE told["auth"]
      BY <2>1 DEF Answer, Kept, DropsOwn, PostsAuth
    <3> QED  BY <1>1, <3>1 DEF AnswerIsStored, ToldIsStored
  <2>2. CASE Fail
    BY <1>1, <2>2 DEF Fail, UnchangedHere, ToldIsStored
  <2> QED  BY <2>1, <2>2
<1> QED  BY <1>1, <1>2, <1>3, <1>4

(* A token, and the claim: nothing of them is in the rows. *)
LEMMA OthersKeep ==
  ASSUME ServicesInv, Exchange \/ Freeze \/ UNCHANGED vars
  PROVE  ServicesInv'
<1> USE DEF ServicesInv, ServicesTyped
<1>1. UNCHANGED <<auth, dataApi, stored, scopes, handler, told>>
  BY DEF Exchange, Freeze, vars, upstreamVars, rowVars
<1>2. token' \subseteq OpenScopes /\ frozen' \in BOOLEAN
  <2>1. CASE Exchange
    <3>1. WithGrantableConfigureScopes(scopes) \subseteq OpenScopes
      BY DEF WithGrantableConfigureScopes, GrantableConfigureScopes, OpenScopes
    <3> QED  BY <2>1, <3>1 DEF Exchange
  <2>2. CASE Freeze \/ UNCHANGED vars
    BY <2>2 DEF Freeze, vars
  <2> QED  BY <2>1, <2>2
<1> QED
  BY <1>1, <1>2 DEF StepOfOperation, NotToldYet, GivenScopes, RowsRead, AnswerIsStored,
     ToldIsStored, PostsAuth, DropsOwn, Is

-----------------------------------------------------------------------------
(* What the rows and the locals of a request say of each other, after every
   step, failure and retry. *)
THEOREM ServicesStepByStep == Spec => []ServicesInv
<1>1. ServicesInv /\ [Next]_vars => ServicesInv'
  BY RequestKeeps, CallKeeps, ReadKeeps, DataApiKeeps, AuthKeeps, DropKeeps, EndKeeps, OthersKeep
  DEF Next
<1> QED  BY ServicesStart, <1>1, PTL DEF Spec

(* No scope of a capability that requires a claim is ever in a registration's
   scopes or in a token, whatever is enabled, disabled and asked again. *)
THEOREM ServicesTypeCorrect == Spec => []TypeOK
<1>1. ServicesInv => TypeOK
  BY OpenScopesAreGrantable DEF ServicesInv, ServicesTyped, TypeOK, HandlerRecords, Kept
<1> QED  BY ServicesStepByStep, <1>1, PTL

(* What an agent was told of a service is what the rows say, also when it had
   to ask again because a step failed or an answer was lost. *)
THEOREM ToldTheTruth == Spec => []ToldIsStored
BY ServicesStepByStep, PTL DEF ServicesInv

(* The private part of an Auth credential is never replaced by what a GET
   answers. *)
THEOREM PrivateAuthStays == Spec => PrivateAuthIsKept
<1>1. ServicesInv /\ [Next]_vars =>
        [stored["auth"] = "full" => stored'["auth"] = "full"]_vars
  <2> SUFFICES ASSUME ServicesInv, Next, stored["auth"] = "full"
               PROVE  stored'["auth"] = "full"
    OBVIOUS
  <2>1. CASE StoreAuth
    <3>1. handler.got = "full" /\ stored' = [stored EXCEPT !["auth"] = handler.got]
      BY <2>1 DEF StoreAuth, ServicesInv, RowsRead
    <3> QED  BY <3>1 DEF ServicesInv, ServicesTyped, Kept
  <2>2. CASE StoreDataApi \/ DropRow
    BY <2>2 DEF StoreDataApi, DropRow, ServicesInv, ServicesTyped, Kept
  <2>3. CASE ~StoreAuth /\ ~StoreDataApi /\ ~DropRow
    BY <2>3 DEF Next, Request, Call, Read, GetDataApi, ScopeDataApi, GetAuth, ScopeAuth,
       DropScope, Answer, Fail, Exchange, Freeze, rowVars
  <2> QED  BY <2>1, <2>2, <2>3
<1> QED  BY ServicesStepByStep, <1>1, PTL DEF Spec, PrivateAuthIsKept

=============================================================================
