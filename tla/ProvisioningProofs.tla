-------------------------- MODULE ProvisioningProofs --------------------------
(***************************************************************************)
(* Theorems about Provisioning, for any set of operations Neon may start:  *)
(* a 201 is backed by the whole of what it promises, an error that does    *)
(* not admit to an incomplete cleanup left nothing behind, and no key is   *)
(* minted before Neon has finished the project.                            *)
(***************************************************************************)
EXTENDS Provisioning, TLAPS

-----------------------------------------------------------------------------
(* The course of a request, by what its steps rely on. *)

KeyedSteps == WorkSteps \ {"create", "await", "mint", "checkKey", "revokeStray"}
StoringSteps == {"register", "storeKey", "storeCredentials",
                 "recordDemand", "recordUsage"}
AllFinished == \A o \in Operations : ops[o] = "finished"

(* What the handler knows of is there, or was. Before it knows the project it has
   made nothing of it, and it learns of it when every operation has finished. *)
Knowledge ==
  /\ handler.at = "create" => project = "none"
  /\ handler.at \in WorkSteps \ {"create"} => Alive
  /\ handler.at \in {"create", "await"} => handler.knows = {}
  /\ handler.at \in WorkSteps \ {"create", "await"} => "project" \in handler.knows
  /\ handler.at = "await" => \A o \in Operations \ handler.pending : ops[o] = "finished"
  /\ "project" \in handler.knows => AllFinished
  /\ "project" \notin handler.knows => key = "none" /\ enabled = {} /\ rows = {}
  /\ "key" \in handler.knows => "project" \in handler.knows

(* The key, from its minting to the rows. *)
KeyCourse ==
  /\ handler.at \in {"mint", "checkKey", "revokeStray"} => enabled = {} /\ rows = {}
  /\ handler.at = "checkKey" => key \in {"live", "stray"}
  /\ handler.at \in KeyedSteps => key = "live" /\ "key" \in handler.knows
  /\ handler.at \in WorkSteps \ KeyedSteps => handler.got = {}

(* The services Neon runs and those the handler has a credential of. *)
ServiceCourse ==
  /\ handler.at = "auth" => handler.got = {} /\ enabled = {}
  /\ handler.at = "dataApi" => handler.got = enabled /\ enabled = request.wants \cap {"auth"}
  /\ handler.at = "readAuth" =>
       enabled = handler.got \cup {"auth"} /\ request.wants \subseteq enabled
  /\ handler.at \in StoringSteps => handler.got = enabled /\ request.wants \subseteq enabled

(* The rows, one after the other. *)
RowCourse ==
  /\ handler.at \in {"auth", "dataApi", "readAuth", "register"} => rows = {}
  /\ handler.at = "storeKey" => rows = {"registration"}
  /\ handler.at = "storeCredentials" =>
       {"registration", "key"} \subseteq rows /\ rows \subseteq {"registration", "key"} \cup enabled
  /\ handler.at \in {"recordDemand", "recordUsage"} =>
       rows = {"registration", "key", "assertion"} \cup enabled
  /\ handler.at = "recordUsage" => "demand" \in records

(* What a cleanup that noted no failure has done so far. *)
CleanCourse ==
  /\ handler.at \in {"cleanKey", "cleanProject"} /\ ~handler.incomplete => rows = {}
  /\ handler.at = "cleanKey" => "key" \in handler.knows
  /\ handler.at = "cleanProject" =>
       /\ "project" \in handler.knows
       /\ ~handler.incomplete /\ "key" \in handler.knows => key # "live"

(* Nobody is answered, and no janitor looks, before the request ends. *)
EndCourse ==
  /\ answer # "none" \/ late => Ended
  /\ janitor # "idle" => late /\ "registration" \in rows

ProvisioningInv ==
  /\ TypeOK
  /\ Knowledge /\ KeyCourse /\ ServiceCourse /\ RowCourse /\ CleanCourse /\ EndCourse
  /\ CreatedIsComplete /\ PlainFailureIsClean

-----------------------------------------------------------------------------
(* The handler's record. *)
HandlerRecords ==
  [at : WorkSteps \cup CleanupSteps \cup {"ended"}, knows : SUBSET {"project", "key"},
   got : SUBSET Services, pending : SUBSET Operations, incomplete : BOOLEAN]

(* What the request does. Each of its steps touches one part of the course. *)

(* Until there is a key for the project. *)
LEMMA BeginKeeps ==
  ASSUME ProvisioningInv,
         \/ CreateProject \/ PollOperation \/ ProjectReady \/ MintKey \/ CheckKey \/ RevokeStray
  PROVE  ProvisioningInv'
<1> USE DEF ProvisioningInv, TypeOK, Knowledge, KeyCourse, ServiceCourse, RowCourse, CleanCourse,
        EndCourse, CreatedIsComplete, PlainFailureIsClean, WorkSteps, CleanupSteps, KeyedSteps,
        StoringSteps, AllFinished, Alive, Ended, upstreamVars, tableVars, janitorVars
<1>1. CASE CreateProject
  <2>1. /\ handler.at = "create" /\ handler'.at = "await"
        /\ handler'.pending = {o \in Operations : ops'[o] # "finished"}
        /\ handler'.knows = {} /\ handler'.got = {} /\ handler'.incomplete = handler.incomplete
    BY <1>1 DEF CreateProject
  <2>2. /\ project' = "created" /\ ops' \in [Operations -> {"running", "finished"}]
        /\ UNCHANGED <<request, enabled, key, rows, records, answer, late, janitor, purged>>
    BY <1>1 DEF CreateProject
  <2>3. TypeOK'
    BY <1>1, <2>2 DEF CreateProject
  <2>4. Knowledge'
    BY <2>1, <2>2
  <2>5. KeyCourse' /\ ServiceCourse' /\ RowCourse' /\ CleanCourse' /\ EndCourse'
    BY <2>1, <2>2
  <2> QED  BY <2>1, <2>2, <2>3, <2>4, <2>5
<1>2. CASE PollOperation
  BY <1>2 DEF PollOperation
<1>3. CASE ProjectReady
  BY <1>3 DEF ProjectReady, Learns
<1>4. CASE MintKey
  BY <1>4 DEF MintKey, To
<1>5. CASE CheckKey
  <2>1. CASE key = "stray"
    BY <1>5, <2>1 DEF CheckKey, To
  <2>2. CASE key # "stray"
    <3>1. /\ Learns({"key"}, "auth") /\ handler.at = "checkKey"
          /\ UNCHANGED <<request, upstreamVars, tableVars, answer, janitorVars>>
      BY <1>5, <2>2 DEF CheckKey
    <3>2. /\ handler'.at = "auth" /\ handler'.got = {} /\ handler'.pending = handler.pending
          /\ handler'.knows = handler.knows \cup {"key"} /\ handler' \in HandlerRecords
      BY <3>1 DEF Learns, HandlerRecords
    <3>3. "project" \in handler.knows /\ key = "live" /\ enabled = {} /\ rows = {}
      BY <2>2, <3>1
    <3> QED  BY <3>1, <3>2, <3>3 DEF HandlerRecords
  <2> QED  BY <2>1, <2>2
<1>6. CASE RevokeStray
  BY <1>6 DEF RevokeStray, To
<1> QED  BY <1>1, <1>2, <1>3, <1>4, <1>5, <1>6

(* The services are enabled; whatever Neon runs has its credential in the end. *)
LEMMA EnableKeeps ==
  ASSUME ProvisioningInv, EnableAuth \/ EnableDataApi \/ ReadAuth
  PROVE  ProvisioningInv'
<1> USE DEF ProvisioningInv, TypeOK, Knowledge, KeyCourse, ServiceCourse, RowCourse, CleanCourse,
        EndCourse, CreatedIsComplete, PlainFailureIsClean, WorkSteps, CleanupSteps, KeyedSteps,
        StoringSteps, AllFinished, Alive, Ended, upstreamVars, tableVars, janitorVars
<1>0. request.wants \subseteq {"auth", "data_api"}
  BY DEF Requests, Services
<1>1. CASE EnableAuth
  <2>1. CASE "auth" \in request.wants
    <3>1. /\ Gets("auth", "dataApi") /\ enabled' = enabled \cup {"auth"} /\ handler.at = "auth"
          /\ UNCHANGED <<request, project, ops, key, tableVars, answer, janitorVars>>
      BY <1>1, <2>1 DEF EnableAuth
    <3>2. /\ handler'.at = "dataApi" /\ handler'.got = {"auth"} /\ handler'.knows = handler.knows
          /\ handler'.pending = handler.pending /\ handler' \in HandlerRecords
      BY <3>1 DEF Gets, Services, HandlerRecords
    <3>3. enabled = {}
      BY <3>1
    <3>4. enabled' = {"auth"}
      BY <3>1, <3>3
    <3>5. request.wants \cap {"auth"} = {"auth"}
      BY <2>1, ZenonT(30)
    <3>6. {"auth"} \subseteq Services
      BY DEF Services
    <3> QED  BY <3>1, <3>2, <3>4, <3>5, <3>6 DEF HandlerRecords
  <2>2. CASE "auth" \notin request.wants
    BY <1>0, <1>1, <2>2 DEF EnableAuth, To, Services
  <2> QED  BY <2>1, <2>2
<1>2. CASE EnableDataApi
  <2>1. CASE "data_api" \notin request.wants
    BY <1>0, <1>2, <2>1 DEF EnableDataApi, To, Services
  <2>2. CASE "data_api" \in request.wants /\ WithNeonAuth /\ "auth" \notin handler.got
    <3>1. /\ Gets("data_api", "readAuth") /\ enabled' = enabled \cup {"data_api", "auth"}
          /\ handler.at = "dataApi"
          /\ UNCHANGED <<request, project, ops, key, tableVars, answer, janitorVars>>
      BY <1>2, <2>2 DEF EnableDataApi
    <3>2. /\ handler'.at = "readAuth" /\ handler'.got = handler.got \cup {"data_api"}
          /\ handler'.knows = handler.knows /\ handler'.pending = handler.pending
          /\ handler' \in HandlerRecords
      BY <3>1 DEF Gets, Services, HandlerRecords
    <3>3. handler.got = request.wants \cap {"auth"} /\ "auth" \notin enabled
      BY <2>2, <3>1
    <3> QED  BY <1>0, <2>2, <3>1, <3>2, <3>3 DEF Services, HandlerRecords
  <2>3. CASE "data_api" \in request.wants /\ ~(WithNeonAuth /\ "auth" \notin handler.got)
    <3>1. /\ Gets("data_api", "register") /\ enabled' = enabled \cup {"data_api"}
          /\ handler.at = "dataApi"
          /\ UNCHANGED <<request, project, ops, key, tableVars, answer, janitorVars>>
      BY <1>2, <2>3 DEF EnableDataApi
    <3>2. /\ handler'.at = "register" /\ handler'.got = handler.got \cup {"data_api"}
          /\ handler'.knows = handler.knows /\ handler'.pending = handler.pending
          /\ handler' \in HandlerRecords
      BY <3>1 DEF Gets, Services, HandlerRecords
    <3>3. handler.got = request.wants \cap {"auth"}
      BY <2>3, <3>1
    <3> QED  BY <1>0, <2>3, <3>1, <3>2, <3>3 DEF Services, HandlerRecords
  <2> QED  BY <2>1, <2>2, <2>3
<1>3. CASE ReadAuth
  BY <1>3 DEF ReadAuth, To, Gets, Services
<1> QED  BY <1>1, <1>2, <1>3

(* The rows are written, the last of them before the 201. *)
LEMMA StoreKeeps ==
  ASSUME ProvisioningInv,
         \/ CreateRegistration \/ StoreKey \/ StoreCredential \/ RecordAssertion
         \/ RecordDemand \/ RecordUsage
  PROVE  ProvisioningInv'
<1> USE DEF ProvisioningInv, TypeOK, Knowledge, KeyCourse, ServiceCourse, RowCourse, CleanCourse,
        EndCourse, CreatedIsComplete, PlainFailureIsClean, WorkSteps, CleanupSteps, KeyedSteps,
        StoringSteps, AllFinished, Alive, Ended, upstreamVars, tableVars, janitorVars, Rows
<1>1. CASE CreateRegistration
  BY <1>1 DEF CreateRegistration, Insert, To
<1>2. CASE StoreKey
  BY <1>2 DEF StoreKey, Insert, To
<1>3. CASE StoreCredential
  BY <1>3 DEF StoreCredential, Insert, To
<1>4. CASE RecordAssertion
  BY <1>4 DEF RecordAssertion, Insert, To
<1>5. CASE RecordDemand
  BY <1>5 DEF RecordDemand, To
<1>6. CASE RecordUsage
  BY <1>6 DEF RecordUsage, To, Services
<1> QED  BY <1>1, <1>2, <1>3, <1>4, <1>5, <1>6

(* It fails and cleans up, or dies. *)
LEMMA FailKeeps ==
  ASSUME ProvisioningInv, Throw \/ Die \/ CleanRow \/ CleanKey \/ CleanProject
  PROVE  ProvisioningInv'
<1> USE DEF ProvisioningInv, TypeOK, Knowledge, KeyCourse, ServiceCourse, RowCourse, CleanCourse,
        EndCourse, CreatedIsComplete, PlainFailureIsClean, WorkSteps, CleanupSteps, KeyedSteps,
        StoringSteps, AllFinished, Alive, Ended, upstreamVars, tableVars, janitorVars
<1>1. CASE Throw
  BY <1>1 DEF Throw, To
<1>2. CASE Die
  BY <1>2 DEF Die, To
<1>3. CASE CleanRow
  <2>1. PICK took, ok \in BOOLEAN :
          /\ ok => took
          /\ rows' = IF took THEN {} ELSE rows
          /\ Cleaned("cleanRow", ok)
    BY <1>3 DEF CleanRow
  <2>2. PICK next \in {"cleanKey", "cleanProject", "ended"} :
          /\ handler' = [handler EXCEPT !.at = next, !.incomplete = (handler.incomplete \/ ~ok)]
          /\ answer' = IF next # "ended" THEN answer
                       ELSE IF handler.incomplete \/ ~ok THEN "incomplete" ELSE "failed"
          /\ \/ next = "cleanKey" /\ "key" \in handler.knows
             \/ next = "cleanProject" /\ "key" \notin handler.knows /\ "project" \in handler.knows
             \/ next = "ended" /\ "key" \notin handler.knows /\ "project" \notin handler.knows
    BY <2>1 DEF Cleaned, NextCleanup
  <2>3. /\ handler'.at = next /\ handler'.knows = handler.knows /\ handler'.got = handler.got
        /\ handler'.pending = handler.pending
        /\ ~handler'.incomplete => ~handler.incomplete /\ ok
        /\ next = "ended" /\ answer' = "failed" => ~handler'.incomplete
        /\ next # "ended" => answer' = answer
    BY <2>2
  <2>4. TypeOK'
    <3>1. rows' \subseteq Rows
      BY <2>1
    <3>2. handler' \in HandlerRecords
      BY <2>2 DEF HandlerRecords
    <3>3. answer' \in {"none", "created", "failed", "incomplete", "lost"}
      BY <2>2
    <3>4. /\ UNCHANGED <<request, project, ops, enabled, key, records, late, janitor, purged>>
          /\ handler'.knows = handler.knows /\ handler'.pending = handler.pending
      BY <1>3, <2>3 DEF CleanRow
    <3> QED  BY <3>1, <3>2, <3>3, <3>4 DEF HandlerRecords
  <2> QED  BY <1>3, <2>1, <2>2, <2>3, <2>4 DEF CleanRow
<1>4. CASE CleanKey
  <2>1. PICK took, ok \in BOOLEAN :
          /\ ok => took
          /\ key' = IF took THEN "revoked" ELSE key
          /\ Cleaned("cleanKey", ok)
    BY <1>4 DEF CleanKey
  <2>2. PICK next \in {"cleanProject", "ended"} :
          /\ handler' = [handler EXCEPT !.at = next, !.incomplete = (handler.incomplete \/ ~ok)]
          /\ answer' = IF next # "ended" THEN answer
                       ELSE IF handler.incomplete \/ ~ok THEN "incomplete" ELSE "failed"
          /\ next = "cleanProject" \/ "project" \notin handler.knows
    BY <2>1 DEF Cleaned, NextCleanup
  <2>3. /\ handler'.at = next /\ handler'.knows = handler.knows /\ handler'.got = handler.got
        /\ handler'.pending = handler.pending
        /\ ~handler'.incomplete => ~handler.incomplete /\ ok
        /\ next = "ended" /\ answer' = "failed" => ~handler'.incomplete
        /\ next # "ended" => answer' = answer
    BY <2>2
  <2>4. TypeOK'
    BY <1>4, <2>1, <2>2, <2>3 DEF CleanKey
  <2> QED  BY <1>4, <2>1, <2>2, <2>3, <2>4 DEF CleanKey
<1>5. CASE CleanProject
  <2>1. PICK took, ok \in BOOLEAN :
          /\ ok => took
          /\ project' = IF took THEN "deleted" ELSE project
          /\ Cleaned("cleanProject", ok)
    BY <1>5 DEF CleanProject
  <2>2. PICK next \in {"ended"} :
          /\ handler' = [handler EXCEPT !.at = next, !.incomplete = (handler.incomplete \/ ~ok)]
          /\ answer' = IF next # "ended" THEN answer
                       ELSE IF handler.incomplete \/ ~ok THEN "incomplete" ELSE "failed"
          /\ next = "ended"
    BY <2>1 DEF Cleaned, NextCleanup
  <2>3. /\ handler'.at = next /\ handler'.knows = handler.knows /\ handler'.got = handler.got
        /\ handler'.pending = handler.pending
        /\ ~handler'.incomplete => ~handler.incomplete /\ ok
        /\ next = "ended" /\ answer' = "failed" => ~handler'.incomplete
        /\ next # "ended" => answer' = answer
    BY <2>2
  <2>4. TypeOK'
    BY <1>5, <2>1, <2>2, <2>3 DEF CleanProject
  <2> QED  BY <1>5, <2>1, <2>2, <2>3, <2>4 DEF CleanProject
<1> QED  BY <1>1, <1>2, <1>3, <1>4, <1>5

-----------------------------------------------------------------------------
(* Neon and the janitor, who looks only at what has a row and is long over. *)
LEMMA BesidesKeep ==
  ASSUME ProvisioningInv,
         \/ EndOperation \/ RetentionPasses \/ JanitorLook \/ JanitorDelete \/ JanitorKey
         \/ JanitorCommit \/ JanitorFails \/ UNCHANGED vars
  PROVE  ProvisioningInv'
<1> USE DEF ProvisioningInv, TypeOK, Knowledge, KeyCourse, ServiceCourse, RowCourse, CleanCourse,
        EndCourse, CreatedIsComplete, PlainFailureIsClean, WorkSteps, CleanupSteps, KeyedSteps,
        StoringSteps, AllFinished, Alive, Ended, upstreamVars, tableVars, janitorVars
<1>1. CASE EndOperation
  BY <1>1 DEF EndOperation
<1>2. CASE RetentionPasses
  BY <1>2 DEF RetentionPasses
<1>3. CASE JanitorLook
  BY <1>3 DEF JanitorLook
<1>7. CASE JanitorCommit
  BY <1>7 DEF JanitorCommit
<1>8. CASE JanitorFails
  BY <1>8 DEF JanitorFails
<1>4. CASE JanitorDelete
  BY <1>4 DEF JanitorDelete
<1>5. CASE JanitorKey
  BY <1>5 DEF JanitorKey
<1>6. CASE UNCHANGED vars
  BY <1>6 DEF vars
<1> QED  BY <1>1, <1>2, <1>3, <1>4, <1>5, <1>6, <1>7, <1>8

(* At first there is nothing. *)
LEMMA InitProvisioning == Init => ProvisioningInv
<1> SUFFICES ASSUME Init PROVE ProvisioningInv
  OBVIOUS
<1>1. TypeOK
  BY DEF Init, TypeOK, WorkSteps
<1>2. Knowledge /\ KeyCourse /\ ServiceCourse /\ RowCourse /\ CleanCourse
  BY DEF Init, Knowledge, KeyCourse, ServiceCourse, RowCourse, CleanCourse, KeyedSteps,
     StoringSteps, WorkSteps
<1>3. EndCourse /\ CreatedIsComplete /\ PlainFailureIsClean
  BY DEF Init, EndCourse, CreatedIsComplete, PlainFailureIsClean
<1> QED  BY <1>1, <1>2, <1>3 DEF ProvisioningInv

(* Every step. *)
LEMMA NextProvisioning == ProvisioningInv /\ [Next]_vars => ProvisioningInv'
BY BeginKeeps, EnableKeeps, StoreKeeps, FailKeeps, BesidesKeep DEF Next, Handle

-----------------------------------------------------------------------------
(* What the request and its cleanup rely on at each of their steps, for any set of
   operations Neon starts and whatever fails or gets lost. *)
THEOREM ProvisionedStepByStep == Spec => []ProvisioningInv
BY InitProvisioning, NextProvisioning, PTL DEF Spec

(* Every variable has its type, and a handler that knows its project has nothing
   to wait for. *)
THEOREM ProvisioningTyped == Spec => []TypeOK
<1>1. ProvisioningInv => TypeOK
  BY DEF ProvisioningInv
<1> QED  BY <1>1, ProvisionedStepByStep, PTL

(* A 201 is backed by the whole of it, also after the janitor has been there. *)
THEOREM CreatedInFull == Spec => []CreatedIsComplete
<1>1. ProvisioningInv => CreatedIsComplete
  BY DEF ProvisioningInv
<1> QED  BY <1>1, ProvisionedStepByStep, PTL

(* An error that does not admit to an incomplete cleanup left nothing behind. *)
THEOREM FailedInFull == Spec => []PlainFailureIsClean
<1>1. ProvisioningInv => PlainFailureIsClean
  BY DEF ProvisioningInv
<1> QED  BY <1>1, ProvisionedStepByStep, PTL

(* No key is minted and nothing is enabled before the last operation of the
   project's creation has finished, however many there are. *)
THEOREM FinishedBeforeKey == Spec => []ReadyBeforeKey
<1>1. ProvisioningInv => ReadyBeforeKey
  BY DEF ProvisioningInv, Knowledge, AllFinished, ReadyBeforeKey
<1> QED  BY <1>1, ProvisionedStepByStep, PTL
=============================================================================
