------------------------ MODULE ClaimCeremonyProofs ------------------------
(***************************************************************************)
(* Theorems about ClaimCeremony, for any number of workers, claim codes    *)
(* and instants, and with SQL backends that may drop: the types, the       *)
(* teardown before a transfer is offered, the end of what an agent is      *)
(* handed, and the order of the claim codes.                               *)
(***************************************************************************)
EXTENDS ClaimCeremony, TLAPS

-----------------------------------------------------------------------------
(* What a worker can hold and where it can stand. *)

(* The steps of ClaimCeremony by name, the one that carries a scope apart. *)
LEMMA StepsNamed ==
  /\
     {"exchangeRead", "opCall", "opRecord", "delProject", "delKey",
      "delTokens", "delMark", "delRegistration", "issueWait", "issueOwner",
      "issueClose", "issueInsert", "submitWait", "freeze", "setPending",
      "revokeKey", "markKey", "resetRoles", "disable", "compare", "reenable",
      "markDerived", "revokeAccess", "enable", "createTransfer",
      "startTransfer", "pollOwner", "pollMarkAttempt",
      "pollMarkRegistration", "pollReconcile", "purgeOwner", "purgeDelete",
      "purgeKey", "purgeCommit"}
       \subseteq Steps \ {"exchangeRecord"}
  /\ "exchangeRecord" \in Steps
BY DEF Steps, AgentSteps, IssueSteps, SubmitSteps, PollSteps, PurgeSteps

(* An idle worker's locals are locals. *)
LEMMA NoLocalsTyped == NoLocals \in Locals
BY StoreAssumption DEF NoLocals, Locals, MaxRotations, Readings

(* So are those of a handler that has read one thing. *)
LEMMA SeesTyped ==
  ASSUME NEW x \in Readings
  PROVE  /\ [NoLocals EXCEPT !.sees = x] \in Locals
         /\ [NoLocals EXCEPT !.sees = x].sees = x
BY NoLocalsTyped DEF NoLocals, Locals

(* So are those of a handler that works on one attempt. *)
LEMMA AttTyped ==
  ASSUME NEW a \in 0..MaxAttempts
  PROVE  [NoLocals EXCEPT !.att = a] \in Locals
BY NoLocalsTyped DEF NoLocals, Locals

-----------------------------------------------------------------------------
(* The four ways a handler's step ends keep the types of the handlers. *)

(* Goto: the next step, with the same locals. *)
LEMMA GotoTyped ==
  ASSUME HandlersTyped,
         NEW w \in Workers, NEW step \in Steps \ {"exchangeRecord"},
         Goto(w, step)
  PROVE  HandlersTyped'
BY DEF HandlersTyped, Goto

(* GotoWith: the next step, with new locals. *)
LEMMA GotoWithTyped ==
  ASSUME HandlersTyped,
         NEW w \in Workers, NEW step \in Steps, NEW locals \in Locals,
         step = "exchangeRecord" => locals.sees \in {"full", "empty"},
         GotoWith(w, step, locals)
  PROVE  HandlersTyped'
BY DEF HandlersTyped, GotoWith

(* Acquire: the handler takes the lock and its time. *)
LEMMA AcquireTyped ==
  ASSUME HandlersTyped,
         NEW w \in Workers, NEW step \in Steps \ {"exchangeRecord"},
         NEW locals \in Locals,
         Acquire(w, step, locals)
  PROVE  HandlersTyped'
<1>1. [locals EXCEPT !.since = now] \in Locals
  BY DEF HandlersTyped, Locals
<1> QED
  BY <1>1 DEF HandlersTyped, Acquire

(* Finish: the handler is idle again. *)
LEMMA FinishTyped ==
  ASSUME HandlersTyped, NEW w \in Workers, Finish(w)
  PROVE  HandlersTyped'
BY NoLocalsTyped DEF HandlersTyped, Finish, Steps

(* Writing a state into one attempt keeps the attempts' states typed. *)
LEMMA AttStateTyped ==
  ASSUME attState \in [AttemptIds -> AttemptStates], NEW a, NEW s \in AttemptStates,
         attState' = [attState EXCEPT ![a] = s]
  PROVE  attState' \in [AttemptIds -> AttemptStates]
OBVIOUS

-----------------------------------------------------------------------------
(* Type correctness, one lemma for each component. *)

(* The agent's requests keep every type. *)
LEMMA AgentTyped ==
  ASSUME TypeOK, NEW w \in Workers,
         ExchangeVerify(w) \/ OpBegin(w) \/ DeleteBegin(w) \/ AgentProgress(w)
  PROVE  TypeOK'
<1> USE DEF TypeOK, RowsTyped, AttemptsTyped, ProjectTyped,
            registrationVars, secretVars, tokenVars, attemptVars,
            projectVars, databaseVars
<1>1. CASE ExchangeVerify(w)
  BY <1>1, GotoTyped, StepsNamed DEF ExchangeVerify
<1>2. CASE ExchangeRead(w)
  <2>1. /\ [NoLocals EXCEPT !.sees = "full"] \in Locals
        /\ [NoLocals EXCEPT !.sees = "full"].sees = "full"
        /\ [NoLocals EXCEPT !.sees = "empty"] \in Locals
        /\ [NoLocals EXCEPT !.sees = "empty"].sees = "empty"
    BY SeesTyped DEF Readings
  <2> QED
    BY <1>2, <2>1, GotoWithTyped, StepsNamed DEF ExchangeRead
<1>3. CASE ExchangeRecord(w)
  <2>1. mine[w].sees \in {"full", "empty"}
    BY <1>3 DEF ExchangeRecord, HandlersTyped
  <2>2. accessLive' \subseteq {"full", "empty"}
    BY <1>3, <2>1 DEF ExchangeRecord
  <2>3. HandlersTyped'
    BY <1>3, FinishTyped DEF ExchangeRecord
  <2> QED
    BY <1>3, <2>2, <2>3 DEF ExchangeRecord
<1>4. CASE OpBegin(w)
  BY <1>4, AcquireTyped, NoLocalsTyped, StepsNamed DEF OpBegin
<1>5. CASE OpCall(w)
  BY <1>5, GotoTyped, StepsNamed DEF OpCall
<1>6. CASE HandOutRecorded(w)
  BY <1>6, FinishTyped DEF HandOutRecorded
<1>7. CASE HandOutUnrecorded(w)
  BY <1>7, FinishTyped DEF HandOutUnrecorded
<1>8. CASE DeleteBegin(w)
  BY <1>8, AcquireTyped, NoLocalsTyped, StepsNamed DEF DeleteBegin
<1>9. CASE DeleteProject(w)
  BY <1>9, GotoTyped, StepsNamed DEF DeleteProject
<1>10. CASE DeleteKey(w)
  BY <1>10, GotoTyped, StepsNamed DEF DeleteKey
<1>11. CASE DeleteTokens(w)
  BY <1>11, GotoTyped, StepsNamed DEF DeleteTokens
<1>12. CASE DeleteMark(w)
  BY <1>12, GotoTyped, StepsNamed DEF DeleteMark
<1>13. CASE DeleteRegistration(w)
  BY <1>13, FinishTyped DEF DeleteRegistration
<1> QED
  BY <1>1, <1>2, <1>3, <1>4, <1>5, <1>6, <1>7, <1>8, <1>9, <1>10, <1>11,
     <1>12, <1>13 DEF AgentProgress

(* The agent's other moves change one token, one session or one password. *)
LEMMA AgentMovesTyped ==
  ASSUME TypeOK, RevokeToken \/ Connect \/ AlterRoles
  PROVE  TypeOK'
<1> USE DEF TypeOK, RowsTyped, AttemptsTyped, ProjectTyped, HandlersTyped,
            registrationVars, secretVars, tokenVars, attemptVars,
            projectVars, databaseVars
<1>1. CASE RevokeToken
  <2>1. accessLive' \subseteq {"full", "empty"} /\ assertionLive' \in BOOLEAN
    BY <1>1 DEF RevokeToken
  <2> QED
    BY <1>1, <2>1 DEF RevokeToken, handlerVars
<1>2. CASE Connect
  BY <1>2 DEF Connect, handlerVars
<1>3. CASE AlterRoles
  BY <1>3 DEF AlterRoles
<1> QED
  BY <1>1, <1>2, <1>3

(* Minting a code keeps every type. *)
LEMMA IssueTyped ==
  ASSUME TypeOK, NEW w \in Workers,
         IssueVerify(w) \/ IssueProgress(w)
  PROVE  TypeOK'
<1> USE DEF TypeOK, RowsTyped, AttemptsTyped, ProjectTyped,
            registrationVars, secretVars, tokenVars, attemptVars,
            projectVars, databaseVars
<1>1. CASE IssueVerify(w)
  <2>1. /\ [NoLocals EXCEPT !.sees = "assertion"] \in Locals
        /\ [NoLocals EXCEPT !.sees = "access"] \in Locals
    BY SeesTyped DEF Readings
  <2> QED
    BY <1>1, <2>1, GotoWithTyped, StepsNamed DEF IssueVerify
<1>2. CASE IssueDecide(w)
  <2>1. IssuanceDecision \in Decisions
    BY DEF IssuanceDecision, Decisions, ClaimStates
  <2>2. [NoLocals EXCEPT !.sees = IssuanceDecision] \in Locals
    BY <2>1, SeesTyped DEF Readings
  <2>3. AfterDecision(IssuanceDecision) \in {"issueInsert", "issueClose"}
    BY DEF AfterDecision
  <2>4. (IF frozen THEN "issueOwner" ELSE AfterDecision(IssuanceDecision))
          \in Steps \ {"exchangeRecord"}
    BY <2>3, StepsNamed
  <2> QED
    BY <1>2, <2>2, <2>4, AcquireTyped DEF IssueDecide
<1>3. CASE IssueOwner(w)
  BY <1>3, GotoTyped, StepsNamed DEF IssueOwner, AfterDecision
<1>4. CASE IssueClose(w)
  <2>1. (IF mine[w].sees = "expire" THEN "expired" ELSE "cancelled") \in AttemptStates
    BY DEF AttemptStates
  <2>2. attState' \in [AttemptIds -> AttemptStates]
    BY <1>4, <2>1, AttStateTyped DEF IssueClose
  <2> QED
    BY <1>4, <2>2, GotoTyped, StepsNamed DEF IssueClose
<1>5. CASE IssueInsert(w)
  BY <1>5, FinishTyped, StoreAssumption DEF IssueInsert, HandlersTyped,
     AttemptIds, AttemptStates
<1> QED
  BY <1>1, <1>2, <1>3, <1>4, <1>5 DEF IssueProgress

(* Redeeming a code keeps every type; the rotations stay within their bound. *)
LEMMA SubmitTyped ==
  ASSUME TypeOK, NEW w \in Workers,
         SubmitFind(w) \/ SubmitProgress(w)
  PROVE  TypeOK'
<1> USE DEF TypeOK, RowsTyped, AttemptsTyped, ProjectTyped,
            registrationVars, secretVars, tokenVars, attemptVars,
            projectVars, databaseVars
<1>1. CASE SubmitFind(w)
  <2>1. \A a \in AttemptIds : [NoLocals EXCEPT !.att = a] \in Locals
    BY AttTyped, StoreAssumption DEF AttemptIds
  <2> QED
    BY <1>1, <2>1, GotoWithTyped, StepsNamed DEF SubmitFind
<1>2. CASE SubmitExpired(w)
  <2>1. attState' \in [AttemptIds -> AttemptStates]
    BY <1>2, AttStateTyped DEF SubmitExpired, AttemptStates
  <2> QED
    BY <1>2, <2>1, FinishTyped DEF SubmitExpired
<1>3. CASE SubmitBegin(w)
  <2>1. [NoLocals EXCEPT !.att = mine[w].att] \in Locals
    BY AttTyped DEF HandlersTyped, Locals
  <2> QED
    BY <1>3, <2>1, AcquireTyped, StepsNamed DEF SubmitBegin
<1>4. CASE FreezeIssuance(w)
  BY <1>4, GotoTyped, StepsNamed DEF FreezeIssuance
<1>5. CASE SetPending(w)
  BY <1>5, GotoTyped, StepsNamed DEF SetPending, ClaimStates
<1>6. CASE RevokeKey(w)
  BY <1>6, GotoTyped, StepsNamed DEF RevokeKey
<1>7. CASE MarkKey(w)
  BY <1>7, GotoTyped, StepsNamed DEF MarkKey
<1>8. CASE ResetRoles(w)
  <2>1. pc' \in [Workers -> Steps]
    BY <1>8, StepsNamed DEF ResetRoles, HandlersTyped
  <2>2. \A v \in Workers : pc'[v] = "exchangeRecord" => pc[v] = "exchangeRecord"
    BY <1>8 DEF ResetRoles, HandlersTyped
  <2>3. HandlersTyped'
    BY <1>8, <2>1, <2>2 DEF ResetRoles, HandlersTyped
  <2> QED
    BY <1>8, <2>3 DEF ResetRoles
<1>9. CASE DisableCompute(w)
  BY <1>9, GotoTyped, StepsNamed DEF DisableCompute
<1>10. CASE RolesUnchanged(w)
  BY <1>10, GotoTyped, StepsNamed DEF RolesUnchanged
<1>11. CASE RolesChanged(w)
  <2>1. mine[w] \in Locals
    BY DEF HandlersTyped
  <2>2. [mine[w] EXCEPT !.tries = mine[w].tries + 1] \in Locals
    BY <1>11, <2>1 DEF RolesChanged, Locals, MaxRotations
  <2> QED
    BY <1>11, <2>2, GotoWithTyped, StepsNamed DEF RolesChanged
<1>12. CASE Reenable(w)
  BY <1>12, GotoTyped, StepsNamed DEF Reenable
<1>13. CASE MarkDerived(w)
  BY <1>13, GotoTyped, StepsNamed DEF MarkDerived
<1>14. CASE RevokeAccess(w)
  BY <1>14, GotoTyped, StepsNamed DEF RevokeAccess
<1>15. CASE EnableCompute(w)
  BY <1>15, GotoTyped, StepsNamed DEF EnableCompute
<1>16. CASE CreateTransfer(w)
  <2>1. mine[w] \in Locals /\ now + AttemptTTL \in Nat
    BY StoreAssumption DEF HandlersTyped
  <2>2. [mine[w] EXCEPT !.offer = now + AttemptTTL] \in Locals
    BY <2>1 DEF Locals
  <2> QED
    BY <1>16, <2>2, GotoWithTyped, StepsNamed DEF CreateTransfer
<1>17. CASE StartTransfer(w)
  <2>1. mine[w].offer \in Nat
    BY DEF HandlersTyped, Locals
  <2>2. attOffered' \in [AttemptIds -> BOOLEAN] /\ attExpires' \in [AttemptIds -> Nat]
    BY <1>17, <2>1 DEF StartTransfer
  <2> QED
    BY <1>17, <2>2, FinishTyped DEF StartTransfer
<1> QED
  BY <1>1, <1>2, <1>3, <1>4, <1>5, <1>6, <1>7, <1>8, <1>9, <1>10, <1>11,
     <1>12, <1>13, <1>14, <1>15, <1>16, <1>17 DEF SubmitProgress

(* Accepting the transfer moves the project. *)
LEMMA AcceptTyped ==
  ASSUME TypeOK, AcceptTransfer
  PROVE  TypeOK'
BY DEF AcceptTransfer, TypeOK, RowsTyped, AttemptsTyped, ProjectTyped,
       HandlersTyped, handlerVars, registrationVars, secretVars, tokenVars,
       attemptVars, databaseVars

(* A status poll keeps every type. *)
LEMMA PollTyped ==
  ASSUME TypeOK, NEW w \in Workers,
         PollExpired(w) \/ PollPending(w) \/ PollAccepted(w) \/ PollProgress(w)
  PROVE  TypeOK'
<1> USE DEF TypeOK, RowsTyped, AttemptsTyped, ProjectTyped,
            registrationVars, secretVars, tokenVars, attemptVars,
            projectVars, databaseVars
<1>1. CASE PollExpired(w)
  <2>1. attState' \in [AttemptIds -> AttemptStates]
    BY <1>1, AttStateTyped DEF PollExpired, AttemptStates
  <2> QED
    BY <1>1, <2>1, FinishTyped DEF PollExpired
<1>2. CASE PollPending(w)
  <2>1. [NoLocals EXCEPT !.att = Latest] \in Locals
    BY AttTyped DEF Latest
  <2> QED
    BY <1>2, <2>1, AcquireTyped, StepsNamed DEF PollPending
<1>3. CASE PollAccepted(w)
  <2>1. [NoLocals EXCEPT !.att = Latest] \in Locals
    BY AttTyped DEF Latest
  <2> QED
    BY <1>3, <2>1, AcquireTyped, StepsNamed DEF PollAccepted
<1>4. CASE PollOwner(w)
  BY <1>4, GotoTyped, StepsNamed DEF PollOwner
<1>5. CASE PollMarkAttempt(w)
  <2>1. attState' \in [AttemptIds -> AttemptStates]
    BY <1>5, AttStateTyped DEF PollMarkAttempt, AttemptStates
  <2> QED
    BY <1>5, <2>1, GotoTyped, StepsNamed DEF PollMarkAttempt
<1>6. CASE PollMarkRegistration(w)
  BY <1>6, GotoTyped, StepsNamed DEF PollMarkRegistration, ClaimStates
<1>7. CASE PollReconcile(w)
  <2>1. attState' \in [AttemptIds -> AttemptStates]
    BY <1>7, AttStateTyped DEF PollReconcile, AttemptStates
  <2> QED
    BY <1>7, <2>1, FinishTyped DEF PollReconcile, ClaimStates
<1> QED
  BY <1>1, <1>2, <1>3, <1>4, <1>5, <1>6, <1>7 DEF PollProgress

(* A janitor run keeps every type. *)
LEMMA PurgeTyped ==
  ASSUME TypeOK, NEW w \in Workers,
         PurgeBegin(w) \/ PurgeProgress(w)
  PROVE  TypeOK'
<1> USE DEF TypeOK, RowsTyped, AttemptsTyped, ProjectTyped,
            registrationVars, secretVars, tokenVars, attemptVars,
            projectVars, databaseVars
<1>1. CASE PurgeBegin(w)
  <2>1. /\ [NoLocals EXCEPT !.sees = "begun"] \in Locals
        /\ [NoLocals EXCEPT !.sees = "none"] \in Locals
    BY SeesTyped DEF Readings
  <2> QED
    BY <1>1, <2>1, AcquireTyped, StepsNamed DEF PurgeBegin
<1>2. CASE PurgeOwner(w)
  <2>1. PurgeDecision(w) \in Readings /\ mine[w] \in Locals
    BY DEF PurgeDecision, Readings, HandlersTyped
  <2>2. [mine[w] EXCEPT !.sees = PurgeDecision(w)] \in Locals
    BY <2>1 DEF Locals
  <2> QED
    BY <1>2, <2>2, GotoWithTyped, StepsNamed DEF PurgeOwner
<1>3. CASE PurgeDelete(w)
  <2>1. HandlersTyped'
    BY <1>3, GotoTyped, StepsNamed DEF PurgeDelete
  <2>2. CASE owner = "holding"
    BY <1>3, <2>1, <2>2 DEF PurgeDelete
  <2>3. CASE owner # "holding"
    BY <1>3, <2>1, <2>3 DEF PurgeDelete
  <2> QED
    BY <2>2, <2>3
<1>4. CASE PurgeKey(w)
  BY <1>4, GotoTyped, StepsNamed DEF PurgeKey
<1>5. CASE PurgeCommit(w)
  BY <1>5, FinishTyped DEF PurgeCommit, ClaimStates
<1> QED
  BY <1>1, <1>2, <1>3, <1>4, <1>5 DEF PurgeProgress

(* So do a failing handler, a dropped backend and the clock. *)
LEMMA EnvironmentTyped ==
  ASSUME TypeOK, (\E w \in Workers : Abort(w) \/ DropBackend(w)) \/ Tick
  PROVE  TypeOK'
<1> USE DEF TypeOK, RowsTyped, AttemptsTyped, ProjectTyped,
            registrationVars, secretVars, tokenVars, attemptVars,
            projectVars, databaseVars
<1>1. ASSUME NEW w \in Workers, Abort(w) PROVE TypeOK'
  BY <1>1, FinishTyped DEF Abort
<1>2. ASSUME NEW w \in Workers, DropBackend(w) PROVE TypeOK'
  BY <1>2 DEF DropBackend, HandlersTyped
<1>3. CASE Tick
  BY <1>3 DEF Tick, HandlersTyped, handlerVars
<1> QED
  BY <1>1, <1>2, <1>3

(* Initially, every variable has its type. *)
LEMMA InitTyped == Init => TypeOK
<1> SUFFICES ASSUME Init PROVE TypeOK
  OBVIOUS
<1> USE DEF Init, StoreInit
<1>1. RowsTyped
  BY DEF RowsTyped, ClaimStates
<1>2. AttemptsTyped
  BY StoreAssumption DEF AttemptsTyped, AttemptStates
<1>3. ProjectTyped
  BY DEF ProjectTyped
<1>4. HandlersTyped
  BY NoLocalsTyped DEF HandlersTyped, Steps
<1> QED
  BY <1>1, <1>2, <1>3, <1>4 DEF TypeOK

(* Every step keeps every type. *)
LEMMA NextTyped == TypeOK /\ [Next]_vars => TypeOK'
<1> SUFFICES ASSUME TypeOK, [Next]_vars PROVE TypeOK'
  OBVIOUS
<1>1. CASE AgentNext
  BY <1>1, AgentTyped, AgentMovesTyped DEF AgentNext
<1>2. CASE IssueNext
  BY <1>2, IssueTyped DEF IssueNext
<1>3. CASE SubmitNext
  BY <1>3, SubmitTyped, AcceptTyped DEF SubmitNext
<1>4. CASE PollNext
  BY <1>4, PollTyped DEF PollNext
<1>5. CASE PurgeNext
  BY <1>5, PurgeTyped DEF PurgeNext
<1>6. CASE (\E w \in Workers : Abort(w) \/ DropBackend(w)) \/ Tick
  BY <1>6, EnvironmentTyped
<1>7. CASE UNCHANGED vars
  BY <1>7 DEF vars, TypeOK, RowsTyped, AttemptsTyped, ProjectTyped,
     HandlersTyped
<1> QED
  BY <1>1, <1>2, <1>3, <1>4, <1>5, <1>6, <1>7 DEF Next

(* Whatever the handlers do and however they fail, rows, project and workers
   keep their types: among them, that a submit rotates the roles of a project
   at most MaxRotations times, and that a token to be recorded has a scope. *)
THEOREM TypeCorrect == Spec => []TypeOK
<1>1. Init => TypeOK
  BY InitTyped
<1>2. TypeOK /\ [Next]_vars => TypeOK'
  BY NextTyped
<1> QED
  BY <1>1, <1>2, PTL DEF Spec

-----------------------------------------------------------------------------
(* The teardown. *)

(* Worker w moves to a step, however its locals change. *)
MovesTo(w, step) ==
  /\ pc' = [pc EXCEPT ![w] = step]
  /\ lock' \in {lock, w, NoOne}
  /\ fresh' \subseteq fresh \cup {w}

(* What the teardown established is not undone: secrets only die, only the
   holder of the lock freezes, a key that is marked is dead, and a transfer
   request appears behind a finished teardown. *)
UndoesNothing(w) ==
  /\ frozen' = frozen \/ (frozen' /\ lock' = w)
  /\ keyMarked => keyMarked'
  /\ keyMarked' => keyMarked \/ ~keyLive'
  /\ keyLive' => keyLive
  /\ derivedLive' => derivedLive
  /\ knownPw' => knownPw
  /\ session' => session
  /\ owner' # owner => owner' # "human"
  /\ \A a \in AttemptIds : attOffered[a] => attOffered'[a]
  /\ Offered' => Offered \/ (frozen /\ keyMarked /\ ~knownPw /\ ~session /\ ~derivedLive)

(* What TeardownInv asks of a worker at a step. *)
Ready(w, step) ==
  /\ step \in FrozenSteps => frozen
  /\ step \in {"opCall", "opRecord"} /\ lock = w => ~frozen
  /\ step \in KeyDeadSteps => ~keyLive
  /\ step \in KeyMarkedSteps => keyMarked
  /\ step = "disable" /\ w \in fresh => ~knownPw
  /\ step = "compare" /\ w \in fresh => ~knownPw /\ ~session
  /\ step \in QuietSteps => ~knownPw /\ ~session
  /\ step \in SettledSteps => ~derivedLive

(* The steps it asks nothing for. *)
PlainSteps == Steps \ (FrozenSteps \cup KeyDeadSteps \cup {"opCall", "opRecord"})

(* Each of the four ways a step ends is a move. *)
LEMMA HelpersMove ==
  ASSUME NEW w, NEW step, NEW locals
  PROVE  /\ Goto(w, step) => MovesTo(w, step) /\ lock' = lock /\ fresh' = fresh
         /\ GotoWith(w, step, locals) => MovesTo(w, step) /\ lock' = lock /\ fresh' = fresh
         /\ Acquire(w, step, locals) => MovesTo(w, step)
         /\ Finish(w) => MovesTo(w, "idle")
BY DEF Goto, GotoWith, Acquire, Finish, MovesTo

(* A worker is ready for a plain step. *)
LEMMA PlainIsReady ==
  ASSUME NEW w, NEW step \in PlainSteps
  PROVE  Ready(w, step)'
BY DEF PlainSteps, Ready, KeyMarkedSteps, QuietSteps, SettledSteps,
   FrozenSteps, SubmitSteps

(* A move that undoes nothing to a step the worker is ready for. *)
LEMMA SafeMove ==
  ASSUME TypeOK, TeardownInv, NEW w \in Workers, NEW step,
         MovesTo(w, step), UndoesNothing(w), Ready(w, step)'
  PROVE  TeardownInv'
<1> USE DEF MovesTo, UndoesNothing, TypeOK, HandlersTyped
<1>1. FreezeInv'
  BY StoreAssumption DEF TeardownInv, FreezeInv, Ready, RowsTyped
<1>2. KeyInv'
  BY DEF TeardownInv, KeyInv, Ready
<1>3. AccessInv'
  BY DEF TeardownInv, AccessInv, Ready
<1>4. OfferInv'
  BY DEF TeardownInv, OfferInv, Offered, RowsTyped
<1> QED
  BY <1>1, <1>2, <1>3, <1>4 DEF TeardownInv
(* The plain steps by name. *)
LEMMA PlainNamed ==
  {"delKey", "delProject", "delRegistration", "exchangeRead",
   "exchangeRecord", "freeze", "idle", "issueClose", "issueInsert",
   "issueOwner", "issueWait", "pollMarkAttempt", "pollMarkRegistration",
   "pollOwner", "pollReconcile", "purgeDelete", "purgeKey", "purgeOwner",
   "submitWait"}
    \subseteq PlainSteps
BY DEF PlainSteps, Steps, FrozenSteps, KeyDeadSteps, AgentSteps, IssueSteps,
       SubmitSteps, PollSteps, PurgeSteps

(* A secret handed out before the freeze finds no teardown under way. *)
LEMMA HandOutSafe ==
  ASSUME TypeOK, TeardownInv, NEW w \in Workers, MovesTo(w, "idle"), ~frozen,
         UNCHANGED <<frozen, keyMarked, attOffered, owner, keyLive, session>>
  PROVE  TeardownInv'
<1> USE DEF MovesTo, TypeOK, HandlersTyped
<1>1. \A v \in Workers : pc'[v] \notin FrozenSteps
  BY DEF TeardownInv, FreezeInv, FrozenSteps, SubmitSteps
<1>2. ~Offered' /\ owner' # "human"
  BY DEF TeardownInv, OfferInv, Offered
<1>3. FreezeInv'
  BY <1>1 DEF FreezeInv
<1>4. KeyInv'
  BY <1>1 DEF TeardownInv, KeyInv, KeyDeadSteps, KeyMarkedSteps
<1>5. AccessInv'
  BY <1>1 DEF AccessInv, FrozenSteps, SubmitSteps, QuietSteps, SettledSteps
<1>6. OfferInv'
  BY <1>2 DEF OfferInv
<1> QED
  BY <1>3, <1>4, <1>5, <1>6 DEF TeardownInv

(* The agent's requests respect the teardown. *)
LEMMA AgentTeardown ==
  ASSUME TypeOK, TeardownInv, NEW w \in Workers,
         ExchangeVerify(w) \/ OpBegin(w) \/ DeleteBegin(w) \/ AgentProgress(w)
  PROVE  TeardownInv'
<1> USE DEF registrationVars, secretVars, tokenVars, attemptVars,
            projectVars, databaseVars
<1>1. CASE ExchangeVerify(w)
  <2>1. MovesTo(w, "exchangeRead") /\ UndoesNothing(w)
    BY <1>1, HelpersMove DEF ExchangeVerify, UndoesNothing, Offered
  <2> QED
    BY <2>1, PlainNamed, PlainIsReady, SafeMove
<1>2. CASE ExchangeRead(w)
  <2>1. MovesTo(w, "exchangeRecord") /\ UndoesNothing(w)
    BY <1>2, HelpersMove DEF ExchangeRead, UndoesNothing, Offered
  <2> QED
    BY <2>1, PlainNamed, PlainIsReady, SafeMove
<1>3. CASE ExchangeRecord(w)
  <2>1. MovesTo(w, "idle") /\ UndoesNothing(w)
    BY <1>3, HelpersMove DEF ExchangeRecord, UndoesNothing, Offered
  <2> QED
    BY <2>1, PlainNamed, PlainIsReady, SafeMove
<1>4. CASE OpBegin(w)
  <2>1. MovesTo(w, "opCall") /\ UndoesNothing(w)
    BY <1>4, HelpersMove DEF OpBegin, UndoesNothing, Offered
  <2>2. Ready(w, "opCall")'
    BY <1>4, HelpersMove DEF OpBegin, Ready, Authenticated,
       KeyDeadSteps, KeyMarkedSteps, QuietSteps, SettledSteps, FrozenSteps,
       SubmitSteps
  <2> QED
    BY <2>1, <2>2, SafeMove
<1>5. CASE OpCall(w)
  <2>1. MovesTo(w, "opRecord") /\ UndoesNothing(w)
    BY <1>5, HelpersMove DEF OpCall, UndoesNothing, Offered
  <2>2. Ready(w, "opRecord")'
    BY <1>5, HelpersMove DEF OpCall, Ready,
       TeardownInv, FreezeInv,
       KeyDeadSteps, KeyMarkedSteps, QuietSteps, SettledSteps, FrozenSteps,
       SubmitSteps
  <2> QED
    BY <2>1, <2>2, SafeMove
<1>6. CASE HandOutRecorded(w)
  <2>1. ~frozen
    BY <1>6 DEF HandOutRecorded, Holds, TeardownInv, FreezeInv
  <2> QED
    BY <1>6, <2>1, HandOutSafe, HelpersMove DEF HandOutRecorded
<1>7. CASE HandOutUnrecorded(w)
  <2>1. ~frozen
    BY <1>7 DEF HandOutUnrecorded, Holds, TeardownInv, FreezeInv
  <2> QED
    BY <1>7, <2>1, HandOutSafe, HelpersMove DEF HandOutUnrecorded
<1>8. CASE DeleteBegin(w)
  <2>1. MovesTo(w, "delProject") /\ UndoesNothing(w)
    BY <1>8, HelpersMove DEF DeleteBegin, UndoesNothing, Offered
  <2> QED
    BY <2>1, PlainNamed, PlainIsReady, SafeMove
<1>9. CASE DeleteProject(w)
  <2>1. MovesTo(w, "delKey") /\ UndoesNothing(w)
    BY <1>9, HelpersMove DEF DeleteProject, UndoesNothing, Offered
  <2> QED
    BY <2>1, PlainNamed, PlainIsReady, SafeMove
<1>10. CASE DeleteKey(w)
  <2>1. MovesTo(w, "delTokens") /\ UndoesNothing(w)
    BY <1>10, HelpersMove DEF DeleteKey, UndoesNothing, Offered
  <2>2. Ready(w, "delTokens")'
    BY <1>10, HelpersMove DEF DeleteKey, Ready,
       KeyDeadSteps, KeyMarkedSteps, QuietSteps, SettledSteps, FrozenSteps,
       SubmitSteps
  <2> QED
    BY <2>1, <2>2, SafeMove
<1>11. CASE DeleteTokens(w)
  <2>1. MovesTo(w, "delMark") /\ UndoesNothing(w)
    BY <1>11, HelpersMove DEF DeleteTokens, UndoesNothing, Offered
  <2>2. Ready(w, "delMark")'
    BY <1>11, HelpersMove DEF DeleteTokens, Ready,
       TeardownInv, KeyInv,
       KeyDeadSteps, KeyMarkedSteps, QuietSteps, SettledSteps, FrozenSteps,
       SubmitSteps
  <2> QED
    BY <2>1, <2>2, SafeMove
<1>12. CASE DeleteMark(w)
  <2>1. ~keyLive
    BY <1>12 DEF DeleteMark, TeardownInv, KeyInv, KeyDeadSteps, FrozenSteps,
       SubmitSteps
  <2>2. MovesTo(w, "delRegistration") /\ UndoesNothing(w)
    BY <1>12, <2>1, HelpersMove DEF DeleteMark, UndoesNothing, Offered
  <2> QED
    BY <2>2, PlainNamed, PlainIsReady, SafeMove
<1>13. CASE DeleteRegistration(w)
  <2>1. MovesTo(w, "idle") /\ UndoesNothing(w)
    BY <1>13, HelpersMove DEF DeleteRegistration, UndoesNothing, Offered
  <2> QED
    BY <2>1, PlainNamed, PlainIsReady, SafeMove
<1> QED
  BY <1>1, <1>2, <1>3, <1>4, <1>5, <1>6, <1>7, <1>8, <1>9, <1>10, <1>11,
     <1>12, <1>13 DEF AgentProgress

(* So does minting a code. *)
LEMMA IssueTeardown ==
  ASSUME TypeOK, TeardownInv, NEW w \in Workers,
         IssueVerify(w) \/ IssueProgress(w)
  PROVE  TeardownInv'
<1> USE DEF registrationVars, secretVars, tokenVars, attemptVars,
            projectVars, databaseVars
<1>1. CASE IssueVerify(w)
  <2>1. MovesTo(w, "issueWait") /\ UndoesNothing(w)
    BY <1>1, HelpersMove DEF IssueVerify, UndoesNothing, Offered
  <2> QED
    BY <2>1, PlainNamed, PlainIsReady, SafeMove
<1>2. CASE IssueDecide(w)
  <2>1. AfterDecision(IssuanceDecision) \in {"issueInsert", "issueClose"}
    BY DEF AfterDecision
  <2>2. PICK step \in {"issueInsert", "issueClose", "issueOwner"} : MovesTo(w, step)
    BY <1>2, <2>1, HelpersMove DEF IssueDecide
  <2>3. UndoesNothing(w)
    BY <1>2 DEF IssueDecide, UndoesNothing, Offered
  <2> QED
    BY <2>2, <2>3, PlainNamed, PlainIsReady, SafeMove
<1>3. CASE IssueOwner(w)
  <2>1. AfterDecision(mine[w].sees) \in {"issueInsert", "issueClose"}
    BY DEF AfterDecision
  <2>2. PICK step \in {"issueInsert", "issueClose"} : MovesTo(w, step)
    BY <1>3, <2>1, HelpersMove DEF IssueOwner
  <2>3. UndoesNothing(w)
    BY <1>3 DEF IssueOwner, UndoesNothing, Offered
  <2> QED
    BY <2>2, <2>3, PlainNamed, PlainIsReady, SafeMove
<1>4. CASE IssueClose(w)
  <2>1. MovesTo(w, "issueInsert") /\ UndoesNothing(w)
    BY <1>4, HelpersMove DEF IssueClose, UndoesNothing, Offered
  <2> QED
    BY <2>1, PlainNamed, PlainIsReady, SafeMove
<1>5. CASE IssueInsert(w)
  <2>1. MovesTo(w, "idle") /\ UndoesNothing(w)
    BY <1>5, HelpersMove DEF IssueInsert, UndoesNothing, Offered
  <2> QED
    BY <2>1, PlainNamed, PlainIsReady, SafeMove
<1> QED
  BY <1>1, <1>2, <1>3, <1>4, <1>5 DEF IssueProgress

(* Each step of a submit finds what it relies on, and adds its part. *)
LEMMA SubmitTeardown ==
  ASSUME TypeOK, TeardownInv, NEW w \in Workers,
         SubmitFind(w) \/ SubmitProgress(w)
  PROVE  TeardownInv'
<1> USE DEF registrationVars, secretVars, tokenVars, attemptVars,
            projectVars, databaseVars
<1>1. CASE SubmitFind(w)
  <2>1. MovesTo(w, "submitWait") /\ UndoesNothing(w)
    BY <1>1, HelpersMove DEF SubmitFind, UndoesNothing, Offered
  <2> QED
    BY <2>1, PlainNamed, PlainIsReady, SafeMove
<1>2. CASE SubmitExpired(w)
  <2>1. MovesTo(w, "idle") /\ UndoesNothing(w)
    BY <1>2, HelpersMove DEF SubmitExpired, UndoesNothing, Offered
  <2> QED
    BY <2>1, PlainNamed, PlainIsReady, SafeMove
<1>3. CASE SubmitBegin(w)
  <2>1. MovesTo(w, "freeze") /\ UndoesNothing(w)
    BY <1>3, HelpersMove DEF SubmitBegin, UndoesNothing, Offered
  <2> QED
    BY <2>1, PlainNamed, PlainIsReady, SafeMove
<1>4. CASE FreezeIssuance(w)
  <2>1. MovesTo(w, "setPending") /\ lock' = lock
    BY <1>4, HelpersMove DEF FreezeIssuance
  <2>2. UndoesNothing(w)
    BY <1>4, <2>1 DEF FreezeIssuance, Holds, UndoesNothing, Offered
  <2>3. Ready(w, "setPending")'
    BY <1>4 DEF FreezeIssuance, Ready, KeyDeadSteps, KeyMarkedSteps, QuietSteps,
                SettledSteps
  <2> QED
    BY <2>1, <2>2, <2>3, SafeMove
<1>5. CASE SetPending(w)
  <2>1. PICK step \in {"resetRoles", "revokeKey"} :
          MovesTo(w, step) /\ (step = "resetRoles" => keyMarked)
    BY <1>5, HelpersMove DEF SetPending
  <2>2. UndoesNothing(w)
    BY <1>5 DEF SetPending, UndoesNothing, Offered
  <2>3. frozen
    BY <1>5 DEF SetPending, TeardownInv, FreezeInv, FrozenSteps, SubmitSteps
  <2>4. keyMarked => ~keyLive
    BY DEF TeardownInv, KeyInv
  <2>5. Ready(w, step)'
    BY <1>5, <2>1, <2>3, <2>4
    DEF SetPending, Ready, KeyDeadSteps, KeyMarkedSteps, QuietSteps,
    SettledSteps,
        FrozenSteps, SubmitSteps
  <2> QED
    BY <2>1, <2>2, <2>5, SafeMove
<1>6. CASE RevokeKey(w)
  <2>1. MovesTo(w, "markKey") /\ UndoesNothing(w)
    BY <1>6, HelpersMove DEF RevokeKey, UndoesNothing, Offered
  <2>2. Ready(w, "markKey")'
    BY <1>6, HelpersMove DEF RevokeKey, Ready,
       TeardownInv, FreezeInv,
       KeyDeadSteps, KeyMarkedSteps, QuietSteps, SettledSteps, FrozenSteps,
       SubmitSteps
  <2> QED
    BY <2>1, <2>2, SafeMove
<1>7. CASE MarkKey(w)
  <2>1. ~keyLive
    BY <1>7 DEF MarkKey, TeardownInv, KeyInv, KeyDeadSteps, FrozenSteps,
       SubmitSteps
  <2>2. MovesTo(w, "resetRoles") /\ UndoesNothing(w)
    BY <1>7, <2>1, HelpersMove DEF MarkKey, UndoesNothing, Offered
  <2>3. frozen
    BY <1>7 DEF MarkKey, TeardownInv, FreezeInv, FrozenSteps, SubmitSteps
  <2>4. Ready(w, "resetRoles")'
    BY <1>7, <2>1, <2>3 DEF MarkKey, Ready, QuietSteps, SettledSteps
  <2> QED
    BY <2>2, <2>4, SafeMove
<1>8. CASE ResetRoles(w)
  <2>1. MovesTo(w, "disable")
    BY <1>8 DEF ResetRoles, MovesTo
  <2>2. UndoesNothing(w)
    BY <1>8 DEF ResetRoles, UndoesNothing, Offered
  <2>3. frozen /\ keyMarked /\ ~keyLive
    BY <1>8 DEF ResetRoles, TeardownInv, FreezeInv, KeyInv, KeyMarkedSteps,
                FrozenSteps, SubmitSteps
  <2>4. Ready(w, "disable")'
    BY <1>8, <2>3 DEF ResetRoles, Ready, QuietSteps, SettledSteps
  <2> QED
    BY <2>1, <2>2, <2>4, SafeMove
<1>9. CASE DisableCompute(w)
  <2>1. MovesTo(w, "compare") /\ UndoesNothing(w)
    BY <1>9, HelpersMove DEF DisableCompute, UndoesNothing, Offered
  <2>2. Ready(w, "compare")'
    BY <1>9, HelpersMove DEF DisableCompute, Ready,
       TeardownInv, FreezeInv, KeyInv, AccessInv,
       KeyDeadSteps, KeyMarkedSteps, QuietSteps, SettledSteps, FrozenSteps,
       SubmitSteps
  <2> QED
    BY <2>1, <2>2, SafeMove
<1>10. CASE RolesUnchanged(w)
  <2>1. MovesTo(w, "markDerived") /\ UndoesNothing(w)
    BY <1>10, HelpersMove DEF RolesUnchanged, UndoesNothing, Offered
  <2>2. Ready(w, "markDerived")'
    BY <1>10, HelpersMove DEF RolesUnchanged, Ready, SameRoleState,
       TeardownInv, FreezeInv, KeyInv, AccessInv,
       KeyDeadSteps, KeyMarkedSteps, QuietSteps, SettledSteps, FrozenSteps,
       SubmitSteps
  <2> QED
    BY <2>1, <2>2, SafeMove
<1>11. CASE RolesChanged(w)
  <2>1. MovesTo(w, "reenable") /\ UndoesNothing(w)
    BY <1>11, HelpersMove DEF RolesChanged, UndoesNothing, Offered
  <2>2. Ready(w, "reenable")'
    BY <1>11, HelpersMove DEF RolesChanged, Ready,
       TeardownInv, FreezeInv, KeyInv,
       KeyDeadSteps, KeyMarkedSteps, QuietSteps, SettledSteps, FrozenSteps,
       SubmitSteps
  <2> QED
    BY <2>1, <2>2, SafeMove
<1>12. CASE Reenable(w)
  <2>1. MovesTo(w, "resetRoles") /\ UndoesNothing(w)
    BY <1>12, HelpersMove DEF Reenable, UndoesNothing, Offered
  <2>2. Ready(w, "resetRoles")'
    BY <1>12, HelpersMove DEF Reenable, Ready,
       TeardownInv, FreezeInv, KeyInv,
       KeyDeadSteps, KeyMarkedSteps, QuietSteps, SettledSteps, FrozenSteps,
       SubmitSteps
  <2> QED
    BY <2>1, <2>2, SafeMove
<1>13. CASE MarkDerived(w)
  <2>1. MovesTo(w, "revokeAccess") /\ UndoesNothing(w)
    BY <1>13, HelpersMove DEF MarkDerived, UndoesNothing, Offered
  <2>2. Ready(w, "revokeAccess")'
    BY <1>13, HelpersMove DEF MarkDerived, Ready,
       TeardownInv, FreezeInv, KeyInv, AccessInv,
       KeyDeadSteps, KeyMarkedSteps, QuietSteps, SettledSteps, FrozenSteps,
       SubmitSteps
  <2> QED
    BY <2>1, <2>2, SafeMove
<1>14. CASE RevokeAccess(w)
  <2>1. MovesTo(w, "enable") /\ UndoesNothing(w)
    BY <1>14, HelpersMove DEF RevokeAccess, UndoesNothing, Offered
  <2>2. Ready(w, "enable")'
    BY <1>14, HelpersMove DEF RevokeAccess, Ready,
       TeardownInv, FreezeInv, KeyInv, AccessInv,
       KeyDeadSteps, KeyMarkedSteps, QuietSteps, SettledSteps, FrozenSteps,
       SubmitSteps
  <2> QED
    BY <2>1, <2>2, SafeMove
<1>15. CASE EnableCompute(w)
  <2>1. MovesTo(w, "createTransfer") /\ UndoesNothing(w)
    BY <1>15, HelpersMove DEF EnableCompute, UndoesNothing, Offered
  <2>2. Ready(w, "createTransfer")'
    BY <1>15, HelpersMove DEF EnableCompute, Ready,
       TeardownInv, FreezeInv, KeyInv, AccessInv,
       KeyDeadSteps, KeyMarkedSteps, QuietSteps, SettledSteps, FrozenSteps,
       SubmitSteps
  <2> QED
    BY <2>1, <2>2, SafeMove
<1>16. CASE CreateTransfer(w)
  <2>1. MovesTo(w, "startTransfer") /\ UndoesNothing(w)
    BY <1>16, HelpersMove DEF CreateTransfer, UndoesNothing, Offered
  <2>2. Ready(w, "startTransfer")'
    BY <1>16, HelpersMove DEF CreateTransfer, Ready,
       TeardownInv, FreezeInv, KeyInv, AccessInv,
       KeyDeadSteps, KeyMarkedSteps, QuietSteps, SettledSteps, FrozenSteps,
       SubmitSteps
  <2> QED
    BY <2>1, <2>2, SafeMove
<1>17. CASE StartTransfer(w)
  <2>1. frozen /\ keyMarked /\ ~knownPw /\ ~session /\ ~derivedLive
    BY <1>17 DEF StartTransfer, TeardownInv, FreezeInv, KeyInv, AccessInv,
       KeyMarkedSteps,
                QuietSteps, SettledSteps, FrozenSteps, SubmitSteps
  <2>2. \A a \in AttemptIds : attOffered[a] => attOffered'[a]
    BY <1>17 DEF StartTransfer, AttemptsTyped, TypeOK
  <2>3. MovesTo(w, "idle") /\ UndoesNothing(w)
    BY <1>17, <2>1, <2>2, HelpersMove DEF StartTransfer, UndoesNothing
  <2> QED
    BY <2>3, PlainNamed, PlainIsReady, SafeMove
<1> QED
  BY <1>1, <1>2, <1>3, <1>4, <1>5, <1>6, <1>7, <1>8, <1>9, <1>10, <1>11,
     <1>12, <1>13, <1>14, <1>15, <1>16, <1>17 DEF SubmitProgress

(* A status poll respects the teardown. *)
LEMMA PollTeardown ==
  ASSUME TypeOK, TeardownInv, NEW w \in Workers,
         PollExpired(w) \/ PollPending(w) \/ PollAccepted(w) \/ PollProgress(w)
  PROVE  TeardownInv'
<1> USE DEF registrationVars, secretVars, tokenVars, attemptVars,
            projectVars, databaseVars
<1>1. CASE PollExpired(w)
  <2>1. MovesTo(w, "idle") /\ UndoesNothing(w)
    BY <1>1, HelpersMove DEF PollExpired, UndoesNothing, Offered
  <2> QED
    BY <2>1, PlainNamed, PlainIsReady, SafeMove
<1>2. CASE PollPending(w)
  <2>1. MovesTo(w, "pollOwner") /\ UndoesNothing(w)
    BY <1>2, HelpersMove DEF PollPending, UndoesNothing, Offered
  <2> QED
    BY <2>1, PlainNamed, PlainIsReady, SafeMove
<1>3. CASE PollAccepted(w)
  <2>1. MovesTo(w, "pollReconcile") /\ UndoesNothing(w)
    BY <1>3, HelpersMove DEF PollAccepted, UndoesNothing, Offered
  <2> QED
    BY <2>1, PlainNamed, PlainIsReady, SafeMove
<1>4. CASE PollOwner(w)
  <2>1. MovesTo(w, "pollMarkAttempt") /\ UndoesNothing(w)
    BY <1>4, HelpersMove DEF PollOwner, UndoesNothing, Offered
  <2> QED
    BY <2>1, PlainNamed, PlainIsReady, SafeMove
<1>5. CASE PollMarkAttempt(w)
  <2>1. MovesTo(w, "pollMarkRegistration") /\ UndoesNothing(w)
    BY <1>5, HelpersMove DEF PollMarkAttempt, UndoesNothing, Offered
  <2> QED
    BY <2>1, PlainNamed, PlainIsReady, SafeMove
<1>6. CASE PollMarkRegistration(w)
  <2>1. MovesTo(w, "pollReconcile") /\ UndoesNothing(w)
    BY <1>6, HelpersMove DEF PollMarkRegistration, UndoesNothing, Offered
  <2> QED
    BY <2>1, PlainNamed, PlainIsReady, SafeMove
<1>7. CASE PollReconcile(w)
  <2>1. MovesTo(w, "idle") /\ UndoesNothing(w)
    BY <1>7, HelpersMove DEF PollReconcile, UndoesNothing, Offered
  <2> QED
    BY <2>1, PlainNamed, PlainIsReady, SafeMove
<1> QED
  BY <1>1, <1>2, <1>3, <1>4, <1>5, <1>6, <1>7 DEF PollProgress

(* A janitor run marks a key only after it died. *)
LEMMA PurgeTeardown ==
  ASSUME TypeOK, TeardownInv, NEW w \in Workers,
         PurgeBegin(w) \/ PurgeProgress(w)
  PROVE  TeardownInv'
<1> USE DEF registrationVars, secretVars, tokenVars, attemptVars,
            projectVars, databaseVars
<1>1. CASE PurgeBegin(w)
  <2>1. MovesTo(w, "purgeOwner") /\ UndoesNothing(w)
    BY <1>1, HelpersMove DEF PurgeBegin, UndoesNothing, Offered
  <2> QED
    BY <2>1, PlainNamed, PlainIsReady, SafeMove
<1>2. CASE PurgeOwner(w)
  <2>1. PICK step \in {"purgeDelete", "purgeKey"} : MovesTo(w, step)
    BY <1>2, HelpersMove DEF PurgeOwner
  <2>2. UndoesNothing(w)
    BY <1>2 DEF PurgeOwner, UndoesNothing, Offered
  <2> QED
    BY <2>1, <2>2, PlainNamed, PlainIsReady, SafeMove
<1>3. CASE PurgeDelete(w)
  <2>1. MovesTo(w, "purgeKey") /\ UndoesNothing(w)
    BY <1>3, HelpersMove DEF PurgeDelete, UndoesNothing, Offered
  <2> QED
    BY <2>1, PlainNamed, PlainIsReady, SafeMove
<1>4. CASE PurgeKey(w)
  <2>1. MovesTo(w, "purgeCommit") /\ UndoesNothing(w)
    BY <1>4, HelpersMove DEF PurgeKey, UndoesNothing, Offered
  <2>2. Ready(w, "purgeCommit")'
    BY <1>4, HelpersMove DEF PurgeKey, Ready,
       TeardownInv, KeyInv,
       KeyDeadSteps, KeyMarkedSteps, QuietSteps, SettledSteps, FrozenSteps,
       SubmitSteps
  <2> QED
    BY <2>1, <2>2, SafeMove
<1>5. CASE PurgeCommit(w)
  <2>1. ~keyLive
    BY <1>5 DEF PurgeCommit, TeardownInv, KeyInv, KeyDeadSteps, FrozenSteps,
       SubmitSteps
  <2>2. MovesTo(w, "idle") /\ UndoesNothing(w)
    BY <1>5, <2>1, HelpersMove DEF PurgeCommit, UndoesNothing, Offered
  <2> QED
    BY <2>2, PlainNamed, PlainIsReady, SafeMove
<1> QED
  BY <1>1, <1>2, <1>3, <1>4, <1>5 DEF PurgeProgress

(* A session is opened with a password that works, and only a session makes a
   new one; token revocations concern no part of the teardown. *)
LEMMA AgentMovesTeardown ==
  ASSUME TypeOK, TeardownInv, RevokeToken \/ Connect \/ AlterRoles
  PROVE  TeardownInv'
<1> USE DEF handlerVars, registrationVars, secretVars, tokenVars, attemptVars,
            projectVars, databaseVars
<1>1. CASE RevokeToken
  BY <1>1 DEF RevokeToken, TeardownInv, FreezeInv, KeyInv, AccessInv,
     OfferInv, Offered
<1>2. CASE Connect
  <2>1. FreezeInv' /\ KeyInv'
    BY <1>2 DEF Connect, TeardownInv, FreezeInv, KeyInv
  <2>2. AccessInv' /\ OfferInv'
    BY <1>2 DEF Connect, TeardownInv, AccessInv, OfferInv, Offered
  <2> QED
    BY <2>1, <2>2 DEF TeardownInv
<1>3. CASE AlterRoles
  <2>1. FreezeInv' /\ KeyInv'
    BY <1>3 DEF AlterRoles, TeardownInv, FreezeInv, KeyInv
  <2>2. AccessInv' /\ OfferInv'
    BY <1>3 DEF AlterRoles, TeardownInv, AccessInv, OfferInv, Offered
  <2> QED
    BY <2>1, <2>2 DEF TeardownInv
<1> QED
  BY <1>1, <1>2, <1>3

(* Only a recorded transfer request can be accepted. *)
LEMMA AcceptTeardown ==
  ASSUME TypeOK, TeardownInv, AcceptTransfer
  PROVE  TeardownInv'
<1> USE DEF handlerVars, registrationVars, secretVars, tokenVars, attemptVars,
            databaseVars, AcceptTransfer
<1>1. FreezeInv' /\ KeyInv' /\ AccessInv'
  BY DEF TeardownInv, FreezeInv, KeyInv, AccessInv
<1>2. OfferInv'
  BY DEF TeardownInv, OfferInv, Offered
<1> QED
  BY <1>1, <1>2 DEF TeardownInv

(* No failure, no dropped backend and no delay takes any of it back. *)
LEMMA EnvironmentTeardown ==
  ASSUME TypeOK, TeardownInv, (\E w \in Workers : Abort(w) \/ DropBackend(w)) \/ Tick
  PROVE  TeardownInv'
<1> USE DEF handlerVars, registrationVars, secretVars, tokenVars, attemptVars,
            projectVars, databaseVars
<1>1. ASSUME NEW w \in Workers, Abort(w) PROVE TeardownInv'
  <2>1. MovesTo(w, "idle") /\ UndoesNothing(w)
    BY <1>1, HelpersMove DEF Abort, UndoesNothing, Offered
  <2> QED
    BY <2>1, PlainNamed, PlainIsReady, SafeMove
<1>2. ASSUME NEW w \in Workers, DropBackend(w) PROVE TeardownInv'
  <2>1. FreezeInv'
    BY <1>2, StoreAssumption DEF DropBackend, TeardownInv, FreezeInv
  <2>2. KeyInv' /\ AccessInv' /\ OfferInv'
    BY <1>2 DEF DropBackend, TeardownInv, KeyInv, AccessInv, OfferInv, Offered
  <2> QED
    BY <2>1, <2>2 DEF TeardownInv
<1>3. CASE Tick
  BY <1>3 DEF Tick, TeardownInv, FreezeInv, KeyInv, AccessInv, OfferInv, Offered
<1> QED
  BY <1>1, <1>2, <1>3

(* At first nothing is frozen, marked or offered, and no worker is at work. *)
LEMMA InitTeardown == Init => TeardownInv
BY DEF Init, StoreInit, TeardownInv, FreezeInv, KeyInv, AccessInv, OfferInv,
   Offered,
       FrozenSteps, KeyDeadSteps, KeyMarkedSteps, QuietSteps, SettledSteps,
       SubmitSteps

(* Every step of the system keeps the teardown invariant. *)
LEMMA NextTeardown == TypeOK /\ TeardownInv /\ [Next]_vars => TeardownInv'
<1> SUFFICES ASSUME TypeOK, TeardownInv, [Next]_vars PROVE TeardownInv'
  OBVIOUS
<1>1. CASE AgentNext
  BY <1>1, AgentTeardown, AgentMovesTeardown DEF AgentNext
<1>2. CASE IssueNext
  BY <1>2, IssueTeardown DEF IssueNext
<1>3. CASE SubmitNext
  BY <1>3, SubmitTeardown, AcceptTeardown DEF SubmitNext
<1>4. CASE PollNext
  BY <1>4, PollTeardown DEF PollNext
<1>5. CASE PurgeNext
  BY <1>5, PurgeTeardown DEF PurgeNext
<1>6. CASE (\E w \in Workers : Abort(w) \/ DropBackend(w)) \/ Tick
  BY <1>6, EnvironmentTeardown
<1>7. CASE UNCHANGED vars
  BY <1>7 DEF vars, TeardownInv, FreezeInv, KeyInv, AccessInv, OfferInv, Offered
<1> QED
  BY <1>1, <1>2, <1>3, <1>4, <1>5, <1>6, <1>7 DEF Next

(* Each step of a submit may rely on what the steps before it established,
   even when it lost the registration lock in between. *)
THEOREM TeardownStepByStep == Spec => []TeardownInv
<1>1. Init => TeardownInv
  BY InitTeardown
<1>2. TypeOK /\ TeardownInv /\ [Next]_vars => TeardownInv'
  BY NextTeardown
<1> QED
  BY <1>1, <1>2, TypeCorrect, PTL DEF Spec

(* Before a human is offered the project, and ever after, every secret the
   agent obtained is dead: for any number of concurrent requests, codes and
   retries, whatever fails and even when SQL backends drop. *)
THEOREM Teardown == Spec => []TeardownBeforeOffer
<1>1. TeardownInv => TeardownBeforeOffer
  BY DEF TeardownInv, KeyInv, OfferInv, TeardownBeforeOffer
<1> QED
  BY <1>1, TeardownStepByStep, PTL

-----------------------------------------------------------------------------
(* Handing out secrets. *)

(* A step hands out a secret only before the freeze, and an agent's own step
   makes a password only with a session. *)
NoLateHandOut ==
  /\ derivedLive' /\ ~derivedLive => ~frozen
  /\ knownPw' /\ ~knownPw => ~frozen \/ session

(* The agent's requests hand secrets out in two steps, both under the lock. *)
LEMMA AgentHandsOut ==
  ASSUME TypeOK, TeardownInv, AgentNext
  PROVE  NoLateHandOut
<1> USE DEF NoLateHandOut, registrationVars, secretVars, tokenVars, attemptVars,
            projectVars, databaseVars
<1>1. ASSUME NEW w \in Workers, HandOutRecorded(w) PROVE NoLateHandOut
  BY <1>1 DEF HandOutRecorded, Holds, TeardownInv, FreezeInv
<1>2. ASSUME NEW w \in Workers, HandOutUnrecorded(w) PROVE NoLateHandOut
  BY <1>2 DEF HandOutUnrecorded, Holds, TeardownInv, FreezeInv
<1>3. ASSUME RevokeToken \/ Connect \/ AlterRoles PROVE NoLateHandOut
  BY <1>3 DEF RevokeToken, Connect, AlterRoles
<1>4. ASSUME NEW w \in Workers,
             ExchangeVerify(w) \/ ExchangeRead(w) \/ ExchangeRecord(w)
               \/ OpBegin(w) \/ OpCall(w)
      PROVE  NoLateHandOut
  BY <1>4 DEF ExchangeVerify, ExchangeRead, ExchangeRecord, OpBegin, OpCall
<1>5. ASSUME NEW w \in Workers,
             DeleteBegin(w) \/ DeleteProject(w) \/ DeleteKey(w) \/ DeleteTokens(w)
               \/ DeleteMark(w) \/ DeleteRegistration(w)
      PROVE  NoLateHandOut
  BY <1>5 DEF DeleteBegin, DeleteProject, DeleteKey, DeleteTokens, DeleteMark,
              DeleteRegistration
<1> QED
  BY <1>1, <1>2, <1>3, <1>4, <1>5 DEF AgentNext, AgentProgress

(* No other component hands anything out. *)
LEMMA OthersHandNothingOut ==
  ASSUME IssueNext \/ SubmitNext \/ PollNext \/ PurgeNext
           \/ (\E w \in Workers : Abort(w) \/ DropBackend(w)) \/ Tick
           \/ UNCHANGED vars
  PROVE  NoLateHandOut
<1> USE DEF NoLateHandOut, registrationVars, secretVars, tokenVars, attemptVars,
            projectVars, databaseVars
<1>1. CASE IssueNext
  BY <1>1 DEF IssueNext, IssueProgress, IssueVerify, IssueDecide, IssueOwner,
     IssueClose, IssueInsert
<1>2. CASE SubmitNext
  <2>1. ASSUME NEW w \in Workers, SubmitProgress(w) PROVE NoLateHandOut
    <3>1. CASE SubmitExpired(w) \/ SubmitBegin(w) \/ FreezeIssuance(w) \/ SetPending(w)
                 \/ RevokeKey(w) \/ MarkKey(w) \/ StartTransfer(w)
      BY <3>1 DEF SubmitExpired, SubmitBegin, FreezeIssuance, SetPending,
         RevokeKey, MarkKey, StartTransfer
    <3>2. CASE ResetRoles(w) \/ DisableCompute(w) \/ RolesUnchanged(w)
                 \/ RolesChanged(w) \/ Reenable(w)
      BY <3>2 DEF ResetRoles, DisableCompute, RolesUnchanged, RolesChanged,
         Reenable
    <3>3. CASE MarkDerived(w) \/ RevokeAccess(w) \/ EnableCompute(w) \/ CreateTransfer(w)
      BY <3>3 DEF MarkDerived, RevokeAccess, EnableCompute, CreateTransfer
    <3> QED
      BY <2>1, <3>1, <3>2, <3>3 DEF SubmitProgress
  <2>2. CASE AcceptTransfer
    BY <2>2 DEF AcceptTransfer
  <2>3. ASSUME NEW w \in Workers, SubmitFind(w) PROVE NoLateHandOut
    BY <2>3 DEF SubmitFind
  <2> QED
    BY <1>2, <2>1, <2>2, <2>3 DEF SubmitNext
<1>3. CASE PollNext
  BY <1>3 DEF PollNext, PollProgress, PollExpired, PollPending, PollAccepted,
     PollOwner, PollMarkAttempt,
         PollMarkRegistration, PollReconcile
<1>4. CASE PurgeNext
  <2>1. ASSUME NEW w \in Workers, PurgeDelete(w) PROVE NoLateHandOut
    BY <2>1 DEF PurgeDelete
  <2>2. ASSUME NEW w \in Workers, PurgeCommit(w) PROVE NoLateHandOut
    BY <2>2 DEF PurgeCommit
  <2>3. ASSUME NEW w \in Workers, PurgeBegin(w) \/ PurgeOwner(w) PROVE NoLateHandOut
    BY <2>3 DEF PurgeBegin, PurgeOwner
  <2>4. ASSUME NEW w \in Workers, PurgeKey(w) PROVE NoLateHandOut
    BY <2>4 DEF PurgeKey
  <2> QED
    BY <1>4, <2>1, <2>2, <2>3, <2>4 DEF PurgeNext, PurgeProgress
<1>5. CASE (\E w \in Workers : Abort(w) \/ DropBackend(w)) \/ Tick
  BY <1>5 DEF Abort, DropBackend, Tick
<1>6. CASE UNCHANGED vars
  BY <1>6 DEF vars
<1> QED
  BY <1>1, <1>2, <1>3, <1>4, <1>5, <1>6

(* A request that was let through before the freeze and answers after it
   cannot hand out a secret, even when it lost its lock. *)
THEOREM HandOutsEndAtFreeze == Spec => NoHandOutAfterFreeze
<1>1. TypeOK /\ TeardownInv /\ [Next]_vars => [NoLateHandOut]_vars
  BY AgentHandsOut, OthersHandNothingOut DEF Next
<1> QED
  BY <1>1, TypeCorrect, TeardownStepByStep, PTL
  DEF Spec, NoHandOutAfterFreeze, NoLateHandOut

-----------------------------------------------------------------------------
(* The claim codes: at most one can be redeemed, at most one transfer can be
   accepted, and none is minted for a project that has moved. This holds with
   SQL backends that drop. *)

(* Steps of createClaimCode under the lock. *)
MintSteps == {"issueOwner", "issueClose", "issueInsert"}

(* No transfer request can be accepted any more. *)
NoOpenOffer == \A a \in AttemptIds : attOffered[a] => Expired(a)

(* The handler goes on to the insert with nothing left to close. *)
Closed(w) ==
  \/ pc[w] = "issueInsert"
  \/ pc[w] = "issueOwner" /\ AfterDecision(mine[w].sees) = "issueInsert"

(* What a handler that still has the lock may rely on between its decision and
   the insert. *)
MintInv(w) ==
  lock = w /\ pc[w] \in MintSteps =>
    /\ NoOpenOffer
    /\ pc[w] # "issueOwner" => owner # "human"
    /\ Closed(w) /\ HasAttempt => attState[Latest] # "pending"

(* The order of the attempts, inductively. *)
OrderInv ==
  /\ \A a \in AttemptIds : a > attempts => ~attOffered[a]
  /\ PendingIsLatest
  /\ OpenOfferIsLatest
  /\ \A w \in Workers : MintInv(w)

-----------------------------------------------------------------------------
(* Steps that mint nothing. *)

(* Worker w moves to a step that is none of createClaimCode's. *)
Elsewhere(w, step) ==
  /\ MovesTo(w, step)
  /\ step \notin MintSteps
  /\ \A v \in Workers \ {w} : mine'[v] = mine[v]
  /\ now' = now

(* Each of the four ways a step ends leads there. *)
LEMMA HelpersElsewhere ==
  ASSUME TypeOK, NEW w \in Workers, NEW step, step \notin MintSteps, NEW locals
  PROVE  /\ Goto(w, step) => Elsewhere(w, step)
         /\ GotoWith(w, step, locals) => Elsewhere(w, step)
         /\ Acquire(w, step, locals) => Elsewhere(w, step)
         /\ Finish(w) => Elsewhere(w, "idle")
BY HelpersMove DEF Goto, GotoWith, Acquire, Finish, Elsewhere, MintSteps,
   TypeOK, HandlersTyped

(* A worker at createClaimCode after such a step of another was there before,
   with the lock and the same locals. *)
LEMMA MinterStays ==
  ASSUME TypeOK, NEW w \in Workers, NEW step, Elsewhere(w, step),
         NEW v \in Workers, lock' = v, pc'[v] \in MintSteps
  PROVE  lock = v /\ v # w /\ pc'[v] = pc[v] /\ mine'[v] = mine[v]
BY StoreAssumption DEF Elsewhere, MovesTo, TypeOK, HandlersTyped

(* A step that leaves the attempts alone keeps their order. *)
LEMMA AsideKeepsOrder ==
  ASSUME TypeOK, OrderInv, NEW w \in Workers, NEW step, Elsewhere(w, step),
         UNCHANGED attemptVars, owner' # "human" \/ owner' = owner
  PROVE  OrderInv'
<1> USE DEF attemptVars
<1>1. PendingIsLatest' /\ OpenOfferIsLatest'
  BY DEF OrderInv, PendingIsLatest, OpenOfferIsLatest, Expired, Latest, Elsewhere
<1>2. ASSUME NEW v \in Workers, lock' = v, pc'[v] \in MintSteps
      PROVE  MintInv(v)'
  <2>1. lock = v /\ pc'[v] = pc[v] /\ mine'[v] = mine[v]
    BY <1>2, MinterStays
  <2>2. MintInv(v)
    BY DEF OrderInv
  <2> QED  BY <1>2, <2>1, <2>2 DEF MintInv, NoOpenOffer, Expired, Closed, AfterDecision,
              HasAttempt, Latest, Elsewhere
<1>3. \A v \in Workers : MintInv(v)'
  BY <1>2 DEF MintInv
<1> QED  BY <1>1, <1>3 DEF OrderInv

(* Under the lock, an attempt is closed or accepted: only one whose transfer can
   no longer be accepted is closed. *)
LEMMA StateKeepsOrder ==
  ASSUME TypeOK, OrderInv, NEW w \in Workers, NEW step, Elsewhere(w, step),
         lock \in {w, NoOne}, NEW a, NEW s, s # "pending",
         attState' = [attState EXCEPT ![a] = s],
         UNCHANGED <<attempts, attOffered, attExpires, owner>>,
         a \in AttemptIds /\ attOffered[a] /\ ~Expired(a) => s \in {"accepted", "reconciled"}
  PROVE  OrderInv'
<1>1. \A b \in AttemptIds : attState'[b] = IF b = a THEN s ELSE attState[b]
  BY DEF TypeOK, AttemptsTyped
<1>2. PendingIsLatest'
  BY <1>1 DEF OrderInv, PendingIsLatest, Latest
<1>3. OpenOfferIsLatest'
  BY <1>1 DEF OrderInv, OpenOfferIsLatest, Latest, Expired, Elsewhere
<1>4. \A v \in Workers : MintInv(v)'
  BY MinterStays, StoreAssumption DEF MintInv
<1> QED  BY <1>2, <1>3, <1>4 DEF OrderInv

-----------------------------------------------------------------------------
(* One lemma for each component. *)

(* The agent's requests touch no attempt, and nothing of theirs moves a project
   to the human. *)
LEMMA AgentOrder ==
  ASSUME TypeOK, OrderInv, NEW w \in Workers,
         ExchangeVerify(w) \/ OpBegin(w) \/ DeleteBegin(w) \/ AgentProgress(w)
  PROVE  OrderInv'
<1> USE HelpersElsewhere DEF projectVars, MintSteps
<1>1. \E step : Elsewhere(w, step) /\ UNCHANGED attemptVars
                  /\ (owner' # "human" \/ owner' = owner)
  <2>1. CASE ExchangeVerify(w) \/ OpBegin(w) \/ DeleteBegin(w)
    BY <2>1 DEF ExchangeVerify, OpBegin, DeleteBegin
  <2>2. CASE ExchangeRead(w) \/ ExchangeRecord(w)
    BY <2>2 DEF ExchangeRead, ExchangeRecord
  <2>3. CASE OpCall(w) \/ HandOutRecorded(w) \/ HandOutUnrecorded(w)
    BY <2>3 DEF OpCall, HandOutRecorded, HandOutUnrecorded
  <2>4. CASE DeleteProject(w)
    BY <2>4 DEF DeleteProject
  <2>5. CASE DeleteKey(w) \/ DeleteTokens(w)
    BY <2>5 DEF DeleteKey, DeleteTokens
  <2>6. CASE DeleteMark(w) \/ DeleteRegistration(w)
    BY <2>6 DEF DeleteMark, DeleteRegistration
  <2> QED  BY <2>1, <2>2, <2>3, <2>4, <2>5, <2>6 DEF AgentProgress
<1> QED  BY <1>1, AsideKeepsOrder

(* A step that leaves the lock, the handlers and the attempts alone keeps the order. *)
LEMMA BesidesKeepsOrder ==
  ASSUME OrderInv, UNCHANGED <<attemptVars, owner, lock, pc, mine, now>>
  PROVE  OrderInv'
BY DEF OrderInv, PendingIsLatest, OpenOfferIsLatest, MintInv, NoOpenOffer, Closed,
   AfterDecision, HasAttempt, Latest, Expired, attemptVars

(* The agent's moves that are no handler's are such steps. *)
LEMMA AgentMovesOrder ==
  ASSUME OrderInv, RevokeToken \/ Connect \/ AlterRoles
  PROVE  OrderInv'
<1>1. UNCHANGED <<attemptVars, owner, lock, pc, mine, now>>
  BY DEF RevokeToken, Connect, AlterRoles, projectVars, handlerVars
<1> QED  BY <1>1, BesidesKeepsOrder

(* The decision to mint comes only when no offer is open and, once there is
   nothing to close, no code is pending. *)
LEMMA DecisionOrder ==
  ASSUME TypeOK, TeardownInv, OrderInv, IssuanceDecision # "refuse"
  PROVE  /\ NoOpenOffer
         /\ ~frozen => owner # "human"
         /\ AfterDecision(IssuanceDecision) = "issueInsert" /\ HasAttempt =>
              attState[Latest] # "pending"
<1>1. CASE frozen
  <2>1. claimState \in {"unclaimed", "pending"} /\ HasAttempt
    BY <1>1 DEF IssuanceDecision, TypeOK, RowsTyped, ClaimStates
  <2>2. Latest \in AttemptIds
    BY <2>1, StoreAssumption DEF Latest, HasAttempt, AttemptIds, TypeOK, AttemptsTyped
  <2>3. /\ attState[Latest] \notin {"accepted", "reconciled"}
        /\ attState[Latest] = "pending" => Expired(Latest)
    BY <1>1, <2>1 DEF IssuanceDecision
  <2>4. NoOpenOffer
    BY <2>2, <2>3 DEF NoOpenOffer, OrderInv, OpenOfferIsLatest
  <2>5. attState[Latest] = "pending" => AfterDecision(IssuanceDecision) = "issueClose"
    BY <2>1, <2>3 DEF IssuanceDecision, AfterDecision
  <2> QED  BY <1>1, <2>4, <2>5
<1>2. CASE ~frozen
  <2>1. ~Offered /\ owner # "human"
    BY <1>2 DEF TeardownInv, OfferInv
  <2>2. NoOpenOffer
    BY <2>1 DEF NoOpenOffer, Offered
  <2>3. HasAttempt /\ attState[Latest] = "pending" =>
          AfterDecision(IssuanceDecision) = "issueClose"
    BY <1>2 DEF IssuanceDecision, AfterDecision, TypeOK, RowsTyped, ClaimStates
  <2> QED  BY <2>1, <2>2, <2>3 DEF AfterDecision
<1> QED  BY <1>1, <1>2

(* Minting keeps the order. *)
LEMMA IssueOrder ==
  ASSUME TypeOK, TeardownInv, OrderInv, NEW w \in Workers,
         IssueVerify(w) \/ IssueProgress(w)
  PROVE  OrderInv'
<1> USE DEF TypeOK, HandlersTyped, AttemptsTyped, projectVars
<1>1. CASE IssueVerify(w)
  BY <1>1, HelpersElsewhere, AsideKeepsOrder DEF IssueVerify, MintSteps
<1>2. CASE IssueDecide(w)
  <2> USE DEF attemptVars
  <2>1. /\ lock' = w /\ now' = now /\ UNCHANGED attemptVars /\ owner' = owner
        /\ pc'[w] = IF frozen THEN "issueOwner" ELSE AfterDecision(IssuanceDecision)
        /\ mine'[w].sees = IssuanceDecision
        /\ IssuanceDecision # "refuse"
    <3>1. [NoLocals EXCEPT !.sees = IssuanceDecision, !.since = now].sees = IssuanceDecision
      BY DEF NoLocals
    <3> QED  BY <1>2, <3>1 DEF IssueDecide, Acquire, NoLocals
  <2>2. PendingIsLatest' /\ OpenOfferIsLatest'
    BY <2>1 DEF OrderInv, PendingIsLatest, OpenOfferIsLatest, Expired, Latest
  <2>3. MintInv(w)'
    BY <2>1, DecisionOrder DEF MintInv, NoOpenOffer, Expired, Closed, AfterDecision,
       HasAttempt, Latest
  <2>4. \A v \in Workers : MintInv(v)'
    BY <2>1, <2>3 DEF MintInv
  <2> QED  BY <2>1, <2>2, <2>4 DEF OrderInv
<1>3. CASE IssueOwner(w)
  <2> USE DEF attemptVars
  <2>1. /\ pc[w] = "issueOwner" /\ owner = "holding" /\ owner' = owner
        /\ UNCHANGED <<lock, mine, now, attemptVars>>
        /\ pc' = [pc EXCEPT ![w] = AfterDecision(mine[w].sees)]
    BY <1>3 DEF IssueOwner, Goto
  <2>2. PendingIsLatest' /\ OpenOfferIsLatest'
    BY <2>1 DEF OrderInv, PendingIsLatest, OpenOfferIsLatest, Expired, Latest
  <2>3. ASSUME NEW v \in Workers  PROVE MintInv(v)'
    <3>1. MintInv(v)
      BY DEF OrderInv
    <3>2. CASE v = w
      BY <2>1, <3>1, <3>2 DEF MintInv, NoOpenOffer, Expired, Closed, HasAttempt, Latest,
         MintSteps, AfterDecision
    <3>3. CASE v # w
      BY <2>1, <3>1, <3>3 DEF MintInv, NoOpenOffer, Expired, Closed, HasAttempt, Latest,
         AfterDecision
    <3> QED  BY <3>2, <3>3
  <2> QED  BY <2>1, <2>2, <2>3 DEF OrderInv
<1>4. CASE IssueClose(w)
  <2> DEFINE s == IF mine[w].sees = "expire" THEN "expired" ELSE "cancelled"
  <2>1. /\ pc[w] = "issueClose" /\ lock = w /\ lock' = w /\ now' = now /\ owner' = owner
        /\ pc'[w] = "issueInsert"
        /\ UNCHANGED <<attempts, attOffered, attExpires>>
        /\ \A b \in AttemptIds : attState'[b] = IF b = Latest THEN s ELSE attState[b]
        /\ s # "pending"
    BY <1>4 DEF IssueClose, Goto, Holds
  <2>2. MintInv(w)
    BY DEF OrderInv
  <2>3. NoOpenOffer /\ owner # "human"
    BY <2>1, <2>2 DEF MintInv, MintSteps
  <2>4. PendingIsLatest' /\ OpenOfferIsLatest'
    BY <2>1, <2>3 DEF OrderInv, PendingIsLatest, OpenOfferIsLatest, NoOpenOffer, Expired, Latest
  <2>5. HasAttempt' => attState'[Latest'] # "pending"
    <3>1. ASSUME attempts > 0 PROVE attempts \in AttemptIds
      BY <3>1, StoreAssumption DEF AttemptIds
    <3>2. attempts > 0 => attState'[attempts] = s
      BY <2>1, <3>1 DEF Latest
    <3>3. attempts' = attempts
      BY <2>1
    <3> QED  BY <2>1, <3>2, <3>3 DEF HasAttempt, Latest
  <2>6. \A v \in Workers : MintInv(v)'
    BY <2>1, <2>3, <2>5 DEF MintInv, NoOpenOffer, Expired
  <2> QED  BY <2>1, <2>4, <2>6 DEF OrderInv
<1>5. CASE IssueInsert(w)
  <2>1. /\ pc[w] = "issueInsert" /\ lock = w /\ lock' = NoOne /\ now' = now
        /\ attempts' = attempts + 1 /\ attOffered' = attOffered
        /\ attState' = [attState EXCEPT ![attempts + 1] = "pending"]
        /\ attExpires' = [attExpires EXCEPT ![attempts + 1] = now + AttemptTTL]
    BY <1>5 DEF IssueInsert, Finish, Holds
  <2>2. MintInv(w)
    BY DEF OrderInv
  <2>3. NoOpenOffer /\ (HasAttempt => attState[Latest] # "pending")
    BY <2>1, <2>2 DEF MintInv, MintSteps, Closed
  <2>4. PendingIsLatest'
    <3>1. \A b \in AttemptIds : b # attempts + 1 => attState[b] # "pending"
      BY <2>3 DEF OrderInv, PendingIsLatest, HasAttempt, Latest, AttemptIds
    <3> QED  BY <2>1, <3>1 DEF PendingIsLatest, Latest
  <2>5. OpenOfferIsLatest'
    BY <2>1, <2>3 DEF OrderInv, OpenOfferIsLatest, NoOpenOffer, Expired, AttemptIds
  <2>6. \A b \in AttemptIds : b > attempts' => ~attOffered'[b]
    BY <2>1 DEF OrderInv, AttemptIds
  <2>7. \A v \in Workers : MintInv(v)'
    BY <2>1, StoreAssumption DEF MintInv
  <2> QED  BY <2>4, <2>5, <2>6, <2>7 DEF OrderInv
<1> QED  BY <1>1, <1>2, <1>3, <1>4, <1>5 DEF IssueProgress

(* Redeeming a code keeps it: a code is closed when it has expired, and only the
   pending one, the latest, gets a transfer request. *)
LEMMA SubmitOrder ==
  ASSUME TypeOK, OrderInv, NEW w \in Workers, SubmitFind(w) \/ SubmitProgress(w)
  PROVE  OrderInv'
<1> USE HelpersElsewhere DEF projectVars, MintSteps
<1>1. CASE SubmitExpired(w)
  <2>1. Elsewhere(w, "idle") /\ lock = NoOne
    BY <1>1 DEF SubmitExpired
  <2>2. PICK a : /\ Expired(a) /\ attState' = [attState EXCEPT ![a] = "expired"]
                 /\ UNCHANGED <<attempts, attOffered, attExpires, owner>>
    BY <1>1 DEF SubmitExpired
  <2> QED  BY <2>1, <2>2, StateKeepsOrder
<1>2. CASE StartTransfer(w)
  <2>1. Elsewhere(w, "idle") /\ lock = w
    BY <1>2 DEF StartTransfer, Holds
  <2>2. PICK a : /\ attState[a] = "pending"
                 /\ attOffered' = [attOffered EXCEPT ![a] = TRUE]
                 /\ attExpires' = [attExpires EXCEPT ![a] = mine[w].offer]
                 /\ UNCHANGED <<attempts, attState>>
    BY <1>2 DEF StartTransfer
  <2>3. a \in AttemptIds => a = Latest
    BY <2>2 DEF OrderInv, PendingIsLatest
  <2>4. \A b \in AttemptIds : b # a => attOffered'[b] = attOffered[b] /\ attExpires'[b] = attExpires[b]
    BY <2>2 DEF TypeOK, AttemptsTyped
  <2>5. PendingIsLatest' /\ OpenOfferIsLatest'
    BY <2>1, <2>2, <2>3, <2>4
    DEF OrderInv, PendingIsLatest, OpenOfferIsLatest, Expired, Latest, Elsewhere
  <2>6. \A b \in AttemptIds : b > attempts' => ~attOffered'[b]
    BY <2>2, <2>3, <2>4, StoreAssumption DEF OrderInv, Latest, AttemptIds, TypeOK, AttemptsTyped
  <2>7. \A v \in Workers : MintInv(v)'
    BY <2>1, MinterStays DEF MintInv
  <2> QED  BY <2>5, <2>6, <2>7 DEF OrderInv
<1>3. CASE \/ SubmitFind(w) \/ SubmitBegin(w) \/ FreezeIssuance(w) \/ SetPending(w)
           \/ RevokeKey(w) \/ MarkKey(w) \/ ResetRoles(w) \/ DisableCompute(w)
           \/ RolesUnchanged(w) \/ RolesChanged(w) \/ Reenable(w) \/ MarkDerived(w)
           \/ RevokeAccess(w) \/ EnableCompute(w) \/ CreateTransfer(w)
  <2>1. \E step : Elsewhere(w, step) /\ UNCHANGED attemptVars /\ owner' = owner
    <3>1. CASE SubmitFind(w)
      BY <3>1 DEF SubmitFind
    <3>2. CASE SubmitBegin(w) \/ FreezeIssuance(w)
      BY <3>2 DEF SubmitBegin, FreezeIssuance
    <3>3. CASE SetPending(w)
      BY <3>3 DEF SetPending
    <3>4. CASE RevokeKey(w) \/ MarkKey(w)
      BY <3>4 DEF RevokeKey, MarkKey
    <3>5. CASE ResetRoles(w)
      <4>1. Elsewhere(w, "disable")
        BY <3>5 DEF ResetRoles, Elsewhere, MovesTo
      <4> QED  BY <3>5, <4>1 DEF ResetRoles
    <3>6. CASE DisableCompute(w) \/ RolesUnchanged(w) \/ Reenable(w)
      BY <3>6 DEF DisableCompute, RolesUnchanged, Reenable
    <3>7. CASE RolesChanged(w) \/ CreateTransfer(w)
      BY <3>7 DEF RolesChanged, CreateTransfer
    <3>8. CASE MarkDerived(w) \/ RevokeAccess(w) \/ EnableCompute(w)
      BY <3>8 DEF MarkDerived, RevokeAccess, EnableCompute
    <3> QED  BY <1>3, <3>1, <3>2, <3>3, <3>4, <3>5, <3>6, <3>7, <3>8
  <2> QED  BY <2>1, AsideKeepsOrder
<1> QED  BY <1>1, <1>2, <1>3 DEF SubmitProgress

(* The human accepts an offer that is open; nobody is minting a code then. *)
LEMMA AcceptOrder ==
  ASSUME OrderInv, AcceptTransfer
  PROVE  OrderInv'
<1>1. PICK a \in AttemptIds : attOffered[a] /\ ~Expired(a)
  BY DEF AcceptTransfer
<1>2. UNCHANGED <<attempts, attState, attOffered, attExpires, lock, pc, mine, now>>
  BY DEF AcceptTransfer, attemptVars, handlerVars
<1>3. \A v \in Workers : ~(lock = v /\ pc[v] \in MintSteps)
  BY <1>1 DEF OrderInv, MintInv, NoOpenOffer
<1>4. \A v \in Workers : MintInv(v)'
  BY <1>2, <1>3 DEF MintInv
<1> QED  BY <1>2, <1>4 DEF OrderInv, PendingIsLatest, OpenOfferIsLatest, Latest, Expired

(* A poll closes an attempt only when it has expired. *)
LEMMA PollOrder ==
  ASSUME TypeOK, OrderInv, NEW w \in Workers,
         PollExpired(w) \/ PollPending(w) \/ PollAccepted(w) \/ PollProgress(w)
  PROVE  OrderInv'
<1> USE HelpersElsewhere DEF projectVars, MintSteps
<1>1. CASE PollExpired(w)
  <2>1. Elsewhere(w, "idle") /\ lock = NoOne
    BY <1>1 DEF PollExpired
  <2> QED  BY <1>1, <2>1, StateKeepsOrder DEF PollExpired
<1>2. CASE PollPending(w) \/ PollAccepted(w) \/ PollOwner(w) \/ PollMarkRegistration(w)
  <2>1. \E step : Elsewhere(w, step) /\ UNCHANGED attemptVars /\ owner' = owner
    BY <1>2 DEF PollPending, PollAccepted, PollOwner, PollMarkRegistration
  <2> QED  BY <2>1, AsideKeepsOrder
<1>3. CASE PollMarkAttempt(w)
  <2>1. Elsewhere(w, "pollMarkRegistration") /\ lock = w
    BY <1>3 DEF PollMarkAttempt, Holds
  <2> QED  BY <1>3, <2>1, StateKeepsOrder DEF PollMarkAttempt
<1>4. CASE PollReconcile(w)
  <2>1. Elsewhere(w, "idle") /\ lock = w
    BY <1>4 DEF PollReconcile, Holds
  <2> QED  BY <1>4, <2>1, StateKeepsOrder DEF PollReconcile
<1> QED  BY <1>1, <1>2, <1>3, <1>4 DEF PollProgress

(* The janitor touches no attempt. *)
LEMMA PurgeOrder ==
  ASSUME TypeOK, OrderInv, NEW w \in Workers, PurgeBegin(w) \/ PurgeProgress(w)
  PROVE  OrderInv'
<1> USE HelpersElsewhere DEF projectVars, MintSteps
<1>1. \E step : Elsewhere(w, step) /\ UNCHANGED attemptVars
                  /\ (owner' # "human" \/ owner' = owner)
  <2>1. CASE PurgeBegin(w)
    BY <2>1 DEF PurgeBegin
  <2>2. CASE PurgeOwner(w)
    BY <2>2 DEF PurgeOwner
  <2>3. CASE PurgeDelete(w)
    BY <2>3 DEF PurgeDelete
  <2>4. CASE PurgeKey(w) \/ PurgeCommit(w)
    BY <2>4 DEF PurgeKey, PurgeCommit
  <2> QED  BY <2>1, <2>2, <2>3, <2>4 DEF PurgeProgress
<1> QED  BY <1>1, AsideKeepsOrder

(* A handler that fails, a backend that drops and the clock keep the order: an
   offer that has expired stays so. *)
LEMMA EnvironmentOrder ==
  ASSUME TypeOK, OrderInv, (\E w \in Workers : Abort(w) \/ DropBackend(w)) \/ Tick
  PROVE  OrderInv'
<1>1. ASSUME NEW w \in Workers, Abort(w)  PROVE OrderInv'
  <2>1. Elsewhere(w, "idle") /\ UNCHANGED attemptVars /\ owner' = owner
    BY <1>1, HelpersElsewhere DEF Abort, projectVars, MintSteps
  <2> QED  BY <2>1, AsideKeepsOrder
<1>2. ASSUME NEW w \in Workers, DropBackend(w)  PROVE OrderInv'
  BY <1>2, StoreAssumption DEF DropBackend, OrderInv, PendingIsLatest, OpenOfferIsLatest,
     MintInv, Latest, Expired, attemptVars
<1>3. CASE Tick
  <2>1. /\ now' = now + 1 /\ now \in Nat
        /\ UNCHANGED <<attempts, attState, attOffered, attExpires, owner, lock, pc, mine>>
    BY <1>3 DEF Tick, attemptVars, projectVars, handlerVars, TypeOK, HandlersTyped
  <2>2. \A a \in AttemptIds : Expired(a) => Expired(a)'
    BY <2>1 DEF Expired, TypeOK, AttemptsTyped
  <2>3. PendingIsLatest' /\ OpenOfferIsLatest'
    BY <2>1, <2>2 DEF OrderInv, PendingIsLatest, OpenOfferIsLatest, Latest
  <2>4. \A v \in Workers : MintInv(v)'
    BY <2>1, <2>2 DEF OrderInv, MintInv, NoOpenOffer, Closed, AfterDecision, HasAttempt, Latest
  <2> QED  BY <2>1, <2>3, <2>4 DEF OrderInv
<1> QED  BY <1>1, <1>2, <1>3

(* At first there is no attempt. *)
LEMMA InitOrder == Init => OrderInv
BY DEF Init, StoreInit, OrderInv, PendingIsLatest, OpenOfferIsLatest, MintInv, MintSteps

(* Every step keeps the order. *)
LEMMA NextOrder == TypeOK /\ TeardownInv /\ OrderInv /\ [Next]_vars => OrderInv'
<1> SUFFICES ASSUME TypeOK, TeardownInv, OrderInv, [Next]_vars PROVE OrderInv'
  OBVIOUS
<1>1. CASE AgentNext
  BY <1>1, AgentOrder, AgentMovesOrder DEF AgentNext
<1>2. CASE IssueNext
  BY <1>2, IssueOrder DEF IssueNext
<1>3. CASE SubmitNext
  BY <1>3, SubmitOrder, AcceptOrder DEF SubmitNext
<1>4. CASE PollNext
  BY <1>4, PollOrder DEF PollNext
<1>5. CASE PurgeNext
  BY <1>5, PurgeOrder DEF PurgeNext
<1>6. CASE (\E w \in Workers : Abort(w) \/ DropBackend(w)) \/ Tick
  BY <1>6, EnvironmentOrder
<1>7. CASE UNCHANGED vars
  BY <1>7, BesidesKeepsOrder DEF vars, attemptVars
<1> QED  BY <1>1, <1>2, <1>3, <1>4, <1>5, <1>6, <1>7 DEF Next

(* The order of the attempts, step by step. *)
THEOREM AttemptsInOrder == Spec => []OrderInv
<1>1. Init => OrderInv
  BY InitOrder
<1>2. TypeOK /\ TeardownInv /\ OrderInv /\ [Next]_vars => OrderInv'
  BY NextOrder
<1> QED  BY <1>1, <1>2, TypeCorrect, TeardownStepByStep, PTL DEF Spec

(* At most one code can be redeemed, the newest: whatever requests race, for any
   number of codes, and also behind the back of a handler that lost its lock. *)
THEOREM CodesInOrder == Spec => []PendingIsLatest
<1>1. OrderInv => PendingIsLatest
  BY DEF OrderInv
<1> QED  BY <1>1, AttemptsInOrder, PTL

(* At most one transfer can be accepted, and no code is minted beside it. *)
THEOREM OffersInOrder == Spec => []OpenOfferIsLatest
<1>1. OrderInv => OpenOfferIsLatest
  BY DEF OrderInv
<1> QED  BY <1>1, AttemptsInOrder, PTL
-----------------------------------------------------------------------------
(* The code that is redeemed. *)

(* Steps of a submit under the lock. *)
RedeemSteps == SubmitSteps \ {"submitWait"}

(* Worker w moves to a step that is none of these, and changes an attempt only
   while nobody else has the lock. *)
RedeemsNothing(w) ==
  /\ \E step : MovesTo(w, step) /\ step \notin RedeemSteps
  /\ \A v \in Workers \ {w} : mine'[v] = mine[v]
  /\ UNCHANGED <<attempts, attState>> \/ lock \in {w, NoOne}

(* A submit of another is not disturbed by it. *)
LEMMA RedeemsNothingKeeps ==
  ASSUME TypeOK, RedeemsLiveCode, NEW w \in Workers, RedeemsNothing(w)
  PROVE  RedeemsLiveCode'
<1>1. PICK step : MovesTo(w, step) /\ step \notin RedeemSteps
  BY DEF RedeemsNothing
<1> SUFFICES ASSUME NEW v \in Workers, lock' = v, pc'[v] \in RedeemSteps
             PROVE  mine'[v].att = Latest' /\ attState'[Latest'] = "pending"
  BY DEF RedeemsLiveCode, RedeemSteps
<1>2. v # w /\ lock = v /\ pc'[v] = pc[v]
  BY <1>1, StoreAssumption DEF MovesTo, TypeOK, HandlersTyped
<1>3. mine'[v] = mine[v] /\ UNCHANGED <<attempts, attState>>
  BY <1>2, StoreAssumption DEF RedeemsNothing
<1> QED  BY <1>2, <1>3 DEF RedeemsLiveCode, RedeemSteps, Latest

(* The four ways a step ends, to a step that is no submit's. *)
LEMMA HelpersRedeemNothing ==
  ASSUME TypeOK, NEW w \in Workers, NEW step, step \notin RedeemSteps, NEW locals,
         UNCHANGED <<attempts, attState>> \/ lock \in {w, NoOne}
  PROVE  /\ Goto(w, step) => RedeemsNothing(w)
         /\ GotoWith(w, step, locals) => RedeemsNothing(w)
         /\ Acquire(w, step, locals) => RedeemsNothing(w)
         /\ Finish(w) => RedeemsNothing(w)
<1>1. "idle" \notin RedeemSteps
  BY DEF RedeemSteps, SubmitSteps
<1>2. /\ Goto(w, step) => MovesTo(w, step)
      /\ GotoWith(w, step, locals) => MovesTo(w, step)
      /\ Acquire(w, step, locals) => MovesTo(w, step)
      /\ Finish(w) => MovesTo(w, "idle")
  BY HelpersMove
<1>3. Goto(w, step) \/ GotoWith(w, step, locals) \/ Acquire(w, step, locals) \/ Finish(w) =>
        \A v \in Workers \ {w} : mine'[v] = mine[v]
  BY DEF Goto, GotoWith, Acquire, Finish, TypeOK, HandlersTyped
<1> QED  BY <1>1, <1>2, <1>3 DEF RedeemsNothing

(* The requests of the agent. *)
LEMMA AgentRedeems ==
  ASSUME TypeOK, RedeemsLiveCode, NEW w \in Workers,
         ExchangeVerify(w) \/ OpBegin(w) \/ DeleteBegin(w) \/ AgentProgress(w)
  PROVE  RedeemsLiveCode'
<1> USE HelpersRedeemNothing DEF RedeemSteps, SubmitSteps, attemptVars
<1>1. CASE ExchangeVerify(w) \/ OpBegin(w) \/ DeleteBegin(w)
  BY <1>1, RedeemsNothingKeeps DEF ExchangeVerify, OpBegin, DeleteBegin
<1>2. CASE ExchangeRead(w) \/ ExchangeRecord(w)
  BY <1>2, RedeemsNothingKeeps DEF ExchangeRead, ExchangeRecord
<1>3. CASE OpCall(w) \/ HandOutRecorded(w) \/ HandOutUnrecorded(w)
  BY <1>3, RedeemsNothingKeeps DEF OpCall, HandOutRecorded, HandOutUnrecorded
<1>4. CASE DeleteProject(w) \/ DeleteKey(w) \/ DeleteTokens(w)
  BY <1>4, RedeemsNothingKeeps DEF DeleteProject, DeleteKey, DeleteTokens
<1>5. CASE DeleteMark(w) \/ DeleteRegistration(w)
  BY <1>5, RedeemsNothingKeeps DEF DeleteMark, DeleteRegistration
<1> QED  BY <1>1, <1>2, <1>3, <1>4, <1>5 DEF AgentProgress

(* createClaimCode replaces a code under the lock. *)
LEMMA IssueRedeems ==
  ASSUME TypeOK, RedeemsLiveCode, NEW w \in Workers, IssueVerify(w) \/ IssueProgress(w)
  PROVE  RedeemsLiveCode'
<1> USE HelpersRedeemNothing DEF RedeemSteps, SubmitSteps, attemptVars
<1>1. CASE IssueVerify(w)
  BY <1>1, RedeemsNothingKeeps DEF IssueVerify
<1>2. CASE IssueDecide(w)
  <2> DEFINE locals == [NoLocals EXCEPT !.sees = IssuanceDecision]
  <2>1. PICK step \in {"issueOwner", "issueInsert", "issueClose"} : Acquire(w, step, locals)
    BY <1>2 DEF IssueDecide, AfterDecision
  <2> QED  BY <1>2, <2>1, RedeemsNothingKeeps DEF IssueDecide
<1>3. CASE IssueOwner(w)
  <2>1. PICK step \in {"issueInsert", "issueClose"} : Goto(w, step)
    BY <1>3 DEF IssueOwner, AfterDecision
  <2> QED  BY <1>3, <2>1, RedeemsNothingKeeps DEF IssueOwner
<1>4. CASE IssueClose(w)
  BY <1>4, RedeemsNothingKeeps DEF IssueClose, Holds
<1>5. CASE IssueInsert(w)
  BY <1>5, RedeemsNothingKeeps DEF IssueInsert, Holds
<1> QED  BY <1>1, <1>2, <1>3, <1>4, <1>5 DEF IssueProgress

(* A submit begins with a code it has looked at under the lock, and goes on with
   it: nothing it does changes the attempt before its transfer is recorded. *)
LEMMA SubmitRedeems ==
  ASSUME TypeOK, RedeemsLiveCode, NEW w \in Workers, SubmitFind(w) \/ SubmitProgress(w)
  PROVE  RedeemsLiveCode'
<1> USE DEF attemptVars
<1>1. CASE SubmitFind(w)
  BY <1>1, HelpersRedeemNothing, RedeemsNothingKeeps DEF SubmitFind, RedeemSteps, SubmitSteps
<1>2. CASE SubmitExpired(w) \/ StartTransfer(w)
  <2>1. Finish(w) /\ (UNCHANGED <<attempts, attState>> \/ lock \in {w, NoOne})
    BY <1>2 DEF SubmitExpired, StartTransfer
  <2> QED  BY <2>1, HelpersRedeemNothing, RedeemsNothingKeeps DEF RedeemSteps, SubmitSteps
<1>3. CASE SubmitBegin(w)
  <2>1. /\ mine[w].att = Latest /\ attState[mine[w].att] = "pending" /\ lock = NoOne
        /\ pc[w] = "submitWait" /\ UNCHANGED <<attempts, attState>>
        /\ mine' = [mine EXCEPT ![w] = [NoLocals EXCEPT !.att = mine[w].att, !.since = now]]
        /\ lock' = w
    BY <1>3 DEF SubmitBegin, StillRedeemable, Acquire, NoLocals
  <2>2. mine'[w].att = mine[w].att
    BY <2>1 DEF TypeOK, HandlersTyped, NoLocals
  <2>3. \A v \in Workers : lock' = v => v = w
    BY <2>1
  <2> QED  BY <2>1, <2>2, <2>3 DEF RedeemsLiveCode, Latest
<1>4. CASE \/ FreezeIssuance(w) \/ SetPending(w) \/ RevokeKey(w) \/ MarkKey(w) \/ ResetRoles(w)
           \/ DisableCompute(w) \/ RolesUnchanged(w) \/ RolesChanged(w) \/ Reenable(w)
           \/ MarkDerived(w) \/ RevokeAccess(w) \/ EnableCompute(w) \/ CreateTransfer(w)
  <2>1. /\ pc[w] \in RedeemSteps /\ UNCHANGED <<lock, attempts, attState>>
        /\ \E step : pc' = [pc EXCEPT ![w] = step]
    BY <1>4 DEF FreezeIssuance, SetPending, RevokeKey, MarkKey, ResetRoles, DisableCompute,
       RolesUnchanged, RolesChanged, Reenable, MarkDerived, RevokeAccess, EnableCompute,
       CreateTransfer, Goto, GotoWith, RedeemSteps, SubmitSteps
  <2>2. CASE mine' = mine
    BY <2>1, <2>2 DEF RedeemsLiveCode, RedeemSteps, Latest, TypeOK, HandlersTyped
  <2>3. CASE RolesChanged(w) \/ CreateTransfer(w)
    <3>1. /\ \A v \in Workers \ {w} : mine'[v] = mine[v]
          /\ mine'[w].att = mine[w].att
      BY <2>3 DEF RolesChanged, CreateTransfer, GotoWith, TypeOK, HandlersTyped, Locals
    <3> QED  BY <2>1, <3>1 DEF RedeemsLiveCode, RedeemSteps, Latest, TypeOK, HandlersTyped
  <2> QED  BY <1>4, <2>2, <2>3 DEF FreezeIssuance, SetPending, RevokeKey, MarkKey, ResetRoles,
       DisableCompute, RolesUnchanged, Reenable, MarkDerived, RevokeAccess, EnableCompute, Goto
<1> QED  BY <1>1, <1>2, <1>3, <1>4 DEF SubmitProgress

(* A poll that writes an attempt off, or records it as accepted, has the lock. *)
LEMMA PollRedeems ==
  ASSUME TypeOK, RedeemsLiveCode, NEW w \in Workers,
         PollExpired(w) \/ PollPending(w) \/ PollAccepted(w) \/ PollProgress(w)
  PROVE  RedeemsLiveCode'
<1> USE HelpersRedeemNothing DEF RedeemSteps, SubmitSteps, attemptVars
<1>1. CASE PollExpired(w)
  BY <1>1, RedeemsNothingKeeps DEF PollExpired
<1>2. CASE PollPending(w) \/ PollAccepted(w) \/ PollOwner(w) \/ PollMarkRegistration(w)
  BY <1>2, RedeemsNothingKeeps DEF PollPending, PollAccepted, PollOwner, PollMarkRegistration
<1>3. CASE PollMarkAttempt(w)
  BY <1>3, RedeemsNothingKeeps DEF PollMarkAttempt, Holds
<1>4. CASE PollReconcile(w)
  BY <1>4, RedeemsNothingKeeps DEF PollReconcile, Holds
<1> QED  BY <1>1, <1>2, <1>3, <1>4 DEF PollProgress

(* The janitor touches no attempt. *)
LEMMA PurgeRedeems ==
  ASSUME TypeOK, RedeemsLiveCode, NEW w \in Workers, PurgeBegin(w) \/ PurgeProgress(w)
  PROVE  RedeemsLiveCode'
<1> USE HelpersRedeemNothing DEF RedeemSteps, SubmitSteps, attemptVars
<1>1. CASE PurgeBegin(w) \/ PurgeOwner(w)
  BY <1>1, RedeemsNothingKeeps DEF PurgeBegin, PurgeOwner
<1>2. CASE PurgeDelete(w) \/ PurgeKey(w) \/ PurgeCommit(w)
  BY <1>2, RedeemsNothingKeeps DEF PurgeDelete, PurgeKey, PurgeCommit
<1> QED  BY <1>1, <1>2 DEF PurgeProgress

(* Failures, drops, the agent's sessions, the human and the clock. *)
LEMMA EnvironmentRedeems ==
  ASSUME TypeOK, RedeemsLiveCode,
         \/ \E w \in Workers : Abort(w) \/ DropBackend(w)
         \/ RevokeToken \/ Connect \/ AlterRoles \/ AcceptTransfer \/ Tick \/ UNCHANGED vars
  PROVE  RedeemsLiveCode'
<1>1. ASSUME NEW w \in Workers, Abort(w)  PROVE RedeemsLiveCode'
  BY <1>1, HelpersRedeemNothing, RedeemsNothingKeeps
     DEF Abort, RedeemSteps, SubmitSteps, attemptVars
<1>2. ASSUME NEW w \in Workers, DropBackend(w)  PROVE RedeemsLiveCode'
  BY <1>2, StoreAssumption DEF DropBackend, RedeemsLiveCode
<1>3. CASE RevokeToken \/ Connect \/ AlterRoles \/ AcceptTransfer \/ Tick \/ UNCHANGED vars
  <2>1. UNCHANGED <<lock, pc, mine, attempts, attState>>
    BY <1>3 DEF RevokeToken, Connect, AlterRoles, AcceptTransfer, Tick, vars, attemptVars,
       handlerVars
  <2> QED  BY <2>1 DEF RedeemsLiveCode, Latest
<1> QED  BY <1>1, <1>2, <1>3

(* The agent's secrets are taken away for a code that is the newest and pending,
   for as long as the submit has its lock. *)
THEOREM LiveCodesAreRedeemed == Spec => []RedeemsLiveCode
<1>1. Init => RedeemsLiveCode
  BY StoreAssumption DEF Init, StoreInit, RedeemsLiveCode, SubmitSteps
<1>2. TypeOK /\ RedeemsLiveCode /\ [Next]_vars => RedeemsLiveCode'
  BY AgentRedeems, IssueRedeems, SubmitRedeems, PollRedeems, PurgeRedeems, EnvironmentRedeems
     DEF Next, AgentNext, IssueNext, SubmitNext, PollNext, PurgeNext
<1> QED  BY <1>1, <1>2, TypeCorrect, PTL DEF Spec

-----------------------------------------------------------------------------
(* The step that mints. *)

(* What the property says of one step. *)
NoLateCode == attempts' # attempts => owner # "human"

(* Only the insert of createClaimCode numbers an attempt. *)
LEMMA AgentMintsNothing ==
  ASSUME AgentNext  PROVE attempts' = attempts
<1> USE DEF attemptVars, handlerVars, projectVars
<1>1. ASSUME NEW w \in Workers, AgentProgress(w)  PROVE attempts' = attempts
  BY <1>1 DEF AgentProgress, ExchangeRead, ExchangeRecord, OpCall, HandOutRecorded,
     HandOutUnrecorded, DeleteProject, DeleteKey, DeleteTokens, DeleteMark,
     DeleteRegistration
<1>2. ASSUME NEW w \in Workers, ExchangeVerify(w) \/ OpBegin(w) \/ DeleteBegin(w)
      PROVE  attempts' = attempts
  BY <1>2 DEF ExchangeVerify, OpBegin, DeleteBegin
<1>3. ASSUME RevokeToken \/ Connect \/ AlterRoles  PROVE attempts' = attempts
  BY <1>3 DEF RevokeToken, Connect, AlterRoles
<1> QED  BY <1>1, <1>2, <1>3 DEF AgentNext

(* A submission redeems an attempt and numbers none. *)
LEMMA SubmitMintsNothing ==
  ASSUME SubmitNext  PROVE attempts' = attempts
<1> USE DEF attemptVars, handlerVars, projectVars
<1>1. ASSUME NEW w \in Workers, SubmitProgress(w)  PROVE attempts' = attempts
  BY <1>1 DEF SubmitProgress, SubmitExpired, SubmitBegin, FreezeIssuance, SetPending,
     RevokeKey, MarkKey, ResetRoles, DisableCompute, RolesUnchanged, RolesChanged, Reenable,
     MarkDerived, RevokeAccess, EnableCompute, CreateTransfer, StartTransfer
<1>2. ASSUME NEW w \in Workers, SubmitFind(w)  PROVE attempts' = attempts
  BY <1>2 DEF SubmitFind
<1>3. ASSUME AcceptTransfer  PROVE attempts' = attempts
  BY <1>3 DEF AcceptTransfer
<1> QED  BY <1>1, <1>2, <1>3 DEF SubmitNext

(* Nor do polls, the janitor, a failing handler or the clock. *)
LEMMA OthersMintNothing ==
  ASSUME \/ PollNext \/ PurgeNext \/ Tick
         \/ \E w \in Workers : Abort(w) \/ DropBackend(w)
  PROVE  attempts' = attempts
<1> USE DEF attemptVars, handlerVars, projectVars
<1>1. CASE PollNext
  BY <1>1 DEF PollNext, PollProgress, PollExpired, PollPending, PollAccepted, PollOwner,
     PollMarkAttempt, PollMarkRegistration, PollReconcile
<1>2. CASE PurgeNext
  BY <1>2 DEF PurgeNext, PurgeProgress, PurgeBegin, PurgeOwner, PurgeDelete, PurgeKey,
     PurgeCommit
<1>3. CASE Tick \/ \E w \in Workers : Abort(w) \/ DropBackend(w)
  BY <1>3 DEF Tick, Abort, DropBackend
<1> QED  BY <1>1, <1>2, <1>3

(* The insert runs under the lock, and the owner was asked, or no transfer had
   been started, under the same lock. *)
LEMMA IssueMintsInTime ==
  ASSUME OrderInv, IssueNext  PROVE NoLateCode
<1> USE DEF attemptVars, handlerVars, projectVars
<1>1. ASSUME NEW w \in Workers, IssueInsert(w)  PROVE NoLateCode
  <2>1. lock = w /\ pc[w] = "issueInsert" /\ MintInv(w)
    BY <1>1 DEF IssueInsert, Holds, OrderInv
  <2> QED  BY <2>1 DEF MintInv, MintSteps, NoLateCode
<1>2. ASSUME NEW w \in Workers,
             IssueVerify(w) \/ IssueDecide(w) \/ IssueOwner(w) \/ IssueClose(w)
      PROVE  NoLateCode
  BY <1>2 DEF IssueVerify, IssueDecide, IssueOwner, IssueClose, NoLateCode
<1> QED  BY <1>1, <1>2 DEF IssueNext, IssueProgress

(* No claim code is minted for a project the human already has. *)
THEOREM NoCodeForMoved == Spec => NoCodeAfterMove
<1>1. OrderInv /\ [Next]_vars => [NoLateCode]_vars
  BY AgentMintsNothing, SubmitMintsNothing, OthersMintNothing, IssueMintsInTime
  DEF Next, NoLateCode
<1> QED
  BY <1>1, AttemptsInOrder, PTL
  DEF Spec, NoCodeAfterMove, NoLateCode
=============================================================================
