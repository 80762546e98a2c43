--------------------------- MODULE JanitorRunProofs ---------------------------
(***************************************************************************)
(* Theorems about JanitorRun, for any number of registrations, of          *)
(* overlapping runs and of failures: the terminal state and the usage row  *)
(* land together and once, what has ended opens nothing any more, and the  *)
(* answer of a run accounts for every candidate of its list.               *)
(***************************************************************************)
EXTENDS JanitorRun, TLAPS

-----------------------------------------------------------------------------
(* The local variables of a run, in full. *)

RunSteps == {"idle", "list", "next", "owner", "delete", "key", "write", "answered"}
Ending == {"delete", "mark_claimed", "already_gone"}
Answers == UNION {[S -> Outcomes] : S \in SUBSET Regs}

RunRecords ==
  [at : RunSteps, cand : SUBSET Regs, todo : SUBSET Regs, cur : 0..N,
   action : {"none", "skip"} \cup Ending, begun : BOOLEAN, writes : 0..4, out : Answers]

RunsTyped == run \in [Runs -> RunRecords]

RowsTyped ==
  /\ due \in 0..N
  /\ end \in [Regs -> {"no", "poll"} \cup Reasons]
  /\ begun \subseteq Regs /\ marked \subseteq Regs /\ tokens \subseteq Regs
  /\ usage \in [Regs -> Seq(Reasons)]
  /\ owner \in [Regs -> {"holding", "human", "deleted"}]
  /\ key \in [Regs -> {"live", "dead", "none"}]
  /\ lock \in [Regs -> Runs \cup {NoOne}]

(* A run holds at most one lock, that of the registration it works on. *)
OneLock ==
  \A r \in Regs : lock[r] \in Runs => Cur(lock[r]) = r /\ Working(lock[r])

(* What a run knows. Its lock may be gone: then the owner and the key are still
   as it left them, because nobody takes a revocation or a deletion back; that
   the registration has not ended yet it knows only while it has the lock. *)
RunOf(p) ==
  /\ run[p].cand = run[p].todo \cup DOMAIN run[p].out
  /\ run[p].at = "list" => DOMAIN run[p].out = {}
  /\ run[p].at = "answered" => run[p].todo = {}
  /\ \A r \in DOMAIN run[p].out : run[p].out[r] = "failed" \/ end[r] # "no"
  /\ Working(p) => Cur(p) \in run[p].todo
  /\ run[p].at = "owner" => run[p].action \in {"none", "skip"}
  /\ run[p].at \in {"delete", "key", "write"} => run[p].action \in Ending
  /\ run[p].at = "owner" /\ run[p].action = "skip" => end[Cur(p)] # "no"
  /\ Working(p) /\ Holds(p) /\ run[p].action # "skip" => end[Cur(p)] = "no"
  /\ run[p].at \in {"key", "write"} => owner[Cur(p)] # "holding"
  /\ run[p].at = "write" => key[Cur(p)] # "live"

(* A key is dead at Neon before its row says so. *)
MarkedIsDead == \A r \in marked : key[r] = "dead"

Rows == MarkedIsDead /\ PurgedOnce /\ EndedIsComplete

JanitorInv ==
  RowsTyped /\ RunsTyped /\ OneLock /\ Rows /\ \A p \in Runs : RunOf(p)

-----------------------------------------------------------------------------
(* Steps of one run, seen from the others. *)

Others(p) == \A q \in Runs \ {p} : run'[q] = run[q]

(* What a step of run p takes from nobody: an end, a deletion, a revocation, and
   the registration somebody else has locked. *)
Forward(p) ==
  \A r \in Regs :
    /\ end[r] # "no" => end'[r] # "no"
    /\ owner[r] # "holding" => owner'[r] # "holding"
    /\ key[r] # "live" => key'[r] # "live"
    /\ lock[r] # p /\ lock'[r] \in Runs \ {p} => lock'[r] = lock[r] /\ end'[r] = end[r]
    /\ lock[r] = p => lock'[r] \notin Runs \ {p}

(* What the other runs know stays true. *)
LEMMA RunsStay ==
  ASSUME JanitorInv, NEW p \in Runs, Others(p), Forward(p), RunOf(p)'
  PROVE  \A q \in Runs : RunOf(q)'
<1>1. ASSUME NEW q \in Runs \ {p}  PROVE RunOf(q)'
  <2>1. run'[q] = run[q] /\ RunOf(q)
    BY DEF Others, JanitorInv
  <2>2. run[q].todo \subseteq Regs /\ DOMAIN run[q].out \subseteq Regs
    <3>1. run[q] \in RunRecords
      BY DEF JanitorInv, RunsTyped
    <3>2. run[q].todo \in SUBSET Regs /\ run[q].cand \in SUBSET Regs
      BY <3>1 DEF RunRecords
    <3> QED  BY <2>1, <3>2 DEF RunOf
  <2>3. /\ run'[q].cand = run'[q].todo \cup DOMAIN run'[q].out
        /\ run'[q].at = "list" => DOMAIN run'[q].out = {}
        /\ run'[q].at = "answered" => run'[q].todo = {}
        /\ \A r \in DOMAIN run'[q].out : run'[q].out[r] = "failed" \/ end'[r] # "no"
    BY <2>1, <2>2 DEF RunOf, Forward
  <2>4. CASE Working(q)
    <3>1. Cur(q) \in Regs /\ Cur(q)' = Cur(q) /\ Working(q)'
      BY <2>1, <2>2, <2>4 DEF RunOf, Working, Cur
    <3>2. Holds(q)' => Holds(q) /\ end'[Cur(q)] = end[Cur(q)]
      BY <3>1 DEF Forward, Holds
    <3>3. Working(q)' /\ Holds(q)' /\ run'[q].action # "skip" => end'[Cur(q)] = "no"
      BY <2>1, <2>4, <3>2 DEF RunOf
    <3>4. /\ run'[q].at = "owner" /\ run'[q].action = "skip" => end'[Cur(q)] # "no"
          /\ run'[q].at \in {"key", "write"} => owner'[Cur(q)] # "holding"
          /\ run'[q].at = "write" => key'[Cur(q)] # "live"
      BY <2>1, <3>1 DEF RunOf, Forward
    <3> QED  BY <2>1, <2>3, <2>4, <3>1, <3>3, <3>4 DEF RunOf
  <2>5. CASE ~Working(q)
    BY <2>1, <2>3, <2>5 DEF RunOf, Working
  <2> QED  BY <2>4, <2>5
<1> QED  BY <1>1

(* A run that goes on, or starts, with the locks as they are. *)
LEMMA LocksStay ==
  ASSUME JanitorInv, NEW p \in Runs, Others(p), UNCHANGED lock,
         Working(p) => Working(p)' /\ Cur(p)' = Cur(p)
  PROVE  OneLock'
<1>1. ASSUME NEW r \in Regs, lock[r] \in Runs  PROVE Cur(lock[r])' = r /\ Working(lock[r])'
  <2>1. Cur(lock[r]) = r /\ Working(lock[r])
    BY <1>1 DEF JanitorInv, OneLock
  <2> QED  BY <1>1, <2>1 DEF Others, Cur, Working
<1> QED  BY <1>1 DEF OneLock

(* A run lets go of what it holds. *)
LEMMA UnlockFrees ==
  ASSUME JanitorInv, NEW p \in Runs, Others(p), Unlock(p)
  PROVE  /\ OneLock'
         /\ lock' \in [Regs -> Runs \cup {NoOne}]
         /\ \A r \in Regs : lock'[r] # p /\ (lock'[r] \in Runs => lock'[r] = lock[r])
<1>1. lock \in [Regs -> Runs \cup {NoOne}] /\ NoOne \notin Runs
  BY JanitorAssumption DEF JanitorInv, RowsTyped
<1>2. /\ lock' \in [Regs -> Runs \cup {NoOne}]
      /\ \A r \in Regs : lock'[r] # p /\ (lock'[r] \in Runs => lock'[r] = lock[r])
  BY <1>1 DEF Unlock
<1>3. ASSUME NEW r \in Regs, lock'[r] \in Runs
      PROVE  Cur(lock[r])' = r /\ Working(lock[r])' /\ lock'[r] = lock[r]
  <2>1. lock[r] \in Runs \ {p} /\ lock'[r] = lock[r]
    BY <1>2, <1>3
  <2>2. Cur(lock[r]) = r /\ Working(lock[r])
    BY <2>1 DEF JanitorInv, OneLock
  <2> QED  BY <2>1, <2>2 DEF Others, Cur, Working
<1> QED  BY <1>2, <1>3 DEF OneLock, Cur, Working

-----------------------------------------------------------------------------
(* The local variables. *)

(* The next step of a run. *)
LEMMA StepTo ==
  ASSUME RunsTyped, NEW p \in Runs, NEW step \in RunSteps, Goto(p, step)
  PROVE  /\ RunsTyped' /\ Others(p)
         /\ run'[p] = [run[p] EXCEPT !.at = step]
BY DEF RunsTyped, RunRecords, Goto, Others

(* An outcome is one more in the answer. *)
LEMMA AnswersGrow ==
  ASSUME NEW f \in Answers, NEW c \in Regs, NEW o \in Outcomes
  PROVE  [r \in DOMAIN f \cup {c} |-> IF r = c THEN o ELSE f[r]] \in Answers
<1>1. PICK S \in SUBSET Regs : f \in [S -> Outcomes]
  BY DEF Answers
<1>2. [r \in DOMAIN f \cup {c} |-> IF r = c THEN o ELSE f[r]] \in [S \cup {c} -> Outcomes]
  BY <1>1
<1>3. S \cup {c} \in SUBSET Regs
  OBVIOUS
<1> QED  BY <1>2, <1>3 DEF Answers

(* A run has done with the registration it works on. *)
LEMMA OutcomeOf ==
  ASSUME JanitorInv, NEW p \in Runs, Working(p), NEW o \in Outcomes, Outcome(p, o),
         \A r \in Regs : end[r] # "no" => end'[r] # "no",
         o = "failed" \/ end'[Cur(p)] # "no"
  PROVE  RunsTyped' /\ Others(p) /\ RunOf(p)' /\ ~Working(p)'
<1> DEFINE grown == [r \in DOMAIN run[p].out \cup {Cur(p)} |-> IF r = Cur(p) THEN o ELSE run[p].out[r]]
<1> DEFINE rec == [run[p] EXCEPT !.at = "next", !.todo = run[p].todo \ {Cur(p)}, !.cur = 0,
                     !.action = "none", !.begun = FALSE, !.writes = 0, !.out = grown]
<1>1. run \in [Runs -> RunRecords] /\ run[p] \in RunRecords /\ RunOf(p)
  BY DEF JanitorInv, RunsTyped
<1>2. Cur(p) \in run[p].todo /\ run[p].todo \subseteq Regs /\ run[p].out \in Answers
  BY <1>1 DEF RunRecords, RunOf
<1>3. grown \in Answers
  BY <1>2, AnswersGrow
<1>4. run' = [run EXCEPT ![p] = rec]
  BY <1>1 DEF Outcome, RunRecords
<1>5. rec \in RunRecords
  <2> HIDE DEF grown
  <2>1. 0 \in 0..N /\ 0 \in 0..4
    BY JanitorAssumption
  <2> QED  BY <1>1, <1>3, <2>1 DEF RunRecords, RunSteps
<1>6. RunsTyped' /\ Others(p) /\ run'[p] = rec
  <2> HIDE DEF rec
  <2> QED  BY <1>1, <1>4, <1>5 DEF RunsTyped, Others
<1>7. /\ rec.at = "next" /\ rec.cand = run[p].cand /\ rec.todo = run[p].todo \ {Cur(p)}
      /\ rec.out = grown
  <2> HIDE DEF grown
  <2> QED  BY <1>1 DEF RunRecords
<1>8. DOMAIN grown = DOMAIN run[p].out \cup {Cur(p)}
  OBVIOUS
<1>9. \A r \in DOMAIN grown : grown[r] = "failed" \/ end'[r] # "no"
  <2>1. \A r \in DOMAIN run[p].out : r \in Regs /\ (run[p].out[r] = "failed" \/ end[r] # "no")
    BY <1>1 DEF RunOf, RunRecords
  <2> QED  BY <2>1
<1>10. run[p].cand = (run[p].todo \ {Cur(p)}) \cup DOMAIN grown
  BY <1>1, <1>2, <1>8 DEF RunOf
<1>11. ~Working(p)'
  BY <1>6, <1>7 DEF Working
<1> QED
  <2> HIDE DEF grown, rec
  <2> QED  BY <1>6, <1>7, <1>9, <1>10, <1>11 DEF RunOf, Working
-----------------------------------------------------------------------------
(* The steps that touch no lock and no row. *)

(* A step of one run's own. *)
LEMMA RunStep ==
  ASSUME JanitorInv, NEW p \in Runs, RunsTyped', Others(p), RunOf(p)',
         UNCHANGED <<due, rowVars, neonVars, lock>>,
         Working(p) => Working(p)' /\ Cur(p)' = Cur(p)
  PROVE  JanitorInv'
<1> USE DEF rowVars, neonVars
<1>1. RowsTyped' /\ Rows'
  BY DEF JanitorInv, RowsTyped, Rows, MarkedIsDead, PurgedOnce, EndedIsComplete
<1>2. OneLock'
  BY LocksStay
<1>3. Forward(p)
  BY DEF Forward
<1> QED  BY <1>1, <1>2, <1>3, RunsStay DEF JanitorInv

(* A run that has not started knows nothing. *)
LEMMA NothingRun ==
  /\ NoRun \in RunRecords
  /\ NoRun.at = "idle" /\ NoRun.cand = {} /\ NoRun.todo = {} /\ DOMAIN NoRun.out = {}
<1> DEFINE nothing == [r \in {} |-> "none"]
<1>1. nothing \in [{} -> Outcomes] /\ {} \in SUBSET Regs /\ DOMAIN nothing = {}
  OBVIOUS
<1>2. nothing \in Answers
  BY <1>1 DEF Answers
<1>3. NoRun = [at |-> "idle", cand |-> {}, todo |-> {}, cur |-> 0, action |-> "none",
               begun |-> FALSE, writes |-> 0, out |-> nothing]
  BY DEF NoRun
<1> HIDE DEF nothing
<1>4. 0 \in 0..N /\ 0 \in 0..4
  BY JanitorAssumption
<1>5. NoRun \in RunRecords
  BY <1>1, <1>2, <1>3, <1>4 DEF RunRecords, RunSteps
<1> QED  BY <1>1, <1>3, <1>5

(* A trigger starts a run from nothing, whichever it was before. *)
LEMMA TriggerKeeps ==
  ASSUME JanitorInv, NEW p \in Runs, Trigger(p)
  PROVE  JanitorInv'
<1> DEFINE rec == [NoRun EXCEPT !.at = "list"]
<1>1. run' = [run EXCEPT ![p] = rec] /\ ~Working(p)
  BY DEF Trigger, Working
<1>2. /\ rec \in RunRecords
      /\ rec.at = "list" /\ rec.cand = {} /\ rec.todo = {} /\ DOMAIN rec.out = {}
  BY NothingRun DEF RunRecords, RunSteps
<1> HIDE DEF rec
<1>3. RunsTyped' /\ Others(p) /\ run'[p] = rec
  BY <1>1, <1>2 DEF JanitorInv, RunsTyped, Others
<1>4. RunOf(p)'
  BY <1>2, <1>3 DEF RunOf, Working
<1> QED  BY <1>1, <1>3, <1>4, RunStep DEF Trigger

(* The list is the state of the rows at one moment, and nothing is decided yet. *)
LEMMA ListKeeps ==
  ASSUME JanitorInv, NEW p \in Runs, List(p)
  PROVE  JanitorInv'
<1> DEFINE cand == {r \in 1..due : end[r] = "no"}
<1>1. /\ run \in [Runs -> RunRecords] /\ run[p] \in RunRecords
      /\ run[p].at = "list" /\ DOMAIN run[p].out = {}
  BY DEF JanitorInv, RunsTyped, RunOf, List
<1>2. cand \in SUBSET Regs
  BY JanitorAssumption DEF JanitorInv, RowsTyped, Regs
<1>3. run' = [run EXCEPT ![p] = [run[p] EXCEPT !.at = "next", !.cand = cand, !.todo = cand]]
  BY <1>1 DEF List
<1> HIDE DEF cand
<1>4. RunsTyped' /\ Others(p) /\ run'[p] = [run[p] EXCEPT !.at = "next", !.cand = cand, !.todo = cand]
  BY <1>1, <1>2, <1>3 DEF RunsTyped, RunRecords, RunSteps, Others
<1>5. /\ run'[p].at = "next" /\ run'[p].cand = cand /\ run'[p].todo = cand
      /\ run'[p].out = run[p].out
  BY <1>1, <1>4 DEF RunRecords
<1>6. RunOf(p)' /\ ~Working(p)
  BY <1>1, <1>5 DEF RunOf, Working
<1> QED  BY <1>4, <1>6, RunStep DEF List

(* The answer, when nothing of the list is left. *)
LEMMA AnswerKeeps ==
  ASSUME JanitorInv, NEW p \in Runs, Answer(p)
  PROVE  JanitorInv'
<1>1. RunsTyped' /\ Others(p) /\ run'[p] = [run[p] EXCEPT !.at = "answered"]
  BY StepTo DEF Answer, RunSteps, JanitorInv
<1>2. run[p] \in RunRecords /\ run[p].at = "next" /\ RunOf(p)
  BY DEF JanitorInv, RunsTyped, Answer
<1>3. /\ run'[p].at = "answered" /\ run'[p].cand = run[p].cand /\ run'[p].todo = run[p].todo
      /\ run'[p].out = run[p].out
  BY <1>1, <1>2 DEF RunRecords
<1>4. RunOf(p)' /\ ~Working(p)
  BY <1>2, <1>3 DEF RunOf, Working, Answer, rowVars
<1> QED  BY <1>1, <1>4, RunStep DEF Answer

(* The decision is taken on the row as it is under the lock. *)
LEMMA OwnerKeeps ==
  ASSUME JanitorInv, NEW p \in Runs, Owner(p)
  PROVE  JanitorInv'
<1> DEFINE step == IF Decide(p) = "delete" THEN "delete" ELSE "key"
<1> DEFINE rec == [run[p] EXCEPT !.action = Decide(p), !.at = step]
<1>1. run \in [Runs -> RunRecords] /\ run[p] \in RunRecords /\ RunOf(p) /\ run[p].at = "owner"
  BY DEF JanitorInv, RunsTyped, Owner
<1>2. /\ Decide(p) \in Ending /\ run[p].action # "skip"
      /\ Decide(p) # "delete" => owner[Cur(p)] # "holding"
  BY <1>1 DEF Owner, Decide, Ending
<1>3. run' = [run EXCEPT ![p] = rec]
  BY <1>1 DEF Owner
<1>4. /\ rec \in RunRecords
      /\ rec.at \in {"delete", "key"} /\ (rec.at = "key" => owner[Cur(p)] # "holding")
      /\ rec.action \in Ending /\ rec.action # "skip"
      /\ rec.cand = run[p].cand /\ rec.todo = run[p].todo /\ rec.cur = run[p].cur
      /\ rec.out = run[p].out
  BY <1>1, <1>2 DEF RunRecords, RunSteps, Ending
<1> HIDE DEF rec
<1>5. RunsTyped' /\ Others(p) /\ run'[p] = rec
  BY <1>1, <1>3, <1>4 DEF RunsTyped, Others
<1>6. /\ Working(p) /\ Working(p)' /\ Cur(p)' = Cur(p) /\ (Holds(p)' => Holds(p))
      /\ UNCHANGED <<due, end, owner, key>>
  BY <1>1, <1>4, <1>5 DEF Working, Cur, Holds, Owner, rowVars, neonVars
<1>7. RunOf(p)'
  BY <1>1, <1>2, <1>4, <1>5, <1>6 DEF RunOf
<1> QED  BY <1>5, <1>6, <1>7, RunStep DEF Owner

(* A statement of the transaction has no effect before the commit. *)
LEMMA StatementKeeps ==
  ASSUME JanitorInv, NEW p \in Runs, Statement(p)
  PROVE  JanitorInv'
<1> DEFINE rec == [run[p] EXCEPT !.writes = run[p].writes + 1]
<1>1. run \in [Runs -> RunRecords] /\ run[p] \in RunRecords /\ RunOf(p)
  BY DEF JanitorInv, RunsTyped
<1>2. run' = [run EXCEPT ![p] = rec] /\ run[p].writes + 1 \in 0..4
  BY <1>1 DEF Statement, RunRecords
<1>3. /\ rec \in RunRecords
      /\ rec.at = run[p].at /\ rec.action = run[p].action
      /\ rec.cand = run[p].cand /\ rec.todo = run[p].todo /\ rec.cur = run[p].cur
      /\ rec.out = run[p].out
  BY <1>1, <1>2 DEF RunRecords
<1> HIDE DEF rec
<1>4. RunsTyped' /\ Others(p) /\ run'[p] = rec
  BY <1>1, <1>2, <1>3 DEF RunsTyped, Others
<1>5. /\ Working(p)' = Working(p) /\ Cur(p)' = Cur(p) /\ Holds(p)' = Holds(p)
      /\ UNCHANGED <<end, owner, key>>
  BY <1>3, <1>4 DEF Working, Cur, Holds, Statement, rowVars, neonVars
<1>6. RunOf(p)'
  BY <1>1, <1>3, <1>4, <1>5 DEF RunOf
<1> QED  BY <1>4, <1>5, <1>6, RunStep DEF Statement
-----------------------------------------------------------------------------
(* The steps that take a lock or change something at Neon. *)

(* A run takes a lock when it has none, and reads the row under it. *)
LEMMA LockKeeps ==
  ASSUME JanitorInv, NEW p \in Runs, Lock(p)
  PROVE  JanitorInv'
<1> USE DEF rowVars, neonVars
<1>1. run \in [Runs -> RunRecords] /\ run[p] \in RunRecords /\ RunOf(p) /\ run[p].at = "next"
  BY DEF JanitorInv, RunsTyped, Lock
<1>2. PICK r \in run[p].todo :
        /\ lock[r] = NoOne /\ lock' = [lock EXCEPT ![r] = p]
        /\ run' = [run EXCEPT ![p].at = "owner", ![p].cur = r, ![p].begun = r \in begun,
                              ![p].action = IF end[r] = "no" THEN "none" ELSE "skip"]
  BY DEF Lock
<1> DEFINE action == IF end[r] = "no" THEN "none" ELSE "skip"
<1> DEFINE reads == r \in begun
<1> DEFINE rec == [run[p] EXCEPT !.at = "owner", !.cur = r, !.begun = reads, !.action = action]
<1>3. r \in Regs /\ r \in 0..N /\ lock \in [Regs -> Runs \cup {NoOne}]
  BY <1>1, <1>2, JanitorAssumption DEF RunRecords, Regs, JanitorInv, RowsTyped
<1>4. run' = [run EXCEPT ![p] = rec]
  BY <1>1, <1>2
<1>5. action \in {"none", "skip"} /\ (action = "none" => end[r] = "no")
        /\ (action = "skip" => end[r] # "no")
  OBVIOUS
<1>13. reads \in BOOLEAN
  OBVIOUS
<1> HIDE DEF action, reads
<1>6. /\ rec \in RunRecords
      /\ rec.at = "owner" /\ rec.action = action /\ rec.cur = r
      /\ rec.cand = run[p].cand /\ rec.todo = run[p].todo /\ rec.out = run[p].out
  BY <1>1, <1>3, <1>5, <1>13 DEF RunRecords, RunSteps
<1> HIDE DEF rec
<1>7. RunsTyped' /\ Others(p) /\ run'[p] = rec
  BY <1>1, <1>4, <1>6 DEF RunsTyped, Others
<1>8. UNCHANGED <<due, end, begun, marked, tokens, usage, owner, key>>
  BY DEF Lock
<1>9. RowsTyped' /\ Rows'
  <2>1. lock' \in [Regs -> Runs \cup {NoOne}]
    BY <1>2, <1>3
  <2> QED  BY <1>8, <2>1 DEF JanitorInv, RowsTyped, Rows, MarkedIsDead, PurgedOnce, EndedIsComplete
<1>10. OneLock'
  <2>1. ASSUME NEW s \in Regs, lock'[s] \in Runs
        PROVE  run'[lock'[s]].cur = s /\ run'[lock'[s]].at \in {"owner", "delete", "key", "write"}
    <3>1. CASE s = r
      BY <1>2, <1>3, <1>6, <1>7, <3>1
    <3>2. CASE s # r
      <4>1. lock'[s] = lock[s] /\ Cur(lock[s]) = s /\ Working(lock[s])
        BY <1>2, <1>3, <2>1, <3>2 DEF JanitorInv, OneLock
      <4> QED  BY <1>1, <1>7, <2>1, <4>1 DEF Others, Cur, Working
    <3> QED  BY <3>1, <3>2
  <2> QED  BY <2>1 DEF OneLock, Cur, Working
<1>11. Forward(p)
  BY <1>2, <1>3, <1>8, JanitorAssumption DEF Forward
<1>12. RunOf(p)'
  BY <1>1, <1>2, <1>5, <1>6, <1>7, <1>8 DEF RunOf, Working, Cur, Holds
<1> QED  BY <1>7, <1>9, <1>10, <1>11, <1>12, RunsStay DEF JanitorInv

(* A deletion or a revocation at Neon, which nobody takes back. *)
LEMMA NeonStep ==
  ASSUME JanitorInv, NEW p \in Runs, RunsTyped', Others(p), RunOf(p)',
         UNCHANGED <<due, rowVars, lock>>, Working(p)', Cur(p)' = Cur(p),
         owner' \in [Regs -> {"holding", "human", "deleted"}],
         key' \in [Regs -> {"live", "dead", "none"}],
         \A r \in Regs : /\ owner[r] # "holding" => owner'[r] # "holding"
                         /\ key[r] # "live" => key'[r] = key[r]
  PROVE  JanitorInv'
<1> USE DEF rowVars
<1>1. RowsTyped' /\ OneLock' /\ Forward(p)
  BY LocksStay DEF JanitorInv, RowsTyped, Forward
<1>2. MarkedIsDead' /\ PurgedOnce'
  BY DEF JanitorInv, RowsTyped, Rows, MarkedIsDead, PurgedOnce
<1>3. EndedIsComplete'
  BY DEF JanitorInv, Rows, EndedIsComplete
<1> QED  BY <1>1, <1>2, <1>3, RunsStay DEF JanitorInv, Rows

(* The project is deleted. *)
LEMMA DeleteKeeps ==
  ASSUME JanitorInv, NEW p \in Runs, Delete(p)
  PROVE  JanitorInv'
<1>1. RunsTyped' /\ Others(p) /\ run'[p] = [run[p] EXCEPT !.at = "key"]
  BY StepTo DEF Delete, RunSteps, JanitorInv
<1>2. run[p] \in RunRecords /\ run[p].at = "delete" /\ RunOf(p) /\ Working(p)
  BY DEF JanitorInv, RunsTyped, Delete, Working
<1>3. /\ run'[p].at = "key" /\ run'[p].action = run[p].action /\ run'[p].cand = run[p].cand
      /\ run'[p].todo = run[p].todo /\ run'[p].cur = run[p].cur /\ run'[p].out = run[p].out
  BY <1>1, <1>2 DEF RunRecords
<1>4. /\ Working(p)' /\ Cur(p)' = Cur(p) /\ Holds(p)' = Holds(p) /\ Cur(p) \in Regs
      /\ UNCHANGED <<end, key>>
  BY <1>2, <1>3 DEF Working, Cur, Holds, Delete, rowVars, RunOf, RunRecords
<1>5. /\ owner' \in [Regs -> {"holding", "human", "deleted"}] /\ owner'[Cur(p)] = "deleted"
      /\ \A r \in Regs : owner[r] # "holding" => owner'[r] # "holding"
  BY <1>4 DEF Delete, JanitorInv, RowsTyped
<1>6. RunOf(p)'
  BY <1>2, <1>3, <1>4, <1>5 DEF RunOf
<1>7. UNCHANGED <<due, rowVars, key, lock>> /\ key \in [Regs -> {"live", "dead", "none"}]
  BY DEF Delete, JanitorInv, RowsTyped
<1> QED  BY <1>1, <1>4, <1>5, <1>6, <1>7, NeonStep

(* After the revocation the key opens nothing: it was dead before, or its row was
   not marked and it is dead now. *)
LEMMA RevokeKeeps ==
  ASSUME JanitorInv, NEW p \in Runs, RevokeKey(p)
  PROVE  JanitorInv'
<1>1. RunsTyped' /\ Others(p) /\ run'[p] = [run[p] EXCEPT !.at = "write"]
  BY StepTo DEF RevokeKey, RunSteps, JanitorInv
<1>2. run[p] \in RunRecords /\ run[p].at = "key" /\ RunOf(p) /\ Working(p)
  BY DEF JanitorInv, RunsTyped, RevokeKey, Working
<1>3. /\ run'[p].at = "write" /\ run'[p].action = run[p].action /\ run'[p].cand = run[p].cand
      /\ run'[p].todo = run[p].todo /\ run'[p].cur = run[p].cur /\ run'[p].out = run[p].out
  BY <1>1, <1>2 DEF RunRecords
<1>4. /\ Working(p)' /\ Cur(p)' = Cur(p) /\ Holds(p)' = Holds(p) /\ Cur(p) \in Regs
      /\ UNCHANGED <<end, owner>>
  BY <1>2, <1>3 DEF Working, Cur, Holds, RevokeKey, rowVars, RunOf, RunRecords
<1>5. /\ key' \in [Regs -> {"live", "dead", "none"}]
      /\ \A r \in Regs : key[r] # "live" => key'[r] = key[r]
      /\ key'[Cur(p)] # "live"
  BY <1>4 DEF RevokeKey, JanitorInv, RowsTyped, Rows, MarkedIsDead
<1>6. RunOf(p)'
  BY <1>2, <1>3, <1>4, <1>5 DEF RunOf
<1>7. UNCHANGED <<due, rowVars, owner, lock>> /\ owner \in [Regs -> {"holding", "human", "deleted"}]
  BY DEF RevokeKey, JanitorInv, RowsTyped
<1> QED  BY <1>1, <1>4, <1>5, <1>6, <1>7, NeonStep
-----------------------------------------------------------------------------
(* The steps that end the work on a registration. *)

(* Nothing was written: a skip, a failure whose transaction was rolled back. *)
LEMMA UnwrittenKeeps ==
  ASSUME JanitorInv, NEW p \in Runs, Skip(p) \/ Fails(p) \/ FailsForSure(p)
  PROVE  JanitorInv'
<1> USE DEF rowVars, neonVars
<1>1. Working(p) /\ Unlock(p) /\ UNCHANGED <<due, rowVars, neonVars>>
  BY DEF Skip, Fails, FailsForSure, RolledBack, Working
<1>2. PICK o \in Outcomes : Outcome(p, o) /\ (o = "failed" \/ end[Cur(p)] # "no")
  <2>1. CASE Skip(p)
    <3>1. Outcome(p, "skip") /\ run[p].at = "owner"
      BY <2>1 DEF Skip
    <3>2. run[p].action = "skip"
      BY <2>1, <3>1 DEF Skip, Decide, JanitorInv, RunOf
    <3>3. end[Cur(p)] # "no"
      BY <3>1, <3>2 DEF JanitorInv, RunOf
    <3> QED  BY <3>1, <3>3 DEF Outcomes
  <2>2. CASE Fails(p) \/ FailsForSure(p)
    BY <2>2 DEF Fails, FailsForSure, AfterError, Outcomes
  <2> QED  BY <2>1, <2>2
<1>3. RunsTyped' /\ Others(p) /\ RunOf(p)'
  BY <1>1, <1>2, OutcomeOf
<1>4. /\ OneLock' /\ lock' \in [Regs -> Runs \cup {NoOne}]
      /\ \A r \in Regs : lock'[r] # p /\ (lock'[r] \in Runs => lock'[r] = lock[r])
  BY <1>1, <1>3, UnlockFrees
<1>5. RowsTyped' /\ Rows'
  BY <1>1, <1>4 DEF JanitorInv, RowsTyped, Rows, MarkedIsDead, PurgedOnce, EndedIsComplete
<1>6. Forward(p)
  BY <1>1, <1>4 DEF Forward
<1> QED  BY <1>3, <1>4, <1>5, <1>6, RunsStay DEF JanitorInv

(* The four statements at once: the registration had not ended while its lock was
   held, its project is gone or the human's and its key opens nothing. *)
LEMMA ApplyKeeps ==
  ASSUME JanitorInv, NEW p \in Runs, run[p].at = "write", Holds(p), Apply(p, 4),
         UNCHANGED <<due, neonVars>>, lock' \in [Regs -> Runs \cup {NoOne}]
  PROVE  /\ RowsTyped' /\ Rows'
         /\ end[Cur(p)] = "no" /\ end' = [end EXCEPT ![Cur(p)] = Reason(p)]
         /\ Reason(p) \in Reasons
<1> USE DEF neonVars
<1>1. RunOf(p) /\ run[p] \in RunRecords /\ Working(p)
  BY DEF JanitorInv, RunsTyped, Working
<1>2. /\ Cur(p) \in Regs /\ end[Cur(p)] = "no" /\ owner[Cur(p)] # "holding"
      /\ key[Cur(p)] # "live"
  BY <1>1 DEF RunOf, RunRecords, Ending
<1>3. Reason(p) \in Reasons
  BY DEF Reason, Reasons
<1>4. /\ end' = [end EXCEPT ![Cur(p)] = Reason(p)]
      /\ tokens' = tokens \ {Cur(p)}
      /\ marked' = IF key[Cur(p)] # "none" THEN marked \cup {Cur(p)} ELSE marked
      /\ usage' = [usage EXCEPT ![Cur(p)] = Append(usage[Cur(p)], Reason(p))]
      /\ begun' = begun
  BY <1>2 DEF Apply, JanitorInv, RowsTyped
<1>5. usage[Cur(p)] = <<>>
  BY <1>2 DEF JanitorInv, Rows, PurgedOnce, Reasons
<1>6. Append(usage[Cur(p)], Reason(p)) = <<Reason(p)>> /\ <<Reason(p)>> \in Seq(Reasons)
  BY <1>3, <1>5
<1>7. RowsTyped'
  <2>1. end' \in [Regs -> {"no", "poll"} \cup Reasons]
    BY <1>2, <1>3, <1>4 DEF JanitorInv, RowsTyped
  <2>2. usage' \in [Regs -> Seq(Reasons)]
    BY <1>2, <1>4, <1>6 DEF JanitorInv, RowsTyped
  <2>3. marked' \subseteq Regs /\ tokens' \subseteq Regs /\ begun' \subseteq Regs
    BY <1>2, <1>4 DEF JanitorInv, RowsTyped
  <2> QED  BY <2>1, <2>2, <2>3 DEF JanitorInv, RowsTyped
<1>8. MarkedIsDead'
  BY <1>2, <1>4 DEF JanitorInv, RowsTyped, Rows, MarkedIsDead
<1>9. PurgedOnce'
  <2>1. ASSUME NEW r \in Regs
        PROVE  usage'[r] = IF end'[r] \in Reasons THEN <<end'[r]>> ELSE <<>>
    <3>1. CASE r = Cur(p)
      BY <1>2, <1>3, <1>4, <1>6, <3>1 DEF JanitorInv, RowsTyped
    <3>2. CASE r # Cur(p)
      <4>1. usage'[r] = usage[r] /\ end'[r] = end[r]
        BY <1>2, <1>4, <3>2 DEF JanitorInv, RowsTyped
      <4> QED  BY <4>1 DEF JanitorInv, Rows, PurgedOnce
    <3> QED  BY <3>1, <3>2
  <2> QED  BY <2>1 DEF PurgedOnce
<1>10. EndedIsComplete'
  <2>1. ASSUME NEW r \in Regs, end'[r] \in Reasons
        PROVE  /\ owner'[r] # "holding" /\ key'[r] # "live" /\ (key'[r] = "dead" => r \in marked')
               /\ r \notin tokens'
    <3>1. CASE r = Cur(p)
      BY <1>2, <1>4, <3>1
    <3>2. CASE r # Cur(p)
      <4>1. end[r] \in Reasons
        BY <1>2, <1>4, <2>1, <3>2 DEF JanitorInv, RowsTyped
      <4> QED  BY <1>4, <4>1 DEF JanitorInv, Rows, EndedIsComplete
    <3> QED  BY <3>1, <3>2
  <2> QED  BY <2>1 DEF EndedIsComplete
<1> QED  BY <1>2, <1>3, <1>4, <1>7, <1>8, <1>9, <1>10 DEF Rows

(* The commit, heard of or not. *)
LEMMA CommitKeeps ==
  ASSUME JanitorInv, NEW p \in Runs, Commit(p) \/ CommitUnheard(p)
  PROVE  JanitorInv'
<1>1. /\ run[p].at = "write" /\ Holds(p) /\ Apply(p, 4) /\ Unlock(p) /\ Working(p)
      /\ UNCHANGED <<due, neonVars>>
  BY DEF Commit, CommitUnheard, Working
<1>2. RunOf(p) /\ run[p].action \in Ending /\ Cur(p) \in Regs
  BY <1>1 DEF JanitorInv, RunOf, RunsTyped, RunRecords
<1>3. PICK o \in Outcomes : Outcome(p, o)
  BY <1>2 DEF Commit, CommitUnheard, Outcomes, Ending
<1>4. lock' \in [Regs -> Runs \cup {NoOne}]
  BY <1>1 DEF JanitorInv, RowsTyped, Unlock
<1>5. /\ RowsTyped' /\ Rows'
      /\ end[Cur(p)] = "no" /\ end' = [end EXCEPT ![Cur(p)] = Reason(p)]
      /\ Reason(p) \in Reasons
  BY <1>1, <1>4, ApplyKeeps
<1>6. /\ end'[Cur(p)] # "no"
      /\ \A r \in Regs : /\ end[r] # "no" => end'[r] # "no"
                         /\ r # Cur(p) => end'[r] = end[r]
  BY <1>2, <1>5 DEF Reasons, JanitorInv, RowsTyped
<1>7. RunsTyped' /\ Others(p) /\ RunOf(p)'
  BY <1>1, <1>3, <1>6, OutcomeOf
<1>8. /\ OneLock'
      /\ \A r \in Regs : lock'[r] # p /\ (lock'[r] \in Runs => lock'[r] = lock[r])
  BY <1>1, <1>7, UnlockFrees
<1>9. Forward(p)
  BY <1>1, <1>6, <1>8 DEF Forward, Holds, neonVars
<1> QED  BY <1>5, <1>7, <1>8, <1>9, RunsStay DEF JanitorInv

(* A backend that drops, a process that dies: the lock is free, nothing is written. *)
LEMMA LossKeeps ==
  ASSUME JanitorInv, NEW p \in Runs, DropBackend(p) \/ Die(p)
  PROVE  JanitorInv'
<1> USE DEF rowVars, neonVars
<1>1. Unlock(p) /\ UNCHANGED <<due, rowVars, neonVars>>
  BY DEF DropBackend, Die
<1>2. RunsTyped' /\ Others(p)
  BY NothingRun DEF JanitorInv, RunsTyped, Others, DropBackend, Die
<1>3. /\ OneLock' /\ lock' \in [Regs -> Runs \cup {NoOne}]
      /\ \A r \in Regs : lock'[r] # p /\ (lock'[r] \in Runs => lock'[r] = lock[r])
  BY <1>1, <1>2, UnlockFrees
<1>4. RunOf(p)'
  <2>1. CASE DropBackend(p)
    <3>1. run' = run /\ RunOf(p) /\ run[p] \in RunRecords
      BY <2>1 DEF DropBackend, JanitorInv, RunsTyped
    <3>2. Working(p) => lock'[Cur(p)] # p
      BY <1>3, <3>1 DEF RunOf, RunRecords
    <3> QED  BY <1>1, <3>1, <3>2 DEF RunOf, Working, Holds, Cur
  <2>2. CASE Die(p)
    <3>1. run'[p] = NoRun
      BY <2>2 DEF Die, JanitorInv, RunsTyped
    <3> QED  BY <3>1, NothingRun DEF RunOf, Working
  <2> QED  BY <2>1, <2>2
<1>5. RowsTyped' /\ Rows'
  BY <1>1, <1>3 DEF JanitorInv, RowsTyped, Rows, MarkedIsDead, PurgedOnce, EndedIsComplete
<1>6. Forward(p)
  BY <1>1, <1>3 DEF Forward
<1> QED  BY <1>2, <1>3, <1>4, <1>5, <1>6, RunsStay DEF JanitorInv

-----------------------------------------------------------------------------
(* Besides the runs. *)

(* A registration becomes due. *)
LEMMA AgeKeeps ==
  ASSUME JanitorInv, Age \/ UNCHANGED vars
  PROVE  JanitorInv'
<1>1. UNCHANGED <<end, begun, marked, tokens, usage, owner, key, lock, run>> /\ due' \in 0..N
  BY JanitorAssumption DEF Age, vars, rowVars, neonVars, JanitorInv, RowsTyped
<1> QED
  BY <1>1 DEF JanitorInv, RowsTyped, RunsTyped, OneLock, Rows, MarkedIsDead, PurgedOnce,
     EndedIsComplete, RunOf, Working, Holds, Cur

(* A late poll reconciles a registration nobody has locked. *)
LEMMA PollKeeps ==
  ASSUME JanitorInv, Poll
  PROVE  JanitorInv'
<1>1. PICK r \in begun : /\ end[r] = "no" /\ lock[r] = NoOne
                         /\ end' = [end EXCEPT ![r] = "poll"] /\ tokens' = tokens \ {r}
  BY DEF Poll
<1>2. UNCHANGED <<due, begun, marked, usage, owner, key, lock, run>>
  BY DEF Poll, neonVars
<1>3. \A s \in Regs : end'[s] = IF s = r THEN "poll" ELSE end[s]
  BY <1>1 DEF JanitorInv, RowsTyped
<1>4. RowsTyped' /\ OneLock'
  BY <1>1, <1>2 DEF JanitorInv, RowsTyped, OneLock, Cur, Working
<1>5. Rows'
  BY <1>1, <1>2, <1>3 DEF JanitorInv, RowsTyped, Rows, MarkedIsDead, PurgedOnce, EndedIsComplete,
     Reasons
<1>6. ASSUME NEW p \in Runs  PROVE RunOf(p)'
  <2>1. RunOf(p) /\ run[p] \in RunRecords /\ run' = run
    BY <1>2 DEF JanitorInv, RunsTyped
  <2>2. /\ \A s \in Regs : end[s] # "no" => end'[s] # "no"
        /\ \A s \in Regs : lock[s] = p => end'[s] = end[s]
    BY <1>1, <1>3, JanitorAssumption
  <2>3. Working(p) => Cur(p) \in Regs
    BY <2>1 DEF RunOf, RunRecords
  <2>4. DOMAIN run[p].out \subseteq Regs
    BY <2>1 DEF RunOf, RunRecords
  <2>5. /\ Working(p)' = Working(p) /\ Cur(p)' = Cur(p) /\ Holds(p)' = Holds(p)
        /\ UNCHANGED <<owner, key>>
    BY <1>2 DEF Working, Cur, Holds
  <2>6. Working(p) /\ Holds(p) => end'[Cur(p)] = end[Cur(p)]
    BY <2>2, <2>3 DEF Holds
  <2>7. run[p].at = "owner" => Working(p)
    BY DEF Working
  <2> QED  BY <2>1, <2>2, <2>3, <2>4, <2>5, <2>6, <2>7 DEF RunOf
<1> QED  BY <1>2, <1>4, <1>5, <1>6 DEF JanitorInv, RunsTyped

-----------------------------------------------------------------------------
(* At first no run has begun, and nothing has ended. *)
LEMMA InitJanitor == Init => JanitorInv
<1> SUFFICES ASSUME Init PROVE JanitorInv
  OBVIOUS
<1>0. /\ \A r \in Regs : /\ key[r] \in {"live", "dead", "none"}
                         /\ owner[r] \in {"holding", "human", "deleted"}
                         /\ r \in marked => key[r] = "dead"
      /\ key = [r \in Regs |-> key[r]] /\ owner = [r \in Regs |-> owner[r]]
      /\ marked \subseteq Regs
  <2>1. PICK left \in [Regs -> Leftovers] :
          /\ owner = [r \in Regs |-> left[r].owner]
          /\ key = [r \in Regs |-> left[r].key]
          /\ marked = {r \in Regs : left[r].marked}
    BY DEF Init
  <2>2. ASSUME NEW r \in Regs
        PROVE  /\ key[r] \in {"live", "dead", "none"}
               /\ owner[r] \in {"holding", "human", "deleted"}
               /\ r \in marked => key[r] = "dead"
    <3>1. left[r] \in Left
      BY JanitorAssumption
    <3>2. key[r] = left[r].key /\ owner[r] = left[r].owner /\ (r \in marked => left[r].marked)
      BY <2>1
    <3>3. /\ left[r].key \in {"live", "dead", "none"}
          /\ left[r].owner \in {"holding", "human", "deleted"}
          /\ left[r].marked => left[r].key = "dead"
      BY <3>1 DEF Left
    <3> QED  BY <3>2, <3>3, Zenon
  <2>3. key = [r \in Regs |-> key[r]] /\ owner = [r \in Regs |-> owner[r]]
    BY <2>1
  <2>4. marked \subseteq Regs
    BY <2>1
  <2> QED  BY <2>2, <2>3, <2>4, Zenon
<1>1. RowsTyped
  <2>1. due \in 0..N
    BY JanitorAssumption DEF Init
  <2>2. begun \subseteq Regs /\ marked \subseteq Regs /\ tokens \subseteq Regs
    BY <1>0 DEF Init
  <2>3. /\ key \in [Regs -> {"live", "dead", "none"}]
        /\ owner \in [Regs -> {"holding", "human", "deleted"}]
    <3>1. /\ \A r \in Regs : key[r] \in {"live", "dead", "none"}
          /\ \A r \in Regs : owner[r] \in {"holding", "human", "deleted"}
          /\ key = [r \in Regs |-> key[r]] /\ owner = [r \in Regs |-> owner[r]]
      BY <1>0
    <3>2. /\ [r \in Regs |-> key[r]] \in [Regs -> {"live", "dead", "none"}]
          /\ [r \in Regs |-> owner[r]] \in [Regs -> {"holding", "human", "deleted"}]
      BY <3>1
    <3> QED  BY <3>1, <3>2, Zenon
  <2>4. end \in [Regs -> {"no", "poll"} \cup Reasons] /\ usage \in [Regs -> Seq(Reasons)]
    BY DEF Init
  <2> QED  BY <2>1, <2>2, <2>3, <2>4 DEF Init, RowsTyped
<1>2. RunsTyped /\ \A p \in Runs : RunOf(p)
  BY NothingRun DEF Init, RunsTyped, RunOf, Working
<1>3. OneLock
  BY JanitorAssumption DEF Init, OneLock
<1>4. Rows
  BY <1>0 DEF Init, Rows, MarkedIsDead, PurgedOnce, EndedIsComplete, Reasons
<1> QED  BY <1>1, <1>2, <1>3, <1>4 DEF JanitorInv

(* Every step. *)
LEMMA NextJanitor == JanitorInv /\ [Next]_vars => JanitorInv'
<1> SUFFICES ASSUME JanitorInv, [Next]_vars PROVE JanitorInv'
  OBVIOUS
<1>1. CASE \E p \in Runs : Trigger(p) \/ Progress(p)
  BY <1>1, TriggerKeeps, ListKeeps, LockKeeps, OwnerKeeps, UnwrittenKeeps, DeleteKeeps, RevokeKeeps,
     StatementKeeps, CommitKeeps, AnswerKeeps DEF Progress
<1>2. CASE \E p \in Runs : CommitUnheard(p) \/ Fails(p) \/ DropBackend(p) \/ Die(p)
  BY <1>2, CommitKeeps, UnwrittenKeeps, LossKeeps
<1>3. CASE Age \/ Poll \/ UNCHANGED vars
  BY <1>3, AgeKeeps, PollKeeps
<1> QED  BY <1>1, <1>2, <1>3 DEF Next

(* What a run of the janitor knows at each of its steps, with or without its lock,
   and what the rows say in between: for any number of overlapping runs. *)
THEOREM JanitorStepByStep == Spec => []JanitorInv
<1>1. JanitorInv /\ [Next]_vars => JanitorInv'
  BY NextJanitor
<1> QED  BY <1>1, InitJanitor, PTL DEF Spec

(* Every variable has its type, and who holds a lock works on that registration. *)
THEOREM JanitorTyped == Spec => []TypeOK
<1>1. JanitorInv => TypeOK
  <2> SUFFICES ASSUME JanitorInv PROVE TypeOK
    OBVIOUS
  <2>1. ASSUME NEW p \in Runs
        PROVE  /\ run[p].at \in RunSteps /\ run[p].todo \subseteq run[p].cand
               /\ DOMAIN run[p].out \subseteq run[p].cand
               /\ \A r \in DOMAIN run[p].out : run[p].out[r] \in Outcomes
    <3>1. run[p] \in RunRecords /\ RunOf(p)
      BY DEF JanitorInv, RunsTyped
    <3>2. PICK S \in SUBSET Regs : run[p].out \in [S -> Outcomes]
      BY <3>1 DEF RunRecords, Answers
    <3> QED  BY <3>1, <3>2 DEF RunOf, RunRecords
  <2> QED  BY <2>1 DEF TypeOK, JanitorInv, RowsTyped, OneLock, RunSteps
<1> QED  BY <1>1, JanitorStepByStep, PTL

(* The terminal state of a registration and its usage row land together, and once:
   whatever overlaps, fails, dies or never hears of its commit. *)
THEOREM PurgedOnceForAll == Spec => []PurgedOnce
<1>1. JanitorInv => PurgedOnce
  BY DEF JanitorInv, Rows
<1> QED  BY <1>1, JanitorStepByStep, PTL

(* What the janitor has ended opens nothing any more. *)
THEOREM EndedForGood == Spec => []EndedIsComplete
<1>1. JanitorInv => EndedIsComplete
  BY DEF JanitorInv, Rows
<1> QED  BY <1>1, JanitorStepByStep, PTL

(* The answer of a run accounts for every registration of its list: it has ended,
   or is counted as a failure. *)
THEOREM AnswersAccount == Spec => []AnswerAccounts
<1>1. JanitorInv => AnswerAccounts
  BY DEF JanitorInv, RunOf, AnswerAccounts
<1> QED  BY <1>1, JanitorStepByStep, PTL
=============================================================================
