----------------------------- MODULE JanitorRun -----------------------------
(***************************************************************************)
(* A run of the janitor over all registrations that are due: what          *)
(* RetentionPurge does for one of them, one after the other, with the      *)
(* transaction that settles it. The schedule may deliver a trigger twice,  *)
(* a run may die, and a project may fail at Neon every day.                *)
(***************************************************************************)
EXTENDS Naturals, Sequences, FiniteSets

CONSTANTS
  N,          \* registrations, numbered in the order of their creation
  Poison,     \* those whose project Neon answers with an error, always
  Runs,       \* runs that may overlap
  NoOne,      \* the holder of a free lock
  Leftovers,  \* the states registrations come of age in
  MaxFaults   \* bound: other failures

(* In what state a registration can come of age: whole, or left by a provisioning
   that stopped before the key row or before the token rows, by a DELETE that
   stopped after any of its calls, by a claim that stopped after any of its
   steps, or by a claim that followed such a DELETE. The freeze of a claim
   revokes the access tokens only, so the row of the assertion lives on unless
   the client has revoked it. *)
Left == {s \in [owner : {"holding", "human", "deleted"}, begun : BOOLEAN,
                key : {"live", "dead", "none"}, marked : BOOLEAN, token : BOOLEAN] :
  /\ s.key = "none" => s.owner = "holding" /\ ~s.begun /\ ~s.token
  /\ s.key = "dead" => s.begun \/ s.owner = "deleted"
  /\ s.marked => s.key = "dead"
  /\ s.owner = "human" => s.begun /\ s.marked}

ASSUME JanitorAssumption ==
  /\ Leftovers \subseteq Left
  /\ N \in Nat /\ MaxFaults \in Nat
  /\ Poison \subseteq 1..N
  /\ NoOne \notin Runs

Regs == 1..N

VARIABLES
  due,      \* the first `due` registrations are past the retention period
  end,      \* what ended each: "no", "poll" or the reason the janitor gave
  begun,    \* those whose claim is pending or accepted
  owner,    \* who has each project at Neon
  key,      \* each key: "live" or "dead" at Neon, or "none" was ever stored
  marked,   \* those whose key row is marked revoked
  tokens,   \* those with live token rows
  usage,    \* the `unclaimed_purged` rows of each
  lock,     \* who holds each registration's lock
  run,      \* each run, its next step and local variables
  faults

rowVars == <<end, begun, marked, tokens, usage>>
neonVars == <<owner, key>>
vars == <<due, rowVars, neonVars, lock, run, faults>>

NoRun == [at |-> "idle", cand |-> {}, todo |-> {}, cur |-> 0, action |-> "none",
          begun |-> FALSE, writes |-> 0, out |-> [r \in {} |-> "none"]]

Goto(p, step) == run' = [run EXCEPT ![p].at = step]
Cur(p) == run[p].cur
Holds(p) == lock[Cur(p)] = p

-----------------------------------------------------------------------------
(* parseScheduleTrigger, after the check of the header in the route: Neon sets
   the header itself, and the body has to agree with it. *)
InvocationIds == {"i1", "i2"}

TriggerError(header, body) ==
  CASE header = "none" -> "missing_header"
    [] header # "none" /\ body \notin InvocationIds -> "invalid_body"
    [] header # "none" /\ body \in InvocationIds /\ body # header -> "invocation_id_mismatch"
    [] OTHER -> "ok"

(* POST /. Neither the id of the invocation nor its time is remembered. *)
Trigger(p) ==
  /\ run[p].at \in {"idle", "answered"}
  /\ \E header \in InvocationIds \cup {"none"}, body \in InvocationIds \cup {"invalid"} :
       TriggerError(header, body) = "ok"
  /\ run' = [run EXCEPT ![p] = [NoRun EXCEPT !.at = "list"]]
  /\ UNCHANGED <<due, rowVars, neonVars, lock, faults>>

(* listRetentionCandidates, on the pool and without any lock. *)
List(p) ==
  /\ run[p].at = "list"
  /\ LET cand == {r \in 1..due : end[r] = "no"}
     IN run' = [run EXCEPT ![p].at = "next", ![p].cand = cand, ![p].todo = cand]
  /\ UNCHANGED <<due, rowVars, neonVars, lock, faults>>

(* purgeOne for the oldest that is left: findRegistration under its lock. *)
Lock(p) ==
  /\ run[p].at = "next"
  /\ \E r \in run[p].todo :
       /\ \A s \in run[p].todo : r <= s
       /\ lock[r] = NoOne
       /\ lock' = [lock EXCEPT ![r] = p]
       /\ run' = [run EXCEPT ![p].at = "owner", ![p].cur = r, ![p].begun = r \in begun,
                             ![p].action = IF end[r] = "no" THEN "none" ELSE "skip"]
  /\ UNCHANGED <<due, rowVars, neonVars, faults>>

(* The counters of PurgeRunResult count these outcomes. *)
Outcome(p, outcome) ==
  run' = [run EXCEPT
    ![p].at = "next", ![p].todo = @ \ {Cur(p)}, ![p].cur = 0, ![p].action = "none",
    ![p].begun = FALSE, ![p].writes = 0,
    ![p].out = [r \in DOMAIN @ \cup {Cur(p)} |-> IF r = Cur(p) THEN outcome ELSE @[r]]]

(* Wrong variant: the session keeps its lock in the pool. *)
UnlockNone(p) == p \in Runs /\ UNCHANGED lock

Unlock(p) == lock' = [r \in Regs |-> IF lock[r] = p THEN NoOne ELSE lock[r]]

Neon(p) == Cur(p) \notin Poison

(* decideLockedPurgeAction *)
Decide(p) ==
  CASE run[p].action = "skip" -> "skip"
    [] run[p].action # "skip" /\ owner[Cur(p)] = "holding" -> "delete"
    [] run[p].action # "skip" /\ owner[Cur(p)] # "holding"
         /\ (owner[Cur(p)] = "human" \/ run[p].begun) -> "mark_claimed"
    [] OTHER -> "already_gone"

(* getProjectOwnerOrg *)
Owner(p) ==
  /\ run[p].at = "owner"
  /\ Neon(p)
  /\ Decide(p) # "skip"
  /\ run' = [run EXCEPT ![p].action = Decide(p),
                        ![p].at = IF Decide(p) = "delete" THEN "delete" ELSE "key"]
  /\ UNCHANGED <<due, rowVars, neonVars, lock, faults>>

Skip(p) ==
  /\ run[p].at = "owner"
  /\ Neon(p)
  /\ Decide(p) = "skip"
  /\ Outcome(p, "skip")
  /\ Unlock(p)
  /\ UNCHANGED <<due, rowVars, neonVars, faults>>

(* deleteClaimableProject; a 404 is fine. *)
Delete(p) ==
  /\ run[p].at = "delete"
  /\ Neon(p)
  /\ owner' = [owner EXCEPT ![Cur(p)] = "deleted"]
  /\ Goto(p, "key")
  /\ UNCHANGED <<due, rowVars, key, lock, faults>>

(* revokeUpstreamProjectKey: no row, a marked row and a 404 are fine. *)
RevokeKey(p) ==
  /\ run[p].at = "key"
  /\ Holds(p) /\ Neon(p)
  /\ key' = [key EXCEPT ![Cur(p)] = IF @ = "live" /\ Cur(p) \notin marked THEN "dead" ELSE @]
  /\ Goto(p, "write")
  /\ UNCHANGED <<due, rowVars, owner, lock, faults>>

-----------------------------------------------------------------------------
(* commitRetentionCleanup: the four statements of applyRetentionCleanup. *)
Reason(p) ==
  CASE run[p].action = "delete" -> "deleted"
    [] run[p].action = "mark_claimed" -> "claimed"
    [] OTHER -> "already_gone"

(* Wrong variant: a claimed registration loses its access tokens only, as in the
   freeze. *)
ApplyKeepsAssertion(p, n) ==
  /\ end' = IF n >= 1 THEN [end EXCEPT ![Cur(p)] = Reason(p)] ELSE end
  /\ tokens' = IF n >= 2 /\ Reason(p) # "claimed" THEN tokens \ {Cur(p)} ELSE tokens
  /\ marked' = IF n >= 3 /\ key[Cur(p)] # "none" THEN marked \cup {Cur(p)} ELSE marked
  /\ usage' = IF n >= 4 THEN [usage EXCEPT ![Cur(p)] = Append(@, Reason(p))] ELSE usage
  /\ UNCHANGED begun

(* The rows, once the first n statements have taken effect. *)
Apply(p, n) ==
  /\ end' = IF n >= 1 THEN [end EXCEPT ![Cur(p)] = Reason(p)] ELSE end
  /\ tokens' = IF n >= 2 THEN tokens \ {Cur(p)} ELSE tokens
  /\ marked' = IF n >= 3 /\ key[Cur(p)] # "none" THEN marked \cup {Cur(p)} ELSE marked
  /\ usage' = IF n >= 4 THEN [usage EXCEPT ![Cur(p)] = Append(@, Reason(p))] ELSE usage
  /\ UNCHANGED begun

Statement(p) ==
  /\ run[p].at = "write"
  /\ Holds(p)
  /\ run[p].writes < 4
  /\ run' = [run EXCEPT ![p].writes = @ + 1]
  /\ UNCHANGED <<due, rowVars, neonVars, lock, faults>>

Commit(p) ==
  /\ run[p].at = "write"
  /\ Holds(p)
  /\ run[p].writes = 4
  /\ Apply(p, 4)
  /\ Outcome(p, run[p].action)
  /\ Unlock(p)
  /\ UNCHANGED <<due, neonVars, faults>>

(* The commit is done, the answer to it is lost: a failure to this run. *)
CommitUnheard(p) ==
  /\ run[p].at = "write"
  /\ Holds(p)
  /\ run[p].writes = 4
  /\ faults < MaxFaults
  /\ faults' = faults + 1
  /\ Apply(p, 4)
  /\ Outcome(p, "failed")
  /\ Unlock(p)
  /\ UNCHANGED <<due, neonVars>>

-----------------------------------------------------------------------------
Working(p) == run[p].at \in {"owner", "delete", "key", "write"}

(* Wrong variant: without the transaction the statements so far stay. *)
RolledBackAutocommit(p) == Apply(p, run[p].writes)

(* What a failure leaves of the transaction. *)
RolledBack(p) == p \in Runs /\ UNCHANGED rowVars

(* Wrong variant: an error ends the run. *)
AfterErrorStop(p) ==
  run' = [run EXCEPT ![p] = [@ EXCEPT !.at = "answered", !.cur = 0, !.writes = 0]]

(* Wrong variant: an error is reported and the candidate counts as skipped. *)
AfterErrorSkip(p) == Outcome(p, "skip")

(* The catch of the loop: counted, and on to the next candidate. *)
AfterError(p) == Outcome(p, "failed")

(* A call or a statement fails. *)
Fails(p) ==
  /\ Working(p)
  /\ faults < MaxFaults
  /\ faults' = faults + 1
  /\ RolledBack(p)
  /\ AfterError(p)
  /\ Unlock(p)
  /\ UNCHANGED <<due, neonVars>>

(* Neon fails for this project, or the statement finds its backend gone. *)
FailsForSure(p) ==
  /\ Working(p)
  /\ \/ ~Neon(p) /\ run[p].at \in {"owner", "delete", "key"}
     \/ ~Holds(p) /\ run[p].at \in {"key", "write"}
  /\ RolledBack(p)
  /\ AfterError(p)
  /\ Unlock(p)
  /\ UNCHANGED <<due, neonVars, faults>>

(* The backend drops under the run: its lock is free, its transaction gone. *)
DropBackend(p) ==
  /\ Working(p) /\ Holds(p)
  /\ faults < MaxFaults
  /\ faults' = faults + 1
  /\ Unlock(p)
  /\ UNCHANGED <<due, rowVars, neonVars, run>>

(* The process dies. *)
Die(p) ==
  /\ run[p].at \notin {"idle", "answered"}
  /\ faults < MaxFaults
  /\ faults' = faults + 1
  /\ run' = [run EXCEPT ![p] = NoRun]
  /\ Unlock(p)
  /\ UNCHANGED <<due, rowVars, neonVars>>

(* The counts, as JSON. *)
Answer(p) ==
  /\ run[p].at = "next"
  /\ run[p].todo = {}
  /\ Goto(p, "answered")
  /\ UNCHANGED <<due, rowVars, neonVars, lock, faults>>

-----------------------------------------------------------------------------
Age ==
  /\ due < N
  /\ due' = due + 1
  /\ UNCHANGED <<rowVars, neonVars, lock, run, faults>>

(* A late status poll reconciles a claim that went through; see ClaimStatus. It
   takes a token. *)
Poll ==
  /\ \E r \in begun \cap tokens :
       /\ end[r] = "no" /\ owner[r] = "human" /\ lock[r] = NoOne
       /\ end' = [end EXCEPT ![r] = "poll"]
       /\ tokens' = tokens \ {r}
  /\ UNCHANGED <<due, begun, marked, usage, neonVars, lock, run, faults>>

(* An offer is long over by then, so no project moves any more. *)
Init ==
  /\ due = 0
  /\ end = [r \in Regs |-> "no"]
  /\ \E left \in [Regs -> Leftovers] :
       /\ owner = [r \in Regs |-> left[r].owner]
       /\ key = [r \in Regs |-> left[r].key]
       /\ begun = {r \in Regs : left[r].begun}
       /\ marked = {r \in Regs : left[r].marked}
       /\ tokens = {r \in Regs : left[r].token}
  /\ usage = [r \in Regs |-> <<>>]
  /\ lock = [r \in Regs |-> NoOne]
  /\ run = [p \in Runs |-> NoRun]
  /\ faults = 0

Progress(p) ==
  \/ List(p) \/ Lock(p) \/ Owner(p) \/ Skip(p) \/ Delete(p) \/ RevokeKey(p)
  \/ Statement(p) \/ Commit(p) \/ FailsForSure(p) \/ Answer(p)

Next ==
  \/ \E p \in Runs : Trigger(p) \/ Progress(p)
  \/ \E p \in Runs : CommitUnheard(p) \/ Fails(p) \/ DropBackend(p) \/ Die(p)
  \/ Age \/ Poll

Spec == Init /\ [][Next]_vars

(* A trigger every day; a run goes on until it has answered or dies, and waits
   for a lock in turn with the others. *)
FairSpec ==
  /\ Spec
  /\ \A p \in Runs : WF_vars(Trigger(p)) /\ WF_vars(Progress(p)) /\ SF_vars(Lock(p))

-----------------------------------------------------------------------------
Reasons == {"deleted", "already_gone", "claimed"}
Outcomes == {"delete", "mark_claimed", "already_gone", "skip", "failed"}

(* Every variable has its type; who holds a lock works on that registration. *)
TypeOK ==
  /\ due \in 0..N
  /\ end \in [Regs -> {"no", "poll"} \cup Reasons]
  /\ begun \subseteq Regs /\ marked \subseteq Regs /\ tokens \subseteq Regs
  /\ owner \in [Regs -> {"holding", "human", "deleted"}]
  /\ key \in [Regs -> {"live", "dead", "none"}]
  /\ \A r \in Regs : lock[r] \in Runs => Cur(lock[r]) = r
  /\ \A p \in Runs :
       /\ run[p].at \in {"idle", "list", "next", "owner", "delete", "key", "write", "answered"}
       /\ run[p].todo \subseteq run[p].cand
       /\ DOMAIN run[p].out \subseteq run[p].cand
       /\ \A r \in DOMAIN run[p].out : run[p].out[r] \in Outcomes

(* "Terminal registration state and the usage row have to land together or a
   failed run is skipped forever" (store.ts): one row for each registration the
   janitor has ended, with the reason it ended for, and none for any other,
   however many runs overlap, fail or never hear of their commit. *)
PurgedOnce ==
  \A r \in Regs : usage[r] = IF end[r] \in Reasons THEN <<end[r]>> ELSE <<>>

(* A registration the janitor has ended opens nothing any more: its project is
   gone or the human's, its key is dead and its tokens are revoked. *)
EndedIsComplete ==
  \A r \in Regs : end[r] \in Reasons =>
    /\ owner[r] # "holding"
    /\ key[r] # "live" /\ (key[r] = "dead" => r \in marked)
    /\ r \notin tokens

(* The answer of a run accounts for every candidate, and 200, which is no failure
   among them, means that all of them have ended (janitorResponseStatus). *)
AnswerAccounts ==
  \A p \in Runs : run[p].at = "answered" =>
    /\ DOMAIN run[p].out = run[p].cand
    /\ \A r \in run[p].cand : run[p].out[r] = "failed" \/ end[r] # "no"

(* One project that fails every day does not keep the younger ones from their
   purge. *)
DueIsSettled ==
  \A r \in Regs \ Poison : r <= due ~> end[r] # "no"
=============================================================================
