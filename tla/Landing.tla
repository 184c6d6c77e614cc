------------------------------ MODULE Landing ------------------------------
(***************************************************************************)
(* Several jobs that land on one base branch: the schema lock and the      *)
(* merge lock of stages/merge.py, and how long each of them is held.       *)
(*                                                                         *)
(* JobPipeline follows one job through its merge; here the steps of that   *)
(* merge are those at which another job can come between.  A lock is a row *)
(* with an owner and the time it was taken, kept as an age: it is free to  *)
(* others once it is older than its TTL, and nothing renews it.            *)
(*                                                                         *)
(* The merge lock belongs to a worker slot and is released when the merge  *)
(* handler leaves its critical section.  The schema lock belongs to a job  *)
(* that changes the database schema, is taken first and is released when   *)
(* the job is deployed or has failed.                                      *)
(*                                                                         *)
(* The merge handler does not look whether its job was cancelled: it goes  *)
(* on, and only its saves of the job are void.                             *)
(***************************************************************************)
EXTENDS Integers, FiniteSets

CONSTANTS
    LandJobs,       \* jobs of one project that have passed their gates
    SchemaJobs,     \* those whose diff touches the schema (is_schema_touching)
    Slots,          \* worker slots: owners of the merge lock
    Nobody,         \* no owner
    MergeTTL,       \* merge_lock_ttl
    SchemaTTL,      \* schema_lock_ttl
    InlockSteps,    \* merge_inlock_steps
    Overruns,       \* locks whose holder may outlive the TTL
    MaxPushes,      \* model bound: pushes to the base by somebody else
    MaxRounds,      \* model bound: times a job comes back to the merge
    MaxDeaths       \* model bound: workers that die

ASSUME LandAssumption ==
    /\ SchemaJobs \subseteq LandJobs
    /\ Nobody \notin LandJobs \union Slots
    /\ MergeTTL \in Nat /\ SchemaTTL \in Nat /\ InlockSteps \in Nat \ {0}
    /\ Overruns \subseteq {"merge", "schema"}
    /\ MaxPushes \in Nat /\ MaxRounds \in Nat /\ MaxDeaths \in Nat

VARIABLES
    at,         \* where each job is
    by,         \* the slot that runs its merge handler
    void,       \* cancelled jobs whose handler is still running
    merged,     \* jobs whose pull request is merged
    mergeLock,  \* merge_locks row of the repository
    schemaLock, \* schema_locks row of the project
    tip,        \* how often the base branch has advanced
    lastLanding,\* tip of the last landing by a job
    seen,       \* tip contained in each job's branch
    taken,      \* base advances this run of the handler has absorbed
    rounds, deaths

locks    == <<mergeLock, schemaLock>>
branches == <<tip, lastLanding, seen>>
bounds   == <<rounds, deaths>>
landVars == <<at, by, void, merged, locks, branches, taken, bounds>>

(***************************************************************************)
(* A job waits to be merged (pending), is claimed, has or does not need    *)
(* the schema lock (cleared), is inside the merge lock: it absorbs the     *)
(* base (locked), is about to land (current), has landed; it has left the  *)
(* lock (unlocked), waits for its deploy, is being fixed or verified, or   *)
(* has settled.                                                            *)
(***************************************************************************)
Inside  == {"locked", "current", "landed"}
Running == {"claimed", "cleared", "unlocked"} \union Inside
Settled == {"done", "failed", "cancelled"}
Places  == Running \union Settled \union {"pending", "fixing", "deploy"}

Lock(owners, ttl) == [owner : owners \union {Nobody}, age : 0..ttl + 1]

\* Jobs, workers and the two lock rows have the types the code gives them; a
\* job is run by a slot exactly while its merge handler runs.
LandTypeOK ==
    /\ at \in [LandJobs -> Places]
    /\ by \in [LandJobs -> Slots \union {Nobody}]
    /\ \A j \in LandJobs : by[j] # Nobody <=> at[j] \in Running
    /\ void \subseteq {j \in LandJobs : at[j] \in Running}
    /\ merged \subseteq LandJobs
    /\ mergeLock \in Lock(Slots, MergeTTL)
    /\ schemaLock \in Lock(LandJobs, SchemaTTL)
    /\ tip \in Nat /\ lastLanding \in 0..tip
    /\ seen \in [LandJobs -> 0..tip]
    /\ taken \in [LandJobs -> 0..InlockSteps]
    /\ rounds \in [LandJobs -> 0..MaxRounds]
    /\ deaths \in 0..MaxDeaths

LandInit ==
    /\ at = [j \in LandJobs |-> "pending"]
    /\ by = [j \in LandJobs |-> Nobody]
    /\ void = {} /\ merged = {}
    /\ mergeLock = [owner |-> Nobody, age |-> 0]
    /\ schemaLock = [owner |-> Nobody, age |-> 0]
    /\ tip = 0 /\ lastLanding = 0
    /\ seen = [j \in LandJobs |-> 0]
    /\ taken = [j \in LandJobs |-> 0]
    /\ rounds = [j \in LandJobs |-> 0]
    /\ deaths = 0

-----------------------------------------------------------------------------
(* Locks *)

Free == [owner |-> Nobody, age |-> 0]

\* Mutant: a lock is never stale.
GrantsNeverStale(lock, who, ttl) == lock.owner \in {Nobody, who}

\* try_acquire_*: nobody has it, it is mine (its age starts again), or stale.
Grants(lock, who, ttl) ==
    lock.owner \in {Nobody, who} \/ lock.age > ttl

Taken(who) == [owner |-> who, age |-> 0]

\* release_*: only the owner's row is deleted.
Released(lock, who) == IF lock.owner = who THEN Free ELSE lock

\* External: the clock against acquired_at.
Older(lock, ttl) ==
    IF lock.owner = Nobody \/ lock.age > ttl THEN lock
    ELSE [lock EXCEPT !.age = @ + 1]

-----------------------------------------------------------------------------
(* The merge handler *)

\* A slot without a job claims one that waits for its merge.
Claims(j, s) ==
    /\ at[j] = "pending"
    /\ \A k \in LandJobs : by[k] # s
    /\ at' = [at EXCEPT ![j] = "claimed"]
    /\ by' = [by EXCEPT ![j] = s]
    /\ taken' = [taken EXCEPT ![j] = 0]
    /\ UNCHANGED <<void, merged, locks, branches, bounds>>

\* Mutant: the save does not give up the claim.
LeavesHolding(j, p) ==
    /\ at' = [at EXCEPT ![j] = IF j \in void THEN "cancelled" ELSE p]
    /\ void' = void \ {j}
    /\ UNCHANGED by

\* The handler's save of a job that it leaves at p, and its return.
Leaves(j, p) ==
    /\ at' = [at EXCEPT ![j] = IF j \in void THEN "cancelled" ELSE p]
    /\ by' = [by EXCEPT ![j] = Nobody]
    /\ void' = void \ {j}

\* A merged job whose worker died has no worktree, so no diff to look at.
NeedsSchemaLock(j) == j \in SchemaJobs \ merged

TakesSchemaLock(j) ==
    /\ at[j] = "claimed"
    /\ \/ /\ NeedsSchemaLock(j)
          /\ Grants(schemaLock, j, SchemaTTL)
          /\ schemaLock' = Taken(j)
       \/ ~NeedsSchemaLock(j) /\ UNCHANGED schemaLock
    /\ at' = [at EXCEPT ![j] = "cleared"]
    /\ UNCHANGED <<by, void, merged, mergeLock, branches, taken, bounds>>

\* Another schema job is landing: step back, retry soon.
SchemaLockBusy(j) ==
    /\ at[j] = "claimed" /\ NeedsSchemaLock(j)
    /\ ~Grants(schemaLock, j, SchemaTTL)
    /\ Leaves(j, "pending")
    /\ UNCHANGED <<merged, locks, branches, taken, bounds>>

TakesMergeLock(j) ==
    /\ at[j] = "cleared"
    /\ Grants(mergeLock, by[j], MergeTTL)
    /\ mergeLock' = Taken(by[j])
    /\ at' = [at EXCEPT ![j] = "locked"]
    /\ UNCHANGED <<by, void, merged, schemaLock, branches, taken, bounds>>

\* Another job is merging: step back, with the schema lock.
MergeLockBusy(j) ==
    /\ at[j] = "cleared"
    /\ ~Grants(mergeLock, by[j], MergeTTL)
    /\ Leaves(j, "pending")
    /\ UNCHANGED <<merged, locks, branches, taken, bounds>>

\* The finally clause of the critical section.
Unlocks(j) == mergeLock' = Released(mergeLock, by[j])

\* The base has advanced and merges cleanly into the branch.
Absorbs(j) ==
    /\ at[j] = "locked" /\ seen[j] < tip /\ j \notin merged
    /\ taken[j] + 1 < InlockSteps
    /\ seen' = [seen EXCEPT ![j] = tip]
    /\ taken' = [taken EXCEPT ![j] = @ + 1]
    /\ UNCHANGED <<at, by, void, merged, locks, tip, lastLanding, bounds>>

\* So it does for the last time that is allowed inside the lock: verify again.
AbsorbsTooMuch(j) ==
    /\ at[j] = "locked" /\ seen[j] < tip /\ j \notin merged
    /\ taken[j] + 1 = InlockSteps
    /\ seen' = [seen EXCEPT ![j] = tip]
    /\ Leaves(j, "fixing") /\ Unlocks(j)
    /\ UNCHANGED <<merged, schemaLock, tip, lastLanding, taken, bounds>>

\* It conflicts, or the worktree is gone because the job had landed already, or
\* the validation of what was absorbed finds an overlap or fails.
Conflicts(j) ==
    /\ at[j] = "locked"
    /\ seen[j] < tip \/ j \in merged \/ taken[j] > 0
    /\ Leaves(j, "fixing") /\ Unlocks(j)
    /\ UNCHANGED <<merged, schemaLock, branches, taken, bounds>>

\* Mutant: the base is not looked at again under the lock.
FindsCurrentUnseen(j) ==
    /\ at[j] = "locked" /\ j \notin merged
    /\ at' = [at EXCEPT ![j] = "current"]
    /\ UNCHANGED <<by, void, merged, locks, branches, taken, bounds>>

\* The base is current and what was absorbed is validated.
FindsCurrent(j) ==
    /\ at[j] = "locked" /\ seen[j] = tip /\ j \notin merged
    /\ at' = [at EXCEPT ![j] = "current"]
    /\ UNCHANGED <<by, void, merged, locks, branches, taken, bounds>>

\* The squash merge.  GitHub may take it on a base that has moved on.
Lands(j) ==
    /\ at[j] = "current"
    /\ merged' = merged \union {j}
    /\ tip' = tip + 1 /\ lastLanding' = tip + 1
    /\ at' = [at EXCEPT ![j] = "landed"]
    /\ UNCHANGED <<by, void, locks, seen, taken, bounds>>

\* GitHub refuses because the base has moved on: the branch is refreshed and
\* lands, or it is left to the fixer or sent through the last gate again.
LandsRefreshed(j) ==
    /\ at[j] = "current" /\ seen[j] < tip
    /\ seen' = [seen EXCEPT ![j] = tip]
    /\ merged' = merged \union {j}
    /\ tip' = tip + 1 /\ lastLanding' = tip + 1
    /\ at' = [at EXCEPT ![j] = "landed"]
    /\ UNCHANGED <<by, void, locks, taken, bounds>>

Refused(j) ==
    /\ at[j] = "current"
    /\ Leaves(j, "fixing") /\ Unlocks(j)
    /\ UNCHANGED <<merged, schemaLock, branches, taken, bounds>>

LeavesLock(j) ==
    /\ at[j] = "landed"
    /\ Unlocks(j)
    /\ at' = [at EXCEPT ![j] = "unlocked"]
    /\ UNCHANGED <<by, void, merged, schemaLock, branches, taken, bounds>>

\* Mutant: the schema lock is given back with the landing, before the deploy.
GoesToDeployReleases(j) ==
    /\ at[j] = "unlocked"
    /\ Leaves(j, "deploy")
    /\ schemaLock' = Released(schemaLock, j)
    /\ UNCHANGED <<merged, mergeLock, branches, taken, bounds>>

\* Summary, follow-up job and decision record, then the save.
GoesToDeploy(j) ==
    /\ at[j] = "unlocked"
    /\ Leaves(j, "deploy")
    /\ UNCHANGED <<merged, locks, branches, taken, bounds>>

\* PipelineRunner._fail, from any place of the handler: no pull request, a refused
\* merge, no fix left, an exception.  It releases the schema lock.
Fails(j) ==
    /\ at[j] \in Running
    /\ Leaves(j, "failed")
    /\ IF at[j] \in Inside THEN Unlocks(j) ELSE UNCHANGED mergeLock
    /\ schemaLock' = Released(schemaLock, j)
    /\ UNCHANGED <<merged, branches, taken, bounds>>

-----------------------------------------------------------------------------
(* Before and after the merge *)

\* The fix, the verification or the gate sends the job back to its merge; a job
\* without a worktree is failed there.
ComesBack(j) ==
    /\ at[j] = "fixing" /\ j \notin merged /\ rounds[j] < MaxRounds
    /\ rounds' = [rounds EXCEPT ![j] = @ + 1]
    /\ at' = [at EXCEPT ![j] = "pending"]
    /\ UNCHANGED <<by, void, merged, locks, branches, taken, deaths>>

FailsOutside(j) ==
    /\ at[j] \in {"fixing", "deploy"}
    /\ at' = [at EXCEPT ![j] = "failed"]
    /\ schemaLock' = Released(schemaLock, j)
    /\ UNCHANGED <<by, void, merged, mergeLock, branches, taken, bounds>>

\* The deploy finishes, or finds the commit live already, and releases the lock.
Deploys(j) ==
    /\ at[j] = "deploy"
    /\ at' = [at EXCEPT ![j] = "done"]
    /\ schemaLock' = Released(schemaLock, j)
    /\ UNCHANGED <<by, void, merged, mergeLock, branches, taken, bounds>>

\* The janitor requeues a failed job, an operator retries it.
Requeued(j) ==
    /\ at[j] = "failed" /\ j \notin merged /\ rounds[j] < MaxRounds
    /\ rounds' = [rounds EXCEPT ![j] = @ + 1]
    /\ at' = [at EXCEPT ![j] = "pending"]
    /\ UNCHANGED <<by, void, merged, locks, branches, taken, deaths>>

\* A starting process finds the pull request of a failed job merged: the job is
\* done.  (The janitor does the same without releasing the lock, which _fail did.)
Reconciled(j) ==
    /\ at[j] = "failed" /\ j \in merged
    /\ at' = [at EXCEPT ![j] = "done"]
    /\ schemaLock' = Released(schemaLock, j)
    /\ UNCHANGED <<by, void, merged, mergeLock, branches, taken, bounds>>

\* Cancelling touches neither lock.  A running handler goes on.
Cancels(j) ==
    /\ at[j] \notin Settled /\ j \notin void
    /\ IF at[j] \in Running
       THEN void' = void \union {j} /\ UNCHANGED at
       ELSE at' = [at EXCEPT ![j] = "cancelled"] /\ UNCHANGED void
    /\ UNCHANGED <<by, merged, locks, branches, taken, bounds>>

\* The slot dies and the job is claimed anew when its lease has run out.  The
\* locks stay.
Dies(j) ==
    /\ at[j] \in Running
    /\ deaths < MaxDeaths
    /\ deaths' = deaths + 1
    /\ Leaves(j, "pending")
    /\ UNCHANGED <<merged, locks, branches, taken, rounds>>

\* Somebody else pushes to the base branch.
Pushed ==
    /\ tip - Cardinality(merged) < MaxPushes
    /\ tip' = tip + 1
    /\ UNCHANGED <<at, by, void, merged, locks, lastLanding, seen, taken, bounds>>

\* A job counts on the schema lock from taking it until its deploy ends.
InWindow(j) ==
    /\ j \in SchemaJobs
    /\ \/ at[j] \in {"cleared", "locked", "current"} /\ j \notin merged
       \/ at[j] \in {"landed", "unlocked", "deploy"}

\* Time passes.  A holder that is never too slow is done before its lock is stale.
Tick ==
    /\ "merge" \in Overruns \/ mergeLock.age < MergeTTL
          \/ \A j \in LandJobs : at[j] \notin Inside
    /\ "schema" \in Overruns \/ schemaLock.age < SchemaTTL
          \/ \A j \in LandJobs : ~InWindow(j)
    /\ mergeLock' = Older(mergeLock, MergeTTL)
    /\ schemaLock' = Older(schemaLock, SchemaTTL)
    /\ locks' # locks
    /\ UNCHANGED <<at, by, void, merged, branches, taken, bounds>>

-----------------------------------------------------------------------------
Handles(j) ==
    \/ TakesSchemaLock(j) \/ SchemaLockBusy(j) \/ TakesMergeLock(j) \/ MergeLockBusy(j)
    \/ Absorbs(j) \/ AbsorbsTooMuch(j) \/ Conflicts(j) \/ FindsCurrent(j)
    \/ Lands(j) \/ LandsRefreshed(j) \/ Refused(j) \/ LeavesLock(j) \/ GoesToDeploy(j)
    \/ Fails(j)

Elsewhere(j) == ComesBack(j) \/ FailsOutside(j) \/ Deploys(j)

Disturbs(j) == Requeued(j) \/ Reconciled(j) \/ Cancels(j) \/ Dies(j)

LandNext ==
    \/ \E j \in LandJobs :
           (\E s \in Slots : Claims(j, s)) \/ Handles(j) \/ Elsewhere(j) \/ Disturbs(j)
    \/ Pushed
    \/ Tick

\* A handler that runs goes on, stages outside the merge are served, clocks run.
\* A job that steps back waits five seconds while the lock holder does not, so a
\* job that can be claimed again and again is claimed at last.
LandFairness ==
    /\ \A j \in LandJobs :
           /\ WF_landVars(Handles(j))
           /\ WF_landVars(Elsewhere(j))
           /\ SF_landVars(\E s \in Slots : Claims(j, s))
    /\ WF_landVars(Tick)

LandSpec == LandInit /\ [][LandNext]_landVars /\ LandFairness

-----------------------------------------------------------------------------
(* Properties *)

\* "Two jobs must not merge into one repo's base at once" (stages/merge.py): no
\* two jobs are between taking the merge lock and their landing.
OneMerger ==
    \A j, k \in LandJobs : at[j] \in Inside /\ at[k] \in Inside => j = k

\* What lands contains every job that has landed before, whatever the order in which
\* jobs took, lost and retook the lock: the tests saw it together with them.
\* Somebody else's push may be missing.
LandsOnLanded ==
    \A j \in LandJobs : at[j] = "current" => seen[j] >= lastLanding

\* A job that changes the schema does not land while another one that did has
\* landed and waits for its deploy.
SchemaInOrder ==
    [][\A j \in SchemaJobs : j \in merged' \ merged =>
           \A k \in SchemaJobs \ {j} : at[k] \notin {"landed", "unlocked", "deploy"}]_landVars

\* Nobody waits for ever: not for a lock whose holder died, was cancelled or is out
\* for a fix.
LandingSettles == \A j \in LandJobs : <>[](at[j] \in Settled)

=============================================================================
