------------------------------ MODULE JobQueue ------------------------------
(***************************************************************************)
(* The job table of the pipeline and the workers that drain it: claim and  *)
(* fast-path claim, the lease and its heartbeat, the stage handler's final *)
(* save, the exits of PipelineRunner._loop, and the operator and janitor   *)
(* operations that touch the same rows (cancel, retry, requeue, resolve).  *)
(* Source: hyqs/pipeline/store.py and hyqs/pipeline/runner.py.             *)
(*                                                                         *)
(* Every action is one database transaction together with the local        *)
(* changes of the worker that runs it.  What a stage handler computes is   *)
(* abstracted to where it leaves the job (Target); the stage graph itself  *)
(* is a parameter.                                                         *)
(*                                                                         *)
(* Times are stored as offsets from now: Tick ages them.  A lease is at    *)
(* most TTL and is expired at -1; NoLease stands for lease_until = 0, which*)
(* no reclaim takes for an expired lease.  A lease_until only matters to a *)
(* RUNNING row, so it is kept at NoLease in every other row.  A resolution *)
(* only matters while some job waits for this one, so it is left alone     *)
(* once none does.                                                         *)
(***************************************************************************)
EXTENDS Integers, FiniteSets

CONSTANTS
    Worker,         \* worker slots of all processes
    Allow,          \* Allow[w]: stages worker w may claim (allowlist, host pin)
    Job,            \* job ids
    None,           \* SQL NULL / Python None
    Deps,           \* <<j, d>>: job j depends on job d
    Overlap,        \* <<j, k>>: the scope manifests of j and k overlap
    Stage,          \* checkpoints a job can be at
    FirstStage,     \* QUEUED
    DoneStage,      \* DONE
    Agentic,        \* stages whose next step needs an AI agent (stage_task)
    Target,         \* Target[s]: stages the handler of s may leave the job at
    YieldStage,     \* stages whose handler may step back with a backoff (merge)
    TestStage,      \* stages whose handler runs tests under a timeout of its own
    DeployStage,    \* stages whose handler ends with the deploy writes
    SaveStage,      \* stages whose handler saves the job before it ends
    BlockStage,     \* stages whose handler may block on baseline advisories
    RequeueStage,   \* stages the janitor requeues a FAILED job at
    StartStage,     \* StartStage[j]: where job j starts
    Agent,          \* agent ids, a set of integers
    Skill,          \* Skill[a]: the agentic stages agent a may serve
    Provider,       \* Provider[a]: the model provider of agent a
    MaxConcurrency, \* MaxConcurrency[a]: jobs agent a may run at once
    TTL,            \* lease_ttl
    Beat,           \* heartbeat interval: max(5, lease_ttl / 3)
    Backoff,        \* longest rebase_retry_after
    Pause,          \* longest provider pause
    Races           \* code paths switched on, see RaceNames

(***************************************************************************)
(* Paths of the code that a configuration switches on:                     *)
(*   stall          the heartbeat task stops while the handler keeps going *)
(*                  (a database outage, or an exception that ends it)      *)
(*   db_retry       a deadlock or serialization failure in save or in      *)
(*                  clear_executing_step, and the in-process re-run        *)
(*   tail_error     an exception after the handler's final save            *)
(*   retry_midrun   retry of a cancelled job whose worker has not noticed  *)
(*                  the cancellation yet                                   *)
(*   mid_save       a handler saves its claim-time copy of the row while   *)
(*                  it is still running                                    *)
(*   startup        another process starts and settles a job whose branch it *)
(*                  finds merged                                           *)
(*   baseline_block the security gate parks the job behind a baseline      *)
(*                  remediation without looking at its status              *)
(***************************************************************************)
RaceNames == {"stall", "db_retry", "tail_error", "retry_midrun", "mid_save",
              "startup", "baseline_block"}

ASSUME NoneAssumption == None \notin Worker \union Job \union Agent
ASSUME TimeAssumption ==
    /\ TTL \in Nat /\ Beat \in Nat /\ Backoff \in Nat /\ Pause \in Nat
    /\ 0 < Beat /\ Beat <= TTL
ASSUME StageAssumption ==
    /\ FirstStage \in Stage /\ DoneStage \in Stage
    /\ Agentic \subseteq Stage
    /\ Target \in [Stage -> SUBSET Stage]
    /\ RequeueStage \subseteq Stage
    /\ StartStage \in [Job -> Stage]
    /\ Allow \in [Worker -> SUBSET Stage]
ASSUME AgentAssumption ==
    /\ Agent \subseteq Nat
    /\ MaxConcurrency \in [Agent -> Nat \ {0}]
ASSUME JobAssumption == IsFiniteSet(Job)
ASSUME RaceAssumption == Races \subseteq RaceNames

VARIABLES
    status,     \* jobs.status
    stage,      \* jobs.stage
    owner,      \* jobs.owner
    lease,      \* jobs.lease_until - now, NoLease for lease_until = 0
    agent,      \* jobs.agent_id
    cool,       \* jobs.rebase_retry_after - now, 0 once it has passed
    resolved,   \* jobs with resolution = 'resolved'
    paused,     \* providers' paused_until - now, 0 once it has passed
    pc,         \* where each worker slot is
    mjob,       \* the job object each worker holds, and of that object:
    mstage,     \*   its stage
    mowned,     \*   owner has not been blanked by the handler
    mlease,     \*   lease_until - now, as claimed (only kept with a SaveStage)
    magent,     \*   agent_id
    mresolved,  \*   resolution = 'resolved'
    beat        \* time since the worker's last renewal (or its claim)

row    == <<status, stage, owner, lease, agent, cool>>
worker == <<pc, mjob, mstage, mowned, mlease, magent, mresolved,
            beat>>
vars   == <<row, resolved, paused, worker>>

\* lease_until = 0.
NoLease == -2

Status   == {"PENDING", "RUNNING", "DEPLOYING", "DONE", "FAILED", "CANCELLED"}
Terminal == {"DONE", "FAILED", "CANCELLED"}

(***************************************************************************)
(* A worker slot is idle, runs the handler of a claimed job (saved: after a *)
(* save in the middle of it), has left it by an exception (raised), waits  *)
(* before an in-process re-run (rerun) or is in one (again), is past the   *)
(* final save and looks for the job's next deterministic step (tail), is   *)
(* about to fail the job because of an error there (failing), or its       *)
(* process is gone (down).                                                 *)
(***************************************************************************)
PC == {"idle", "run", "again", "saved", "raised", "rerun", "tail", "failing",
       "down"}

InHandler(w) == pc[w] \in {"run", "again", "saved"}
Executing(w) == pc[w] \in {"run", "again", "saved", "raised"}
Alive(w)     == pc[w] # "down"

RowTypeOK ==
    /\ status \in [Job -> Status]
    /\ stage \in [Job -> Stage]
    /\ owner \in [Job -> Worker \union {None}]
    /\ lease \in [Job -> NoLease..TTL]
    /\ agent \in [Job -> Agent \union {None}]
    /\ cool \in [Job -> 0..Backoff]
    /\ resolved \subseteq Job
    /\ paused \in [{Provider[a] : a \in Agent} -> 0..Pause]

WorkerTypeOK ==
    /\ pc \in [Worker -> PC]
    /\ mjob \in [Worker -> Job \union {None}]
    /\ \A w \in Worker : pc[w] \notin {"idle", "down"} => mjob[w] \in Job
    /\ mstage \in [Worker -> Stage]
    /\ mowned \in [Worker -> BOOLEAN]
    /\ mlease \in [Worker -> NoLease..TTL]
    /\ magent \in [Worker -> Agent \union {None}]
    /\ mresolved \in [Worker -> BOOLEAN]
    /\ beat \in [Worker -> 0..Beat]

\* The rows of the jobs table and the job objects the workers hold have the
\* types the code gives them, a lease is never longer than lease_ttl, and a
\* worker that is busy holds a job.
TypeOK == RowTypeOK /\ WorkerTypeOK

Init ==
    /\ status = [j \in Job |-> "PENDING"]
    /\ stage = StartStage
    /\ owner = [j \in Job |-> None]
    /\ lease = [j \in Job |-> NoLease]
    /\ agent = [j \in Job |-> None]
    /\ cool = [j \in Job |-> 0]
    /\ resolved = {}
    /\ paused = [p \in {Provider[a] : a \in Agent} |-> 0]
    /\ pc = [w \in Worker |-> "idle"]
    /\ mjob = [w \in Worker |-> None]
    /\ mstage = [w \in Worker |-> FirstStage]
    /\ mowned = [w \in Worker |-> FALSE]
    /\ mlease = [w \in Worker |-> NoLease]
    /\ magent = [w \in Worker |-> None]
    /\ mresolved = [w \in Worker |-> FALSE]
    /\ beat = [w \in Worker |-> 0]

-----------------------------------------------------------------------------
(* Claiming *)

\* Mutant of Expired: the lease counts as expired one moment early.
ExpiredEarly ==
    {j \in Job : status[j] = "RUNNING" /\ lease[j] # NoLease /\ lease[j] <= 0}

\* RUNNING rows whose lease has run out; a row without a lease is not one.
Expired ==
    {j \in Job : status[j] = "RUNNING" /\ lease[j] # NoLease /\ lease[j] < 0}

\* jobs.status after the first UPDATE of claim.
Reclaimed == [j \in Job |-> IF j \in Expired THEN "PENDING" ELSE status[j]]

\* Mutant: a dependency that failed or was cancelled holds nobody back.
SettledOnceTerminal(d) == status[d] \in Terminal \/ d \in resolved

Settled(d) == status[d] = "DONE" \/ d \in resolved

\* Mutant: the dependency clause is missing.
RunnableWhatever(j, st) ==
    st[j] = "PENDING" /\ stage[j] # DoneStage /\ cool[j] = 0

\* The WHERE clause that claim and claim_fastpath share.
Runnable(j, st) ==
    /\ st[j] = "PENDING"
    /\ stage[j] # DoneStage
    /\ cool[j] = 0
    /\ \A d \in Job : <<j, d>> \in Deps => Settled(d)

\* A RUNNING job's manifest overlaps the one of j.
ManifestConflict(j, st) ==
    \E k \in Job : k # j /\ st[k] = "RUNNING" /\ <<j, k>> \in Overlap

Load(a, st) == Cardinality({j \in Job : st[j] = "RUNNING" /\ agent[j] = a})

\* Mutant: the capacity check is off by one.
AvailableAtLimit(a, s, st) ==
    /\ s \in Skill[a]
    /\ paused[Provider[a]] = 0
    /\ Load(a, st) <= MaxConcurrency[a]

Available(a, s, st) ==
    /\ s \in Skill[a]
    /\ paused[Provider[a]] = 0
    /\ Load(a, st) < MaxConcurrency[a]

\* The agent the claim assigns: none for a deterministic step, otherwise the
\* available one with the lowest id.
Picked(a, s, st) ==
    IF s \notin Agentic
    THEN a = None
    ELSE /\ a \in Agent
         /\ Available(a, s, st)
         /\ \A b \in Agent : Available(b, s, st) => a <= b

\* Worker w now holds job j at its stage, with agent a.
Hold(w, j, a) ==
    /\ pc' = [pc EXCEPT ![w] = "run"]
    /\ mjob' = [mjob EXCEPT ![w] = j]
    /\ mstage' = [mstage EXCEPT ![w] = stage[j]]
    /\ mowned' = [mowned EXCEPT ![w] = TRUE]
    /\ mlease' = [mlease EXCEPT ![w] = IF SaveStage = {} THEN NoLease ELSE TTL]
    /\ magent' = [magent EXCEPT ![w] = a]
    /\ mresolved' = [mresolved EXCEPT ![w] = j \in resolved]
    /\ beat' = [beat EXCEPT ![w] = 0]

\* The claim takes the first job in effective-priority order that passes the
\* filters; the order is left open here.
Claim(w) ==
    /\ pc[w] = "idle"
    /\ \E j \in Job, a \in Agent \union {None} :
          /\ Runnable(j, Reclaimed)
          /\ ~ManifestConflict(j, Reclaimed)
          /\ stage[j] \in Allow[w]
          /\ Picked(a, stage[j], Reclaimed)
          /\ status' = [Reclaimed EXCEPT ![j] = "RUNNING"]
          /\ owner' = [k \in Job |-> IF k = j THEN w
                                     ELSE IF k \in Expired THEN None ELSE owner[k]]
          /\ lease' = [k \in Job |-> IF k = j THEN TTL
                                     ELSE IF k \in Expired THEN NoLease ELSE lease[k]]
          /\ agent' = [agent EXCEPT ![j] = a]
          /\ Hold(w, j, a)
    /\ UNCHANGED <<stage, cool, resolved, paused>>

\* A claim that finds no job still commits the reclaim of expired leases.
ClaimNothing(w) ==
    /\ pc[w] = "idle"
    /\ Expired # {}
    /\ \A j \in Job, a \in Agent \union {None} :
          ~ (/\ Runnable(j, Reclaimed)
             /\ ~ManifestConflict(j, Reclaimed)
             /\ stage[j] \in Allow[w]
             /\ Picked(a, stage[j], Reclaimed))
    /\ status' = Reclaimed
    /\ owner' = [k \in Job |-> IF k \in Expired THEN None ELSE owner[k]]
    /\ lease' = [k \in Job |-> IF k \in Expired THEN NoLease ELSE lease[k]]
    /\ UNCHANGED <<stage, agent, cool, resolved, paused, worker>>

\* After a stage, the worker keeps the job if its next step is deterministic.
FastpathEligible(w, j) ==
    Runnable(j, status) /\ stage[j] \in Allow[w] \ Agentic

\* Mutant: the fast path takes the row without giving it a lease.
ClaimFastpathUnleased(w) ==
    LET j == mjob[w] IN
    /\ pc[w] = "tail"
    /\ FastpathEligible(w, j)
    /\ status' = [status EXCEPT ![j] = "RUNNING"]
    /\ owner' = [owner EXCEPT ![j] = w]
    /\ agent' = [agent EXCEPT ![j] = None]
    /\ Hold(w, j, None)
    /\ UNCHANGED <<stage, lease, cool, resolved, paused>>

ClaimFastpath(w) ==
    LET j == mjob[w] IN
    /\ pc[w] = "tail"
    /\ FastpathEligible(w, j)
    /\ status' = [status EXCEPT ![j] = "RUNNING"]
    /\ owner' = [owner EXCEPT ![j] = w]
    /\ lease' = [lease EXCEPT ![j] = TTL]
    /\ agent' = [agent EXCEPT ![j] = None]
    /\ Hold(w, j, None)
    /\ UNCHANGED <<stage, cool, resolved, paused>>

\* The worker drops its job object and polls again.
LetGo(w) ==
    /\ pc' = [pc EXCEPT ![w] = "idle"]
    /\ mjob' = [mjob EXCEPT ![w] = None]
    /\ mstage' = [mstage EXCEPT ![w] = FirstStage]
    /\ mowned' = [mowned EXCEPT ![w] = FALSE]
    /\ mlease' = [mlease EXCEPT ![w] = NoLease]
    /\ magent' = [magent EXCEPT ![w] = None]
    /\ mresolved' = [mresolved EXCEPT ![w] = FALSE]
    /\ beat' = [beat EXCEPT ![w] = 0]

\* Nothing to keep (or the worker is draining): back to the normal claim.
BackToPolling(w) ==
    /\ pc[w] = "tail"
    /\ LetGo(w)
    /\ UNCHANGED <<row, resolved, paused>>

-----------------------------------------------------------------------------
(* Running a stage *)

\* The in-process re-run of the stage in the job object.  Once that reads DONE
\* there is no handler to run.
Rerun(w) ==
    /\ pc[w] = "rerun"
    /\ pc' = [pc EXCEPT ![w] = IF mstage[w] = DoneStage THEN "tail" ELSE "again"]
    /\ beat' = [beat EXCEPT ![w] = 0]
    /\ UNCHANGED <<row, resolved, paused, mjob, mstage, mowned, mlease, magent,
                   mresolved>>

\* Mutant: the heartbeat refreshes the worker's row only.
RenewWorkerOnly(w) ==
    /\ InHandler(w)
    /\ beat' = [beat EXCEPT ![w] = 0]
    /\ UNCHANGED <<row, resolved, paused, pc, mjob, mstage, mowned, mlease,
                   magent, mresolved>>

\* Mutant: the heartbeat adds a whole term to what is left of the lease.
RenewOnTop(w) ==
    LET j == mjob[w] IN
    /\ InHandler(w)
    /\ beat' = [beat EXCEPT ![w] = 0]
    /\ lease' = [lease EXCEPT ![j] =
                    IF status[j] = "RUNNING" /\ owner[j] = w /\ mowned[w]
                    THEN @ + TTL ELSE @]
    /\ UNCHANGED <<status, stage, owner, agent, cool, resolved, paused,
                   pc, mjob, mstage, mowned, mlease, magent, mresolved>>

\* The heartbeat extends the lease of a job the worker still owns.
Renew(w) ==
    LET j == mjob[w] IN
    /\ InHandler(w)
    /\ beat' = [beat EXCEPT ![w] = 0]
    /\ lease' = [lease EXCEPT ![j] =
                    IF status[j] = "RUNNING" /\ owner[j] = w /\ mowned[w]
                    THEN TTL ELSE @]
    /\ UNCHANGED <<status, stage, owner, agent, cool, resolved, paused,
                   pc, mjob, mstage, mowned, mlease, magent, mresolved>>

\* What JobStore.save writes of worker w's job object, with status st, stage s,
\* owner o, lease l and backoff c.
Write(w, st, s, o, l, c) ==
    LET j == mjob[w] IN
    /\ status' = [status EXCEPT ![j] = st]
    /\ stage' = [stage EXCEPT ![j] = s]
    /\ owner' = [owner EXCEPT ![j] = o]
    /\ lease' = [lease EXCEPT ![j] = l]
    /\ agent' = [agent EXCEPT ![j] = magent[w]]
    /\ cool' = [cool EXCEPT ![j] = c]
    /\ resolved' = IF mresolved[w] THEN resolved \union {j} ELSE resolved \ {j}

\* Mutant: save does not look at the row's status.
SaveOverAll(w, st, s, o, l, c) == Write(w, st, s, o, l, c)

\* Rows in a terminal state are left alone; whose claim the row is by now is
\* not asked.
Save(w, st, s, o, l, c) ==
    IF status[mjob[w]] \in Terminal
    THEN UNCHANGED <<row, resolved>>
    ELSE Write(w, st, s, o, l, c)

\* owner in the job object: w, or blank once the handler has blanked it.
Held(w) == IF mowned[w] THEN w ELSE None

\* The handler's final save took place (or was refused): what is left is the
\* notification.
ToTail(w, s, owned) ==
    /\ pc' = [pc EXCEPT ![w] = "tail"]
    /\ mstage' = [mstage EXCEPT ![w] = s]
    /\ mowned' = [mowned EXCEPT ![w] = owned]
    /\ beat' = [beat EXCEPT ![w] = 0]
    /\ UNCHANGED <<mjob, mlease, magent, mresolved>>

\* The step succeeded, or its failure is routed to another stage.
Advance(w) ==
    /\ InHandler(w)
    /\ \E s \in Target[mstage[w]] \ {DoneStage} :
          /\ Save(w, "PENDING", s, Held(w), NoLease, 0)
          /\ ToTail(w, s, mowned[w])
    /\ UNCHANGED paused

\* The merge handler steps back: a lock is held elsewhere, or the merge
\* conflicts.  Owner and lease are blanked and the claim is delayed.
Yield(w) ==
    /\ InHandler(w)
    /\ mstage[w] \in YieldStage
    /\ \E s \in (Target[mstage[w]] \union {mstage[w]}) \ {DoneStage} :
          /\ Save(w, "PENDING", s, None, NoLease, Backoff)
          /\ ToTail(w, s, FALSE)
    /\ UNCHANGED paused

\* A handler-level timeout below the cap: same stage again, owner blanked.
HandlerTimeout(w) ==
    /\ InHandler(w)
    /\ mstage[w] \in TestStage
    /\ Save(w, "PENDING", mstage[w], None, NoLease, 0)
    /\ ToTail(w, mstage[w], FALSE)
    /\ UNCHANGED paused

\* The job ends: nothing left to build, or deployed without a deploy command.
Finish(w) ==
    /\ InHandler(w)
    /\ DoneStage \in Target[mstage[w]]
    /\ Save(w, "DONE", DoneStage, Held(w), NoLease, 0)
    /\ ToTail(w, DoneStage, mowned[w])
    /\ UNCHANGED paused

\* The handler gives up (_fail inside the handler).
GiveUp(w) ==
    /\ InHandler(w)
    /\ Save(w, "FAILED", mstage[w], Held(w), NoLease, 0)
    /\ ToTail(w, mstage[w], mowned[w])
    /\ UNCHANGED paused

\* Nobody waits for job j: a split job's dependents have been pointed at its
\* parts, which are jobs outside Job.
Unawaited(j) == \A k \in Job : <<k, j>> \notin Deps

\* An oversized plan was split into jobs of its own.
Supersede(w) ==
    /\ InHandler(w)
    /\ mstage[w] = FirstStage
    /\ Unawaited(mjob[w])
    /\ Save(w, "CANCELLED", FirstStage, Held(w), NoLease, 0)
    /\ ToTail(w, FirstStage, mowned[w])
    /\ UNCHANGED paused

\* finalize_deploy_done / save_deploying: unlike save they only stop at a
\* cancelled row, and write no owner, lease or agent.
DeployWrite(w, st, s) ==
    LET j == mjob[w] IN
    /\ InHandler(w)
    /\ mstage[w] \in DeployStage
    /\ IF status[j] = "CANCELLED"
       THEN UNCHANGED row
       ELSE /\ status' = [status EXCEPT ![j] = st]
            /\ stage' = [stage EXCEPT ![j] = s]
            /\ lease' = [lease EXCEPT ![j] = NoLease]
            /\ UNCHANGED <<owner, agent, cool>>
    /\ ToTail(w, s, mowned[w])
    /\ UNCHANGED <<resolved, paused>>

DeployDone(w)    == DeployWrite(w, "DONE", DoneStage)
DeployRestart(w) == DeployWrite(w, "DEPLOYING", mstage[w])

\* merge_verify saves the refreshed merge base while it is still running: the
\* whole job object it was given, lease_until included.  In a re-run the object
\* may have the status of a final save that did not go through.
MidSave(w) ==
    /\ "mid_save" \in Races
    /\ pc[w] \in {"run", "again"}
    /\ mstage[w] \in SaveStage
    /\ \/ Save(w, "RUNNING", mstage[w], Held(w), mlease[w], 0)
       \/ /\ pc[w] = "again"
          /\ \E st \in {"PENDING", "FAILED"} : Save(w, st, mstage[w], Held(w), NoLease, 0)
    /\ pc' = [pc EXCEPT ![w] = "saved"]
    /\ UNCHANGED <<paused, mjob, mstage, mowned, mlease, magent, mresolved, beat>>

\* The security gate found only baseline advisories: the job is put back to
\* PENDING behind a remediation, whatever its status, and the handler returns
\* without a save.  The remediation is a job outside Job: when it settles, and
\* with it the dependency, is left open.
BaselineBlock(w) ==
    LET j == mjob[w] IN
    /\ "baseline_block" \in Races
    /\ InHandler(w)
    /\ mstage[w] \in BlockStage
    /\ status' = [status EXCEPT ![j] = "PENDING"]
    /\ stage' = [stage EXCEPT ![j] = mstage[w]]
    /\ owner' = [owner EXCEPT ![j] = None]
    /\ lease' = [lease EXCEPT ![j] = NoLease]
    /\ ToTail(w, mstage[w], mowned[w])
    /\ UNCHANGED <<agent, cool, resolved, paused>>

-----------------------------------------------------------------------------
(* Leaving a stage *)

\* The agent call's watcher sees the cancellation: the job is left as it is.
NoticeCancel(w) ==
    /\ InHandler(w)
    /\ mstage[w] \in Agentic
    /\ status[mjob[w]] = "CANCELLED"
    /\ LetGo(w)
    /\ UNCHANGED <<row, resolved, paused>>

\* An exception leaves the handler, or the set-up before it; the heartbeat is
\* cancelled.
Raise(w) ==
    /\ InHandler(w)
    /\ pc' = [pc EXCEPT ![w] = "raised"]
    /\ UNCHANGED <<row, resolved, paused,
                   mjob, mstage, mowned, mlease, magent, mresolved, beat>>

\* TimeoutError: the stage is tried again, until the cap fails the job.
TimedOut(w) ==
    /\ pc[w] = "raised"
    /\ Save(w, "PENDING", mstage[w], None, NoLease, 0)
    /\ LetGo(w)
    /\ UNCHANGED paused

\* Any other exception, an isolation violation, or the timeout cap.
FailJob(w) ==
    /\ pc[w] \in {"raised", "failing"}
    /\ Save(w, "FAILED", mstage[w], Held(w), NoLease, 0)
    /\ LetGo(w)
    /\ UNCHANGED paused

\* The database is gone when the worker announces its claim, or when it wants
\* to fail or requeue the job: it polls again and leaves the row as it is.
DropJob(w) ==
    /\ pc[w] \in {"run", "raised", "failing"}
    /\ LetGo(w)
    /\ UNCHANGED <<row, resolved, paused>>

\* ProviderUnavailable: pause the provider and hand the job back, in one
\* transaction, provided the row is still this worker's claim.
OwnsClaim(w) ==
    LET j == mjob[w] IN
    /\ status[j] = "RUNNING"
    /\ owner[j] = w /\ mowned[w]
    /\ stage[j] = mstage[w]
    /\ agent[j] # None
    /\ Provider[agent[j]] = Provider[magent[w]]

\* record_provider_failover: the row goes back and the provider is paused at once.
FailsOver(j, provider) ==
    /\ status' = [status EXCEPT ![j] = "PENDING"]
    /\ owner' = [owner EXCEPT ![j] = None]
    /\ lease' = [lease EXCEPT ![j] = NoLease]
    /\ agent' = [agent EXCEPT ![j] = None]
    /\ paused' = [paused EXCEPT ![provider] = Pause]
    /\ UNCHANGED <<stage, cool>>

\* The provider has reached its limit; a worker that lost the job changes nothing.
Failover(w) ==
    /\ pc[w] = "raised"
    /\ magent[w] # None
    /\ IF OwnsClaim(w)
       THEN FailsOver(mjob[w], Provider[magent[w]])
       ELSE UNCHANGED <<row, paused>>
    /\ LetGo(w)
    /\ UNCHANGED resolved

\* A transient database error in the final save: the job object has moved on,
\* the row has not.
SaveFails(w) ==
    /\ "db_retry" \in Races
    /\ InHandler(w)
    /\ \E s \in Target[mstage[w]] \union {mstage[w]} :
          mstage' = [mstage EXCEPT ![w] = s]
    /\ mowned' \in {mowned, [mowned EXCEPT ![w] = mstage[w] \notin YieldStage /\ @]}
    /\ pc' = [pc EXCEPT ![w] = "rerun"]
    /\ UNCHANGED <<row, resolved, paused,
                   mjob, mlease, magent, mresolved, beat>>

\* A transient database error after a final save that went through, when the
\* executing step is cleared.
ClearFails(w) ==
    /\ "db_retry" \in Races
    /\ pc[w] = "tail"
    /\ pc' = [pc EXCEPT ![w] = "rerun"]
    /\ UNCHANGED <<row, resolved, paused, mjob, mstage, mowned, mlease, magent,
                   mresolved, beat>>

\* The notification after the final save raises.
TailError(w) ==
    /\ "tail_error" \in Races
    /\ pc[w] = "tail"
    /\ pc' = [pc EXCEPT ![w] = "failing"]
    /\ UNCHANGED <<row, resolved, paused,
                   mjob, mstage, mowned, mlease, magent, mresolved, beat>>

\* The process dies, or a drain runs out of time and cancels the slot.  One
\* slot survives: with none there is nothing
\* left to observe.  A restarted process has slots with new ids.
Crash(w) ==
    /\ Alive(w)
    /\ \E v \in Worker \ {w} : Alive(v)
    /\ pc' = [pc EXCEPT ![w] = "down"]
    /\ mjob' = [mjob EXCEPT ![w] = None]
    /\ mstage' = [mstage EXCEPT ![w] = FirstStage]
    /\ mowned' = [mowned EXCEPT ![w] = FALSE]
    /\ mlease' = [mlease EXCEPT ![w] = NoLease]
    /\ magent' = [magent EXCEPT ![w] = None]
    /\ mresolved' = [mresolved EXCEPT ![w] = FALSE]
    /\ beat' = [beat EXCEPT ![w] = 0]
    /\ UNCHANGED <<row, resolved, paused>>

-----------------------------------------------------------------------------
(* Operators, the janitor, time *)

Cancel(j) ==
    /\ status[j] \notin Terminal
    /\ status' = [status EXCEPT ![j] = "CANCELLED"]
    /\ owner' = [owner EXCEPT ![j] = None]
    /\ lease' = [lease EXCEPT ![j] = NoLease]
    /\ UNCHANGED <<stage, agent, cool, resolved, paused, worker>>

\* Back to PENDING at stage s, with the lease gone.
Reopen(j, s) ==
    /\ status' = [status EXCEPT ![j] = "PENDING"]
    /\ stage' = [stage EXCEPT ![j] = s]
    /\ owner' = [owner EXCEPT ![j] = None]
    /\ lease' = [lease EXCEPT ![j] = NoLease]
    /\ UNCHANGED <<agent, resolved, paused, worker>>

\* The operator starts a failed or cancelled job over (one that is parked for a
\* split only on demand).
Retry(j) ==
    /\ status[j] \in {"FAILED", "CANCELLED"}
    /\ "retry_midrun" \in Races \/ \A w \in Worker : Executing(w) => mjob[w] # j
    /\ Reopen(j, FirstStage)
    /\ cool' = [cool EXCEPT ![j] = 0]

\* Mutant: the janitor does not check that the job is still FAILED.
RequeueUnchecked(j) ==
    /\ status[j] \notin {"DONE", "CANCELLED", "RUNNING"}
    /\ Reopen(j, FirstStage)
    /\ cool' = [cool EXCEPT ![j] = 0]

\* The janitor requeues a failed job, from the start or at a stage.
Requeue(j) ==
    /\ status[j] = "FAILED"
    /\ \/ Reopen(j, FirstStage) /\ cool' = [cool EXCEPT ![j] = 0]
       \/ /\ \E s \in RequeueStage \union {FirstStage} : Reopen(j, s)
          /\ cool' = cool

\* The janitor splits a job that keeps failing along the plan it has saved.
SupersedeFailed(j) ==
    /\ status[j] = "FAILED"
    /\ Unawaited(j)
    /\ status' = [status EXCEPT ![j] = "CANCELLED"]
    /\ owner' = [owner EXCEPT ![j] = None]
    /\ UNCHANGED <<stage, lease, agent, cool, resolved, paused, worker>>

\* The janitor fails a waiting job of which a dependency has failed for good.
BlockDependent(j) ==
    /\ status[j] = "PENDING"
    /\ \E d \in Job : <<j, d>> \in Deps /\ status[d] = "FAILED" /\ ~Settled(d)
    /\ status' = [status EXCEPT ![j] = "FAILED"]
    /\ UNCHANGED <<stage, owner, lease, agent, cool, resolved, paused, worker>>

\* The janitor finds the branch of a failed job merged already.
ReconcileToDone(j) ==
    /\ status[j] = "FAILED"
    /\ status' = [status EXCEPT ![j] = "DONE"]
    /\ stage' = [stage EXCEPT ![j] = DoneStage]
    /\ UNCHANGED <<owner, lease, agent, cool, resolved, paused, worker>>

\* After a restart the deployed commit is found live.
FinalizeDeploying(j) ==
    /\ status[j] = "DEPLOYING"
    /\ status' = [status EXCEPT ![j] = "DONE"]
    /\ stage' = [stage EXCEPT ![j] = DoneStage]
    /\ UNCHANGED <<owner, lease, agent, cool, resolved, paused, worker>>

\* A process that starts saves a job as done, from what it read of it before it
\* asked for the state of its pull request.
StartupReconcile(j) ==
    /\ "startup" \in Races
    /\ status[j] \notin Terminal
    /\ status' = [status EXCEPT ![j] = "DONE"]
    /\ stage' = [stage EXCEPT ![j] = DoneStage]
    /\ lease' = [lease EXCEPT ![j] = NoLease]
    /\ UNCHANGED <<owner, agent, cool, resolved, paused, worker>>

\* An operator or a successful remediation marks the incident resolved.
Resolve(j) ==
    /\ status[j] \in {"FAILED", "CANCELLED"}
    /\ resolved' = resolved \union {j}
    /\ UNCHANGED <<row, paused, worker>>

Older(t) == IF t > -1 THEN t - 1 ELSE t
Sooner(t) == IF t > 0 THEN t - 1 ELSE 0

\* Time passes.  Without stalls a worker that holds a job renews its lease,
\* or writes the row, within a heartbeat interval.
Tick ==
    /\ \A w \in Worker : Executing(w) /\ "stall" \notin Races => beat[w] < Beat
    /\ lease' = [j \in Job |-> IF status[j] = "RUNNING" THEN Older(lease[j])
                                                        ELSE lease[j]]
    /\ mlease' = [w \in Worker |-> IF Executing(w) THEN Older(mlease[w]) ELSE mlease[w]]
    /\ cool' = [j \in Job |-> Sooner(cool[j])]
    /\ paused' = [p \in DOMAIN paused |-> Sooner(paused[p])]
    /\ beat' = [w \in Worker |-> IF Executing(w) /\ beat[w] < Beat
                                 THEN beat[w] + 1 ELSE beat[w]]
    /\ UNCHANGED <<status, stage, owner, agent, resolved,
                   pc, mjob, mstage, mowned, magent, mresolved>>

WorkerStep(w) ==
    \/ Claim(w) \/ ClaimNothing(w) \/ ClaimFastpath(w) \/ BackToPolling(w)
    \/ Rerun(w) \/ Renew(w)
    \/ Advance(w) \/ Yield(w) \/ HandlerTimeout(w) \/ Finish(w) \/ GiveUp(w)
    \/ Supersede(w) \/ DeployDone(w) \/ DeployRestart(w)
    \/ MidSave(w) \/ BaselineBlock(w)
    \/ NoticeCancel(w) \/ Raise(w) \/ TimedOut(w) \/ FailJob(w)
    \/ DropJob(w) \/ Failover(w) \/ SaveFails(w) \/ ClearFails(w) \/ TailError(w)
    \/ Crash(w)

JobStep(j) ==
    \/ Cancel(j) \/ Retry(j) \/ Requeue(j)
    \/ SupersedeFailed(j) \/ BlockDependent(j) \/ ReconcileToDone(j)
    \/ FinalizeDeploying(j) \/ StartupReconcile(j) \/ Resolve(j)

Next ==
    \/ \E w \in Worker : WorkerStep(w)
    \/ \E j \in Job : JobStep(j)
    \/ Tick

Spec == Init /\ [][Next]_vars

-----------------------------------------------------------------------------
(* Properties *)

\* At most one worker carries out a stage of a job at a time: while heartbeats
\* are timely, neither the reclaim of expired leases, nor the fast path, nor
\* the operators' and the janitor's writes let a second worker in.
ExclusiveExecution ==
    \A v, w \in Worker :
        v # w /\ Executing(v) /\ Executing(w) => mjob[v] # mjob[w]

\* Why it holds: the row of a job that is being carried out is still the claim of
\* the worker that does so, as it was claimed and with a lease that outlasts the
\* next heartbeat, or else it was cancelled under the worker's feet.
Holds(w) ==
    LET j == mjob[w] IN
    /\ status[j] = "RUNNING"
    /\ owner[j] = w /\ mowned[w]
    /\ stage[j] = mstage[w]
    /\ mresolved[w] = (j \in resolved)
    /\ lease[j] + beat[w] >= TTL

ClaimHeld ==
    \A w \in Worker : Executing(w) => Holds(w) \/ status[mjob[w]] = "CANCELLED"

\* An agent never has more RUNNING jobs than its max_concurrency, whatever
\* happens to the workers that ran them.
AgentCapacity == \A a \in Agent : Load(a, status) <= MaxConcurrency[a]

\* A job only runs while everything it depends on is done or resolved, also
\* when the dependency is retried, cancelled or requeued in the meantime.
DependenciesSettled ==
    \A j \in Job : status[j] = "RUNNING" =>
        \A d \in Job : <<j, d>> \in Deps => Settled(d)

\* The stage of a row is moved by the worker that holds its claim, and by
\* nobody else until the row has left the workers' hands: a save never
\* overwrites the progress of a later claim.
StageMovedByHolder ==
    [][\A j \in Job : stage'[j] # stage[j] =>
          \/ status[j] \in {"FAILED", "CANCELLED", "DEPLOYING"}
          \/ /\ status[j] = "RUNNING"
             /\ \E w \in Worker : owner[j] = w /\ Executing(w) /\ mjob[w] = j]_vars

\* A cancelled job stays cancelled until somebody retries it, whatever the
\* worker that was running it still writes.
CancelledStays ==
    [][\A j \in Job : status[j] = "CANCELLED" /\ status'[j] # "CANCELLED"
          => Retry(j)]_vars

\* A job that is done stays done.
DoneStays == [][\A j \in Job : status[j] = "DONE" => status'[j] = "DONE"]_vars

\* The promise of the queue: see JobService.
Service == INSTANCE JobService WITH
    doing   <- [w \in Worker |-> IF Executing(w) THEN mjob[w] ELSE None],
    done    <- {j \in Job : status[j] = "DONE"},
    excused <- resolved

ImplementsService == Service!Spec

\* Whatever interleaving of workers, janitor and operators writes to the rows, one
\* write moves one job, along the stage graph or one of the exits: see JobTable.
Table == INSTANCE JobTable WITH
    status <- [j \in Job |-> IF status[j] = "RUNNING" THEN "PENDING" ELSE status[j]]

ImplementsTable == Table!Spec

\* What every worker that is alive gets done: the heartbeat fires, an idle slot
\* polls, what follows the end of a handler runs to its end, time passes.  That a
\* handler ends is not among it: one that hangs keeps its heartbeat for ever.
Polls(w) == Claim(w) \/ ClaimNothing(w)
Leaves(w) ==
    \/ TimedOut(w) \/ FailJob(w) \/ Failover(w)
    \/ Rerun(w) \/ ClaimFastpath(w) \/ BackToPolling(w)

Fairness ==
    /\ SF_vars(Tick)
    /\ \A w \in Worker : /\ WF_vars(Renew(w))
                         /\ WF_vars(Leaves(w))
                         /\ WF_vars(Polls(w))

FairSpec == Spec /\ Fairness

Orphan(j) ==
    /\ status[j] = "RUNNING"
    /\ \A w \in Worker : Executing(w) => mjob[w] # j

\* A job whose worker died, or let go of it with the row still RUNNING, does not
\* stay RUNNING for ever, provided some slot keeps coming back to its poll: its
\* row has a lease, which nobody renews any more, and a poll takes it back.
OrphansReclaimed ==
    (\E w \in Worker : []<>(pc[w] = "idle")) =>
        \A j \in Job : Orphan(j) ~> ~Orphan(j)
=============================================================================
