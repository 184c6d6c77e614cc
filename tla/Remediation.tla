----------------------------- MODULE Remediation -----------------------------
(***************************************************************************)
(* What is done about failed jobs: the janitor's scan and its remediations,*)
(* the incident analyst, the fixes that people file, and what a fix that   *)
(* succeeds settles.                                                       *)
(*                                                                         *)
(* A remediation is several transactions, and a scan works on the rows it  *)
(* read when it began, while diagnoses and gate checks are awaited: every  *)
(* transaction is a step.  Runners remediate too, the dependents of a job  *)
(* they have finished.  Which lineage a job belongs to never changes and   *)
(* is kept with the job instead of being walked each time.                 *)
(***************************************************************************)
EXTENDS Integers, FiniteSets

CONSTANTS
    MaxJobs,        \* model bound: jobs ever created
    Before,         \* which of the first jobs wait for which
    Leader,         \* supervisor processes
    Worker,         \* runner processes
    Person,         \* requests that file a fix
    Causes,         \* why a job may fail, as classify_failure sees it
    Cap,            \* requeues counted for a job (dead_letter_cap)
    GateCap,        \* the same at a gate (auto_recovery_cap)
    FixCap,         \* deploy fixes of a project (project_cap)
    DiagnosisCap,   \* diagnoses of a job (pipeline_incident_analyst_job_cap)
    MaxDepth,       \* MAX_AUTOMATED_REMEDIATION_DEPTH
    MaxTroubles,    \* model bound: failures (but for a leader's retries beyond the cap),
                    \* crashes, lost locks, acts of people
    None

Jobs  == 1..MaxJobs
Actor == Leader \union Worker \union Person

Retried == {"transient", "merge", "environment"}
Fixed   == {"deploy", "alembic"}
Cause   == Retried \union Fixed \union {"gate", "judgment", "blocked"}

\* How a job names the job it was filed for: ai_fix_for, fix_for and fixes_job_id,
\* deploy_fix_for, alembic_merge_fix_for, parent_job_id.
Kinds == {"plain", "ai", "person", "gate", "split"} \union Fixed

ASSUME RemediationAssumption ==
    /\ MaxJobs \in Nat \ {0} /\ Before \subseteq Jobs \X Jobs
    /\ Leader \intersect Worker = {} /\ Leader \intersect Person = {} /\ Worker \intersect Person = {}
    /\ Leader # {} /\ IsFiniteSet(Actor) /\ None \notin Actor
    /\ Causes \subseteq Cause \ {"blocked"}
    /\ Cap \in Nat /\ GateCap \in 0..Cap /\ FixCap \in Nat /\ DiagnosisCap \in Nat
    /\ MaxDepth \in Nat /\ MaxTroubles \in Nat

VARIABLES
    made,       \* jobs created so far
    status,
    cause,      \* of a failed job
    blocker,    \* the dependency a blocked job names (failure_detail)
    link,       \* what the job was filed for, and its lineage
    waits,      \* dependency edges
    settled,    \* jobs with resolution 'resolved'
    active,     \* active_remediation_for
    budget,     \* supervisor_requeue counter
    diagnosed,  \* 'ai_diagnosed' events
    dead,       \* jobs with a 'dead_lettered' event
    lock,       \* who holds the supervisor's advisory lock
    leads,      \* who acts as the leader
    busy,       \* the operation each process is in
    troubles,
    doubled     \* ghost: two leaders have acted at a time

rows    == <<status, cause, blocker, settled>>
filed   == <<made, link, active>>
counts  == <<budget, diagnosed, dead>>
leading == <<lock, leads, doubled>>
remVars == <<rows, filed, waits, counts, leading, busy, troubles>>

Statuses == {"absent", "pending", "running", "done", "failed", "cancelled"}
Live(j)  == status[j] \in {"pending", "running"}

Links  == [kind : Kinds, of : 0..MaxJobs, root : 0..MaxJobs, depth : Nat]
Ops    == {"idle", "scan", "ask", "last", "asklast", "file", "count", "requeue", "deploy", "alembic",
           "depend", "split", "repoint", "supersede", "checked", "record"}
Seen   == [Jobs -> Cause \union {"none"}]
Nobody == [j \in Jobs |-> "none"]
Idle   == [at |-> "idle", job |-> 0, fix |-> 0, seen |-> Nobody]

\* Jobs, links, counters and operations have the types the code gives them.
RemTypeOK ==
    /\ made \in 0..MaxJobs
    /\ status \in [Jobs -> Statuses] /\ \A j \in Jobs : status[j] = "absent" <=> j > made
    /\ cause \in [Jobs -> Cause \union {"none"}] /\ blocker \in [Jobs -> 0..MaxJobs]
    /\ link \in [Jobs -> Links]
    /\ \A j \in Jobs : link[j].of < j \/ link[j].of = 0
    /\ waits \subseteq Jobs \X Jobs
    /\ settled \subseteq Jobs /\ dead \subseteq Jobs
    /\ active \in [Jobs -> 0..MaxJobs]
    /\ budget \in [Jobs -> Nat] /\ diagnosed \in [Jobs -> Nat]
    /\ lock \in Leader \union {None} /\ leads \subseteq Leader
    /\ busy \in [Actor -> [at : Ops, job : 0..MaxJobs, fix : 0..MaxJobs, seen : Seen]]
    /\ \A a \in Actor : busy[a].at \notin {"idle", "scan"} => busy[a].job \in Jobs
    /\ troubles \in 0..MaxTroubles /\ doubled \in BOOLEAN

Of(kind, j, root, depth) == [kind |-> kind, of |-> j, root |-> root, depth |-> depth]

First == {p[1] : p \in Before} \union {p[2] : p \in Before} \union {1}

RemInit ==
    /\ made = Cardinality(First)
    /\ status = [j \in Jobs |-> IF j <= Cardinality(First) THEN "pending" ELSE "absent"]
    /\ cause = Nobody /\ blocker = [j \in Jobs |-> 0]
    /\ link = [j \in Jobs |-> Of("plain", 0, j, 0)]
    /\ waits = Before
    /\ settled = {} /\ dead = {}
    /\ active = [j \in Jobs |-> 0]
    /\ budget = [j \in Jobs |-> 0] /\ diagnosed = [j \in Jobs |-> 0]
    /\ lock = None /\ leads = {}
    /\ busy = [a \in Actor |-> Idle]
    /\ troubles = 0 /\ doubled = FALSE

Trouble == troubles < MaxTroubles /\ troubles' = troubles + 1

-----------------------------------------------------------------------------
(* Jobs and lineages *)

Settled(j) == status[j] = "done" \/ j \in settled

Reaches(a, b) ==
    \A S \in SUBSET Jobs :
        (\A p \in waits : p[1] \in S \union {a} => p[2] \in S) => b \in S

\* _active_remediation_is_viable_conn: it waits neither for the incident nor for
\* a job that failed.
Viable(f, i) ==
    \A k \in Jobs : Reaches(f, k) => k # i /\ status[k] \notin {"failed", "cancelled"}

\* The active remediation recorded at the root of i, if it can still run.
InFlight(i) ==
    LET f == active[link[i].root]
    IN  f # 0 /\ Live(f) /\ Viable(f, i)

\* _clear_active_remediation_conn
Cleared(f) == [r \in Jobs |-> IF active[r] = f THEN 0 ELSE active[r]]

\* _propagate_successful_remediation_conn: from the job d that is done up along the
\* links, as far as incidents close.  A batch closes its incident when all of it
\* is done or resolved.
Direct == {"person"} \union Fixed
\* Mutant: one job of the batch is enough.
ClosesEarly(d, c, i) ==
    /\ link[c].of = i
    /\ link[c].kind \in Direct \union {"ai"}
    /\ status[i] \in {"failed", "cancelled"} \/ i \in settled

Closes(d, c, i) ==
    /\ link[c].of = i
    /\ \/ link[c].kind \in Direct
       \/ /\ link[c].kind = "ai"
          /\ \A s \in Jobs : link[s].kind = "ai" /\ link[s].of = i => Settled(s) \/ s \in {c, d}
    /\ status[i] \in {"failed", "cancelled"} \/ i \in settled

Propagated(d) ==
    LET Passed[i \in Jobs] == i = d \/ \E c \in Jobs : c > i /\ Closes(d, c, i) /\ Passed[c]
    IN  {i \in Jobs \ {d} : Passed[i]}

\* Process a goes on to step at of the remediation of j, in which f was filed.
Does(a, at, j, f) ==
    busy' = [busy EXCEPT ![a] = [at |-> at, job |-> j, fix |-> f, seen |-> [@.seen EXCEPT ![j] = "none"]]]

Returns(a) == busy' = [busy EXCEPT ![a].at = "scan"]

\* The next job of the list that a works through, read as failed with cause c.
Picked(a, j, c) ==
    /\ busy[a].at = "scan"
    /\ busy[a].seen[j] = c
    /\ ~\E k \in Jobs : k < j /\ busy[a].seen[k] # "none"

Room(n) == made + n <= MaxJobs

\* A job for j: create(), with the kind of link it names j by.
Births(kind, j, root, depth) ==
    /\ Room(1)
    /\ made' = made + 1
    /\ status' = [status EXCEPT ![made + 1] = "pending"]
    /\ link' = [link EXCEPT ![made + 1] = Of(kind, j, root, depth)]

-----------------------------------------------------------------------------
(* Leadership *)

\* try_acquire_supervisor_lock.  One process is to be the leader.
Elected(l) ==
    /\ lock = None /\ l \notin leads
    /\ lock' = l /\ leads' = leads \union {l}
    /\ doubled' = (doubled \/ leads # {})
    /\ UNCHANGED <<rows, filed, waits, counts, busy, troubles>>

\* The dedicated connection breaks and the lock with it; the leader is not told.
LosesLock ==
    /\ lock # None /\ lock \in leads
    /\ lock' = None
    /\ Trouble
    /\ UNCHANGED <<rows, filed, waits, counts, leads, doubled, busy>>

\* Mutant: what the dead process was at is half forgotten.
DiesHalf(a) ==
    /\ Trouble
    /\ busy[a] # Idle
    /\ busy' = [busy EXCEPT ![a].job = 0, ![a].seen = Nobody]
    /\ lock' = IF lock = a THEN None ELSE lock
    /\ leads' = leads \ {a}
    /\ UNCHANGED <<rows, filed, waits, counts, doubled>>

\* A process ends in the middle of what it does.
Dies(a) ==
    /\ Trouble
    /\ busy[a] # Idle
    /\ busy' = [busy EXCEPT ![a] = Idle]
    /\ lock' = IF lock = a THEN None ELSE lock
    /\ leads' = leads \ {a}
    /\ UNCHANGED <<rows, filed, waits, counts, doubled>>

-----------------------------------------------------------------------------
(* The scan *)

\* get_failed_jobs: resolved jobs are among them.
FailedJobs == [j \in Jobs |-> IF status[j] = "failed" THEN cause[j] ELSE "none"]

\* They are read once, at the beginning.
Scans(l) ==
    /\ l \in leads /\ busy[l] = Idle
    /\ \E j \in Jobs : status[j] = "failed"
    /\ busy' = [busy EXCEPT ![l].at = "scan", ![l].seen = FailedJobs]
    /\ UNCHANGED <<rows, filed, waits, counts, leading, troubles>>

\* _reconcile_blocked_dependents: a dependency that will not come back.
Blocks(l, j, d) ==
    /\ l \in leads /\ busy[l].at = "scan" /\ busy[l].seen = Nobody
    /\ status[j] = "pending" /\ <<j, d>> \in waits /\ ~Settled(d)
    /\ status[d] = "failed" /\ (cause[d] = "blocked" \/ d \in dead)
    /\ status' = [status EXCEPT ![j] = "failed"]
    /\ cause' = [cause EXCEPT ![j] = "blocked"]
    /\ blocker' = [blocker EXCEPT ![j] = d]
    /\ active' = Cleared(j)
    /\ UNCHANGED <<settled, made, link, waits, counts, leading, busy, troubles>>

Ends(a) ==
    /\ busy[a].at = "scan" /\ busy[a].seen = Nobody
    /\ busy' = [busy EXCEPT ![a] = Idle]
    /\ UNCHANGED <<rows, filed, waits, counts, leading, troubles>>

\* A retry within the budget.  Neither the count nor the row is locked.
Counted(a, j) ==
    /\ budget[j] < Cap
    /\ Does(a, "count", j, 0)
    /\ UNCHANGED <<rows, filed, waits, counts, leading, troubles>>

\* The budget is spent: _consult_analyst_before_dead_letter, unless that has been.
Exhausted(a, j) ==
    /\ budget[j] >= Cap
    /\ \/ j \in dead /\ Does(a, "scan", j, 0)
       \/ j \notin dead /\ Does(a, "last", j, 0)
    /\ UNCHANGED <<rows, filed, waits, counts, leading, troubles>>

\* remediate_transient, and remediate_stale_branch once the worktree is removed.
RemediatesTransient(a, j) == Picked(a, j, "transient") /\ (Counted(a, j) \/ Exhausted(a, j))

\* Mutant: the count is not compared.
RetriesForever(a, j) ==
    /\ Picked(a, j, "merge")
    /\ Does(a, "count", j, 0)
    /\ UNCHANGED <<rows, filed, waits, counts, leading, troubles>>

\* remediate_merge_github_transient: it may still be backing off.
RemediatesMerge(a, j) ==
    /\ Picked(a, j, "merge")
    /\ \/ Counted(a, j)
       \/ Exhausted(a, j)
       \/ /\ budget[j] \in 1..Cap - 1 /\ Does(a, "scan", j, 0)
          /\ UNCHANGED <<rows, filed, waits, counts, leading, troubles>>

\* remediate_env_deploy, the environment being cleaned.
RemediatesEnvironment(a, j) == Picked(a, j, "environment") /\ (Counted(a, j) \/ Exhausted(a, j))

\* remediate_dependency_blocked.  A resolved job stays failed.
StillBlocked(j) ==
    \/ j \in settled
    \/ /\ \E d \in Jobs : <<j, d>> \in waits /\ ~Settled(d)
       /\ <<j, blocker[j]>> \in waits /\ ~Settled(blocker[j])

RemediatesBlocked(a, j) ==
    /\ Picked(a, j, "blocked")
    /\ IF StillBlocked(j)
       THEN /\ Does(a, "scan", j, 0)
            /\ UNCHANGED <<rows, filed, waits, counts, leading, troubles>>
       ELSE Counted(a, j) \/ Exhausted(a, j)

\* increment_supervisor_requeue
Counts(a) ==
    /\ busy[a].at = "count"
    /\ budget' = [budget EXCEPT ![busy[a].job] = @ + 1]
    /\ busy' = [busy EXCEPT ![a].at = "requeue"]
    /\ UNCHANGED <<rows, filed, waits, diagnosed, dead, leading, troubles>>

\* requeue_job, requeue_job_at_stage: nothing if the row is no longer FAILED.
Requeues(a) ==
    LET j == busy[a].job
    IN  /\ busy[a].at = "requeue"
        /\ status' = [status EXCEPT ![j] = IF @ = "failed" THEN "pending" ELSE @]
        /\ cause' = [cause EXCEPT ![j] = "none"]
        /\ Returns(a)
        /\ UNCHANGED <<blocker, settled, filed, waits, counts, leading, troubles>>

-----------------------------------------------------------------------------
(* Fixes at a gate and for a deploy *)

\* remediate_gate_no_changes, once the gate has been checked again: over the cap, or
\* nothing to check, or the finding is not the job's (retry), or it is (fix).
RemediatesGate(a, j) ==
    /\ Picked(a, j, "gate")
    /\ \/ /\ Does(a, "scan", j, 0)
          /\ UNCHANGED <<made, status, link>>
       \/ /\ budget[j] < GateCap /\ Does(a, "count", j, 0)
          /\ UNCHANGED <<made, status, link>>
       \/ /\ budget[j] < GateCap /\ Births("gate", j, made + 1, 0)
          /\ Does(a, "depend", j, made + 1)
    /\ UNCHANGED <<cause, blocker, settled, active, waits, counts, leading, troubles>>

Fixes(j, kind) == {f \in Jobs : link[f].kind = kind /\ link[f].of = j}
FixesOf(kind)  == {f \in Jobs : link[f].kind = kind}

\* Mutant: the failed job may have a fix already.
MayFixAgain(j, kind) == link[j].kind # kind /\ Cardinality(FixesOf(kind)) < FixCap

\* has_deploy_fix_job, count_deploy_fix_jobs and the guard against fixes of fixes.
MayFix(j, kind) ==
    /\ link[j].kind # kind
    /\ Fixes(j, kind) = {}
    /\ Cardinality(FixesOf(kind)) < FixCap

\* remediate_deploy_failed up to the checks; remediate_alembic_multi_head has the same.
RemediatesDeploy(a, j) ==
    /\ Picked(a, j, "deploy")
    /\ Does(a, IF MayFix(j, "deploy") THEN "deploy" ELSE "scan", j, 0)
    /\ UNCHANGED <<rows, filed, waits, counts, leading, troubles>>

\* There may be no versions directory with two heads.
RemediatesHeads(a, j) ==
    /\ Picked(a, j, "alembic")
    /\ \/ MayFix(j, "alembic") /\ Does(a, "alembic", j, 0)
       \/ Does(a, "scan", j, 0)
    /\ UNCHANGED <<rows, filed, waits, counts, leading, troubles>>

\* The deploy fix ...
FilesDeployFix(a) ==
    LET j == busy[a].job
    IN  /\ busy[a].at = "deploy"
        /\ Births("deploy", j, made + 1, 0)
        /\ Does(a, "depend", j, made + 1)
        /\ UNCHANGED <<cause, blocker, settled, active, waits, counts, leading, troubles>>

\* ... and the job that writes the merge revision.
FilesHeadsFix(a) ==
    LET j == busy[a].job
    IN  /\ busy[a].at = "alembic"
        /\ Births("alembic", j, made + 1, 0)
        /\ Does(a, "depend", j, made + 1)
        /\ UNCHANGED <<cause, blocker, settled, active, waits, counts, leading, troubles>>

\* add_job_dependency: the failed job behind its fix.
Depends(a) ==
    /\ busy[a].at = "depend"
    /\ waits' = waits \union {<<busy[a].job, busy[a].fix>>}
    /\ busy' = [busy EXCEPT ![a].at = "requeue"]
    /\ UNCHANGED <<rows, filed, counts, leading, troubles>>

-----------------------------------------------------------------------------
(* The incident analyst *)

\* _janitor_scan: a class that needs judgment.
Consults(a, j) ==
    /\ Picked(a, j, "judgment")
    /\ \/ diagnosed[j] < DiagnosisCap /\ Does(a, "ask", j, 0)
       \/ Does(a, "scan", j, 0)
    /\ UNCHANGED <<rows, filed, waits, counts, leading, troubles>>

\* The same before a job is given up (_run_analyst_diagnosis has the cap).
ConsultsLast(a) ==
    /\ busy[a].at = "last"
    /\ diagnosed[busy[a].job] < DiagnosisCap
    /\ busy' = [busy EXCEPT ![a].at = "asklast"]
    /\ UNCHANGED <<rows, filed, waits, counts, leading, troubles>>

\* No provider, no answer, or none that may be acted on: a job that was about to be
\* given up is (_record_dead_letter_once).
Escalates(a) ==
    LET j == busy[a].job
    IN  /\ busy[a].at \in {"ask", "last", "asklast"}
        /\ dead' = IF busy[a].at = "ask" THEN dead ELSE dead \union {j}
        /\ diagnosed' = IF busy[a].at = "last" THEN diagnosed ELSE [diagnosed EXCEPT ![j] = @ + 1]
        /\ Returns(a)
        /\ UNCHANGED <<rows, filed, waits, budget, leading, troubles>>

Advised(a, at) ==
    /\ busy[a].at \in {"ask", "asklast"}
    /\ diagnosed' = [diagnosed EXCEPT ![busy[a].job] = @ + 1]
    /\ busy' = [busy EXCEPT ![a].at = at]
    /\ UNCHANGED <<rows, filed, waits, budget, dead, leading, troubles>>

\* requeue_at_stage and repair_in_place, whose save of a failed row changes nothing.
AdvisesRetry(a) == Advised(a, "count") /\ budget[busy[a].job] < Cap

\* file_fix_job, file_fix_jobs: no deeper than the limit.
AdvisesFix(a) == Advised(a, "file") /\ link[busy[a].job].depth < MaxDepth

\* create_supervisor_remediation: a batch of n, the second behind the first or not, and
\* the incident behind the last; unless another remediation is in flight.
FilesBatch(a, n, E) ==
    LET j == busy[a].job
        l == link[j]
    IN  /\ busy[a].at = "file"
        /\ Room(n) /\ ~InFlight(j)
        /\ made' = made + n
        /\ status' = [k \in Jobs |-> IF k \in made + 1..made + n THEN "pending" ELSE status[k]]
        /\ link' = [k \in Jobs |-> IF k \in made + 1..made + n
                                   THEN Of("ai", j, l.root, l.depth + 1) ELSE link[k]]
        /\ waits' = waits \union E \union {<<j, made + n>>}
        /\ active' = [active EXCEPT ![l.root] = made + n]
        /\ busy' = [busy EXCEPT ![a].at = "requeue"]
        /\ UNCHANGED <<cause, blocker, settled, counts, leading, troubles>>

\* The conflict is an event and nothing more.
FindsConflict(a) ==
    /\ busy[a].at = "file" /\ InFlight(busy[a].job)
    /\ Returns(a)
    /\ UNCHANGED <<rows, filed, waits, counts, leading, troubles>>

-----------------------------------------------------------------------------
(* Splitting a job that keeps failing in PLAN from its saved plan *)

SplitsSaved(a) ==
    /\ busy[a].at = "last"
    /\ Births("split", busy[a].job, made + 1, 0)
    /\ busy' = [busy EXCEPT ![a].at = "repoint", ![a].fix = made + 1]
    /\ UNCHANGED <<cause, blocker, settled, active, waits, counts, leading, troubles>>

\* repoint_split_dependents, of the one child here.
RepointsSaved(a) ==
    LET j == busy[a].job
        D == {d \in Jobs : <<d, j>> \in waits}
    IN  /\ busy[a].at = "repoint"
        /\ waits' = (waits \ (D \X {j})) \union (D \X {busy[a].fix})
        /\ busy' = [busy EXCEPT ![a].at = "supersede"]
        /\ UNCHANGED <<rows, filed, counts, leading, troubles>>

\* supersede_failed_with_split: only a job that is still failed; else the scan goes on
\* with the next one.
SupersedesFailed(a) ==
    LET j == busy[a].job
    IN  /\ busy[a].at = "supersede"
        /\ IF status[j] = "failed"
           THEN /\ status' = [status EXCEPT ![j] = "cancelled"]
                /\ active' = Cleared(j) /\ settled' = settled \ {j}
           ELSE UNCHANGED <<status, active, settled>>
        /\ Returns(a)
        /\ UNCHANGED <<cause, blocker, made, link, waits, counts, leading, troubles>>

-----------------------------------------------------------------------------
(* People *)

\* _active_remediation_conflict, which also clears what is not in flight any more.
Checks(p, j) ==
    /\ busy[p] = Idle /\ status[j] \in {"failed", "cancelled"}
    /\ ~InFlight(j)
    /\ Trouble
    /\ active' = [active EXCEPT ![link[j].root] = 0]
    /\ Does(p, "checked", j, 0)
    /\ UNCHANGED <<rows, made, link, waits, counts, leading>>

\* fix_forward_job, or submit_job with fixes_job_id: the lineage is handed on as it is.
FixesForward(p) ==
    LET j == busy[p].job
        l == link[j]
    IN  /\ busy[p].at = "checked"
        /\ \/ Births("person", j, l.root, l.depth)
           \/ l.root = j /\ l.depth = 0 /\ Births("person", j, j, 1)
        /\ busy' = [busy EXCEPT ![p].at = "record", ![p].fix = made + 1]
        /\ UNCHANGED <<cause, blocker, settled, active, waits, counts, leading, troubles>>

\* set_active_remediation, whatever is there.
Records(p) ==
    /\ busy[p].at = "record"
    /\ active' = [active EXCEPT ![link[busy[p].job].root] = busy[p].fix]
    /\ busy' = [busy EXCEPT ![p] = Idle]
    /\ UNCHANGED <<rows, made, link, waits, counts, leading, troubles>>

\* retry_job and the requeue by hand.
Retries(j) ==
    /\ Trouble
    /\ status[j] \in {"failed", "cancelled"}
    /\ status' = [status EXCEPT ![j] = "pending"]
    /\ cause' = [cause EXCEPT ![j] = "none"]
    /\ UNCHANGED <<blocker, settled, filed, waits, counts, leading, busy>>

Cancels(j) ==
    /\ Trouble
    /\ Live(j)
    /\ status' = [status EXCEPT ![j] = "cancelled"]
    /\ active' = Cleared(j)
    /\ UNCHANGED <<cause, blocker, settled, made, link, waits, counts, leading, busy>>

Resolves(j) ==
    /\ Trouble
    /\ status[j] \in {"failed", "cancelled"} /\ j \notin settled
    /\ settled' = settled \union {j}
    /\ UNCHANGED <<status, cause, blocker, filed, waits, counts, leading, busy>>

-----------------------------------------------------------------------------
(* Jobs that run *)

Claims(j) ==
    /\ status[j] = "pending"
    /\ ~\E d \in Jobs : <<j, d>> \in waits /\ ~Settled(d)
    /\ status' = [status EXCEPT ![j] = "running"]
    /\ UNCHANGED <<cause, blocker, settled, filed, waits, counts, leading, busy, troubles>>

Fails(j, c) ==
    /\ status[j] = "running"
    /\ IF budget[j] > Cap /\ ~doubled THEN UNCHANGED troubles ELSE Trouble
    /\ status' = [status EXCEPT ![j] = "failed"]
    /\ cause' = [cause EXCEPT ![j] = c]
    /\ active' = Cleared(j)
    /\ UNCHANGED <<blocker, settled, made, link, waits, counts, leading, busy>>

\* unblock_ready_dependents: the runner takes the blocked dependents one by one.
Unblocks(w, j) ==
    busy' = [busy EXCEPT ![w].at = "scan", ![w].seen =
                [d \in Jobs |-> IF <<d, j>> \in waits /\ status[d] = "failed" /\ cause[d] = "blocked"
                                THEN "blocked" ELSE "none"]]

\* save() with DONE settles what the job was filed for.
Finishes(w, j) ==
    /\ busy[w] = Idle /\ status[j] = "running"
    /\ status' = [status EXCEPT ![j] = "done"]
    /\ settled' = settled \union Propagated(j)
    /\ active' = Cleared(j)
    /\ Unblocks(w, j)
    /\ UNCHANGED <<cause, blocker, made, link, waits, counts, leading, troubles>>

\* finalize_deploying and reconcile_to_done do not.
FinishesDeploy(w, j) ==
    /\ busy[w] = Idle /\ status[j] = "running"
    /\ status' = [status EXCEPT ![j] = "done"]
    /\ active' = Cleared(j)
    /\ Unblocks(w, j)
    /\ Trouble
    /\ UNCHANGED <<cause, blocker, settled, made, link, waits, counts, leading>>

-----------------------------------------------------------------------------
Remediates(a, j) ==
    \/ RemediatesTransient(a, j) \/ RemediatesMerge(a, j) \/ RemediatesEnvironment(a, j)
    \/ RemediatesBlocked(a, j) \/ RemediatesGate(a, j) \/ RemediatesDeploy(a, j)
    \/ RemediatesHeads(a, j) \/ Consults(a, j)

Continues(a) ==
    \/ Counts(a) \/ Requeues(a) \/ Depends(a)
    \/ FilesDeployFix(a) \/ FilesHeadsFix(a)
    \/ ConsultsLast(a) \/ Escalates(a) \/ AdvisesRetry(a) \/ AdvisesFix(a) \/ FindsConflict(a)
    \/ \E E \in {{}, {<<made + 2, made + 1>>}} : FilesBatch(a, 2, E)
    \/ FilesBatch(a, 1, {})
    \/ SplitsSaved(a) \/ RepointsSaved(a) \/ SupersedesFailed(a)

RemNext ==
    \/ \E l \in Leader : Elected(l) \/ Scans(l) \/ \E j, d \in Jobs : Blocks(l, j, d)
    \/ LosesLock
    \/ \E a \in Actor : Dies(a)
    \/ \E a \in Leader \union Worker : Ends(a) \/ Continues(a) \/ \E j \in Jobs : Remediates(a, j)
    \/ \E p \in Person : FixesForward(p) \/ Records(p) \/ \E j \in Jobs : Checks(p, j)
    \/ \E j \in Jobs : Retries(j) \/ Cancels(j) \/ Resolves(j) \/ Claims(j)
                       \/ \E c \in Causes : Fails(j, c)
    \/ \E w \in Worker, j \in Jobs : Finishes(w, j) \/ FinishesDeploy(w, j)

RemSpec == RemInit /\ [][RemNext]_remVars

-----------------------------------------------------------------------------
(* Properties *)

\* Leaders and runners count the retries of a job without a lock; each of them may
\* be one ahead of the cap, however they interleave, die and take over, and no more.
BudgetKept == \A j \in Jobs : budget[j] < Cap + Cardinality(Leader \union Worker)

\* As long as one supervisor leads, a job that failed to deploy gets one fix, fixes get
\* none, and a project no more than its cap, although nothing locks the jobs counted.
OneFixEach ==
    ~doubled => \A kind \in Fixed :
        /\ Cardinality(FixesOf(kind)) <= FixCap
        /\ \A j \in Jobs : Cardinality(Fixes(j, kind)) <= 1
        /\ \A f \in FixesOf(kind) : link[link[f].of].kind # kind

\* What people hand on and what the analyst files on top of it never takes an automated
\* fix deeper than the limit, or into another lineage than the job it fixes.
DepthKept ==
    \A f \in Jobs : link[f].kind = "ai" =>
        link[f].depth <= MaxDepth /\ link[f].root = link[link[f].of].root

\* An incident is closed by the batch the analyst filed for it only when the whole batch
\* is done or closed itself, however far up a job that is done carries.
ClosedWhole ==
    [][\A i \in settled' \ settled :
         LET done(f) == status'[f] = "done" \/ f \in settled'
         IN  (\E d \in Jobs : status[d] = "running" /\ status'[d] = "done") =>
               \/ \A f \in Fixes(i, "ai") : done(f)
               \/ \E kind \in Direct : \E f \in Fixes(i, kind) : done(f)]_remVars

\* supervisor.py: "all janitor operations are idempotent", two leaders or not.
LeadersHarmless ==
    \A j \in Jobs, kind \in Fixed : Cardinality(Fixes(j, kind)) <= 1

\* supervisor.py: "#{job.id} auto-requeues when the chain lands".
ChainLandsFirst ==
    [][\A i \in Jobs : status[i] = "pending" /\ status'[i] = "running" =>
         \A f \in Jobs : link[f].kind = "ai" /\ link[f].of = i => ~Live(f)]_remVars

=============================================================================
