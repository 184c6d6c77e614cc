------------------------------ MODULE Deploys ------------------------------
(***************************************************************************)
(* The deploy stage (stages/deploy.py), the deploy lock, the ledger of     *)
(* deploys, the verification after a restart and the poller that files     *)
(* deploys nobody asked for.                                               *)
(*                                                                         *)
(* Commits of the base branch are the numbers 1..MaxTip.  Each environment *)
(* has its own host, with one checkout of the repository and one running   *)
(* service; jobs of one environment share them, and the lock row of the    *)
(* environment is all that keeps their deploys apart.                      *)
(*                                                                         *)
(* Four mishaps can defeat that row or the ledger; each is a step of the   *)
(* model, allowed by Risks and remembered in mishaps, so that a property   *)
(* can say what holds until one of them has happened.                      *)
(***************************************************************************)
EXTENDS Integers, FiniteSets

CONSTANTS
    DeployJobs,     \* jobs of one project, by id
    Envs,           \* environments of the project
    Prod,           \* the default one
    InPlace,        \* environments whose service is replaced before it is checked:
                    \* docker compose, or a command; else an image is probed first
    Commands,       \* those of them deployed by a command of the repository
    NoJob,          \* no owner
    Risks,          \* mishaps that may happen
    AutoCap,        \* pipeline_auto_deploy_max_attempts
    MaxTip,         \* model bound: commits on the base branch
    MaxMishaps,     \* model bound: no further mishap but "head" after as many
    MaxCrashes      \* model bound: workers that die in the handler

Mishaps == {"cancel",   \* a job is cancelled while its handler runs
            "stale",    \* a live handler holds the lock for stale_ttl_s
            "head",     \* HEAD is not the commit that was built
            "dead"}     \* the old service is gone and the new one is not up

ASSUME DeployAssumption ==
    /\ Prod \in Envs
    /\ Commands \subseteq InPlace /\ InPlace \subseteq Envs
    /\ DeployJobs \subseteq Nat
    /\ NoJob \notin DeployJobs
    /\ Risks \subseteq Mishaps
    /\ AutoCap \in Nat /\ MaxTip \in Nat \ {0}
    /\ MaxMishaps \in Nat /\ MaxCrashes \in Nat

VARIABLES
    phase,      \* where each job is
    zombies,    \* cancelled jobs whose handler still runs
    env,        \* environment of each job (source_meta.environment_id)
    need,       \* commit each job was filed for
    before,     \* last recorded deploy, read before the lock was asked for
    commit,     \* commit each handler builds, then the one it will record
    row,        \* deploy_locks: owner, by environment
    overdue,    \* environments whose row is older than stale_ttl_s
    origin,     \* tip of the base branch
    checkout,   \* HEAD of the checkout, by environment
    serving,    \* commit the service runs, 0 for none
    ledger,     \* last recorded deploy, 0 for none
    attempts,   \* auto_deploy_attempts, by tip
    mishaps,    \* what has gone wrong so far
    crashes

jobVars    == <<phase, zombies, env, need, before, commit>>
lockRows   == <<row, overdue>>
hostVars   == <<checkout, serving>>
deployVars == <<jobVars, lockRows, origin, hostVars, ledger, attempts, mishaps, crashes>>

(***************************************************************************)
(* new: not filed yet.  queued: waits for a worker.  waiting: polls the    *)
(* lock.  locked: owns it.  building: the checkout is synced and the       *)
(* deploy command runs.  shipped: the lock is released.  named: HEAD is    *)
(* read.  deploying: saved as DEPLOYING, the process restarts itself.      *)
(***************************************************************************)
HasLock == {"locked", "building"}
Handled == {"waiting", "shipped", "named"} \union HasLock
Over    == {"done", "failed", "cancelled"}
Phases  == {"new", "queued", "deploying"} \union Handled \union Over

Commits == 0..MaxTip

JobTypes ==
    /\ phase \in [DeployJobs -> Phases]
    /\ zombies \subseteq {j \in DeployJobs : phase[j] \in Handled}
    /\ env \in [DeployJobs -> Envs]
    /\ need \in [DeployJobs -> Commits]
    /\ before \in [DeployJobs -> Commits]
    /\ commit \in [DeployJobs -> Commits]

HostTypes ==
    /\ origin \in 1..MaxTip
    /\ checkout \in [Envs -> Commits]
    /\ serving \in [Envs -> Commits]
    /\ ledger \in [Envs -> Commits]

RowTypes ==
    /\ row \in [Envs -> DeployJobs \union {NoJob}]
    /\ overdue \subseteq {e \in Envs : row[e] # NoJob}
    /\ attempts \in [1..MaxTip -> 0..AutoCap]
    /\ mishaps \subseteq Risks
    /\ crashes \in 0..MaxCrashes

\* Jobs, rows, commits and the ledger have the types the code gives them, and
\* only a handler that is running can be a zombie.
DeployTypeOK == JobTypes /\ HostTypes /\ RowTypes

DeployInit ==
    /\ phase = [j \in DeployJobs |-> "new"]
    /\ zombies = {}
    /\ env = [j \in DeployJobs |-> Prod]
    /\ need = [j \in DeployJobs |-> 0]
    /\ before = [j \in DeployJobs |-> 0]
    /\ commit = [j \in DeployJobs |-> 0]
    /\ row = [e \in Envs |-> NoJob]
    /\ overdue = {}
    /\ origin = 1
    /\ checkout = [e \in Envs |-> 1]
    /\ serving = [e \in Envs |-> 0]
    /\ ledger = [e \in Envs |-> 0]
    /\ attempts = [c \in 1..MaxTip |-> 0]
    /\ mishaps = {}
    /\ crashes = 0

Mishap(m) ==
    /\ m \in Risks /\ Cardinality(mishaps) < MaxMishaps
    /\ mishaps' = mishaps \union {m}

(***************************************************************************)
(* Filing a job at the deploy stage.                                       *)
(***************************************************************************)
Active(j) == phase[j] \in {"queued", "deploying"} \union Handled /\ j \notin zombies

Queues(j, e, c) ==
    /\ phase[j] = "new" /\ \A k \in DeployJobs : k < j => phase[k] # "new"
    /\ phase' = [phase EXCEPT ![j] = "queued"]
    /\ env' = [env EXCEPT ![j] = e]
    /\ need' = [need EXCEPT ![j] = c]
    /\ UNCHANGED <<zombies, before, commit, lockRows, hostVars, ledger, mishaps, crashes>>

\* A job lands its commit and goes on to its deploy.
Ships(j) ==
    /\ origin < MaxTip
    /\ origin' = origin + 1
    /\ Queues(j, Prod, origin + 1)
    /\ UNCHANGED attempts

\* The deploy and restart buttons: not while a deploy of the project is in flight.
Asks(j) ==
    /\ \A k \in DeployJobs : ~Active(k)
    /\ Queues(j, Prod, origin)
    /\ UNCHANGED <<origin, attempts>>

\* promote_release files a deploy of another environment unconditionally.
Promoted(j) ==
    /\ \E e \in Envs \ {Prod} : Queues(j, e, origin)
    /\ UNCHANGED <<origin, attempts>>

\* _auto_deploy_scan: the tip is not recorded as deployed, no job of the
\* project is active, and the tip has attempts left.
AutoFiles(j) ==
    /\ ledger[Prod] # origin
    /\ \A k \in DeployJobs : ~Active(k)
    /\ attempts[origin] < AutoCap
    /\ attempts' = [attempts EXCEPT ![origin] = @ + 1]
    /\ Queues(j, Prod, origin)
    /\ UNCHANGED origin

(***************************************************************************)
(* The lock.  A row is taken over at once when its owner is terminal or    *)
(* the row is older than stale_ttl_s.                                      *)
(***************************************************************************)
Terminal(j) == phase[j] \in Over \/ j \in zombies
Reapable(e) == row[e] # NoJob /\ (Terminal(row[e]) \/ e \in overdue)
Available(e) == row[e] = NoJob \/ Reapable(e)

\* The finally of the handler: no environment is named, so the row of the
\* default environment is the one released.
GivesBack(j) ==
    /\ row' = [row EXCEPT ![Prod] = IF @ = j THEN NoJob ELSE @]
    /\ overdue' = IF row[Prod] = j THEN overdue \ {Prod} ELSE overdue

\* The handler returns and its variables go with it; a job the user has
\* cancelled meanwhile keeps that status whatever the handler saves.
Ends(j, p) ==
    /\ phase' = [phase EXCEPT ![j] = IF j \in zombies THEN "cancelled" ELSE p]
    /\ zombies' = zombies \ {j}
    /\ before' = [before EXCEPT ![j] = 0]
    /\ commit' = [commit EXCEPT ![j] = IF p = "deploying" THEN @ ELSE 0]

\* A worker claims the job; the handler reads the last deploy.
Starts(j) ==
    /\ phase[j] = "queued"
    /\ phase' = [phase EXCEPT ![j] = "waiting"]
    /\ before' = [before EXCEPT ![j] = ledger[env[j]]]
    /\ UNCHANGED <<zombies, env, need, commit, lockRows, origin, hostVars, ledger, attempts, mishaps, crashes>>

GetsLock(j) ==
    /\ phase[j] = "waiting"
    /\ Available(env[j])
    /\ row' = [row EXCEPT ![env[j]] = j]
    /\ overdue' = overdue \ {env[j]}
    /\ phase' = [phase EXCEPT ![j] = "locked"]
    /\ UNCHANGED <<zombies, env, need, before, commit, origin, hostVars, ledger, attempts, mishaps, crashes>>

\* 120 s without the lock: the job fails.  A worker that died in the handler
\* left the row to the job, which then waits for itself.
GivesUp(j) ==
    /\ phase[j] = "waiting"
    /\ ~Available(env[j])
    /\ Ends(j, "failed")
    /\ UNCHANGED <<env, need, lockRows, origin, hostVars, ledger, attempts, mishaps, crashes>>

(***************************************************************************)
(* Under the lock.                                                         *)
(***************************************************************************)
\* Mutant: local HEAD stands for the commit about to be shipped.
CoalescesOnHead(j) ==
    /\ phase[j] = "locked"
    /\ before[j] = checkout[env[j]]
    /\ Ends(j, "done")
    /\ ledger' = [ledger EXCEPT ![env[j]] = checkout[env[j]]]
    /\ GivesBack(j)
    /\ UNCHANGED <<env, need, origin, hostVars, attempts, mishaps, crashes>>

\* The tip is the commit recorded last: the job is done without a deploy.
Coalesces(j) ==
    /\ phase[j] = "locked"
    /\ before[j] = origin
    /\ Ends(j, "done")
    /\ ledger' = [ledger EXCEPT ![env[j]] = origin]
    /\ GivesBack(j)
    /\ UNCHANGED <<env, need, origin, hostVars, attempts, mishaps, crashes>>

\* sync_deploy_checkout: fast-forward to origin.  A tip that is already
\* deployed is deployed again when the fetch before it failed.
Syncs(j) ==
    /\ phase[j] = "locked"
    /\ phase' = [phase EXCEPT ![j] = "building"]
    /\ before' = [before EXCEPT ![j] = 0]
    /\ checkout' = [checkout EXCEPT ![env[j]] = origin]
    /\ commit' = [commit EXCEPT ![j] = origin]
    /\ UNCHANGED <<zombies, env, need, lockRows, origin, serving, ledger, attempts, mishaps, crashes>>

\* A deploy that failed ends its job, whatever has become of the service.
EndsFailed(j) == Ends(j, "failed") /\ GivesBack(j)

\* The checkout, the build or the probe of the image fails: the old service is
\* left alone.
Breaks(j) ==
    /\ phase[j] \in HasLock
    /\ EndsFailed(j)
    /\ UNCHANGED <<env, need, origin, hostVars, ledger, attempts, mishaps, crashes>>

\* The new service is up, and then turns out not to be what was wanted: a
\* variable it needs is missing, it answers with an error, the command fails at
\* the end.  It stays.
FailsLive(j) ==
    /\ phase[j] = "building"
    /\ env[j] \in InPlace
    /\ serving' = [serving EXCEPT ![env[j]] = commit[j]]
    /\ EndsFailed(j)
    /\ UNCHANGED <<env, need, origin, checkout, ledger, attempts, mishaps, crashes>>

\* The old service is gone when the new one fails to come up.
ComesUpDead(j) ==
    /\ phase[j] = "building"
    /\ Mishap("dead")
    /\ serving' = [serving EXCEPT ![env[j]] = 0]
    /\ EndsFailed(j)
    /\ UNCHANGED <<env, need, origin, checkout, ledger, attempts, crashes>>

\* The command succeeds: the service runs what was built, the lock is released.
Swaps(j) ==
    /\ phase[j] = "building"
    /\ phase' = [phase EXCEPT ![j] = "shipped"]
    /\ serving' = [serving EXCEPT ![env[j]] = commit[j]]
    /\ GivesBack(j)
    /\ UNCHANGED <<zombies, env, need, before, commit, origin, checkout, ledger, attempts, mishaps, crashes>>

(***************************************************************************)
(* After the lock.                                                         *)
(***************************************************************************)
\* Reading HEAD off the checkout: what is recorded is this, not what was built.
HeadMatches(e) == checkout[e] = serving[e]
Misreads(e) ==
    /\ HeadMatches(e) \/ "head" \in Risks
    /\ mishaps' = mishaps \union (IF HeadMatches(e) THEN {} ELSE {"head"})

ReadsHead(j) ==
    /\ phase[j] = "shipped"
    /\ Misreads(env[j])
    /\ phase' = [phase EXCEPT ![j] = "named"]
    /\ commit' = [commit EXCEPT ![j] = checkout[env[j]]]
    /\ UNCHANGED <<zombies, env, need, before, lockRows, origin, hostVars, ledger, attempts, crashes>>

\* Nobody but a command reports a service as deployed that did not answer.
Unverified(e) == e \in Commands

\* HEAD cannot be read, or the service did not come live: the job fails, the
\* lock is gone already.
FailsLate(j) ==
    /\ \/ phase[j] = "shipped"
       \/ phase[j] = "named" /\ Unverified(env[j])
    /\ Ends(j, "failed")
    /\ UNCHANGED <<env, need, lockRows, origin, hostVars, ledger, attempts, mishaps, crashes>>

\* finalize_deploy_done and record_deploy: a cancelled job is recorded too.
Finishes(j) ==
    /\ phase[j] = "named"
    /\ Ends(j, "done")
    /\ ledger' = [ledger EXCEPT ![env[j]] = commit[j]]
    /\ UNCHANGED <<env, need, lockRows, origin, hostVars, attempts, mishaps, crashes>>

\* save_deploying: the deploy replaced the pipeline itself.
Restarts(j) ==
    /\ phase[j] = "named"
    /\ Ends(j, "deploying")
    /\ UNCHANGED <<env, need, lockRows, origin, hostVars, ledger, attempts, mishaps, crashes>>

\* Mutant: only the very commit of the job counts as live.
ReconcilesExactly(j) ==
    /\ phase[j] = "deploying"
    /\ commit[j] = checkout[env[j]]
    /\ Misreads(env[j])
    /\ Ends(j, "done")
    /\ ledger' = [ledger EXCEPT ![env[j]] = checkout[env[j]]]
    /\ UNCHANGED <<env, need, lockRows, origin, hostVars, attempts, crashes>>

\* reconcile_deploying_job, at startup or from the janitor: HEAD contains the
\* commit; HEAD is recorded unless the ledger has it or a newer one.
Reconciles(j) ==
    /\ phase[j] = "deploying"
    /\ commit[j] <= checkout[env[j]]
    /\ Misreads(env[j])
    /\ Ends(j, "done")
    /\ ledger' = [ledger EXCEPT ![env[j]] = IF checkout[env[j]] > @ THEN checkout[env[j]] ELSE @]
    /\ UNCHANGED <<env, need, lockRows, origin, hostVars, attempts, crashes>>

(***************************************************************************)
(* What happens to a deploy.                                               *)
(***************************************************************************)
\* The user cancels; a handler that runs does not look and goes on.
CancelsDeploy(j) ==
    /\ phase[j] \in {"queued", "deploying"} \union Handled
    /\ IF phase[j] \in Handled
         THEN /\ j \notin zombies
              /\ Mishap("cancel")
              /\ zombies' = zombies \union {j}
              /\ UNCHANGED phase
         ELSE /\ phase' = [phase EXCEPT ![j] = "cancelled"]
              /\ UNCHANGED <<zombies, mishaps>>
    /\ UNCHANGED <<env, need, before, commit, lockRows, origin, hostVars, ledger, attempts, crashes>>

\* The worker dies: the job is claimed again once its lease is over, and a
\* lock row stays.  In the middle of the command the service is the old one,
\* the new one or none.
HandlerDies(j) ==
    /\ phase[j] \in Handled
    /\ crashes < MaxCrashes
    /\ crashes' = crashes + 1
    /\ Ends(j, "queued")
    /\ \/ UNCHANGED <<serving, mishaps>>
       \/ /\ phase[j] = "building"
          /\ serving' = [serving EXCEPT ![env[j]] = commit[j]]
          /\ UNCHANGED mishaps
       \/ /\ phase[j] = "building"
          /\ serving' = [serving EXCEPT ![env[j]] = 0]
          /\ Mishap("dead")
    /\ UNCHANGED <<env, need, lockRows, origin, checkout, ledger, attempts>>

\* Mutant: stale_ttl_s is shorter than a deploy.
AgesEarly(e) ==
    /\ row[e] # NoJob /\ ~Reapable(e)
    /\ overdue' = overdue \union {e}
    /\ UNCHANGED <<jobVars, row, origin, hostVars, ledger, attempts, mishaps, crashes>>

\* The row passes stale_ttl_s: of nobody who is still in the handler, unless
\* the deploy takes that long.
Ages(e) ==
    /\ row[e] # NoJob /\ ~Reapable(e)
    /\ overdue' = overdue \union {e}
    /\ IF phase[row[e]] \in HasLock
         THEN Mishap("stale")
         ELSE UNCHANGED mishaps
    /\ UNCHANGED <<jobVars, row, origin, hostVars, ledger, attempts, crashes>>

\* sweep_stale_deploy_locks, when a pipeline process starts.
BootSweeps ==
    LET leaked == {e \in Envs : row[e] # NoJob /\ Terminal(row[e])}
    IN  /\ leaked # {}
        /\ row' = [e \in Envs |-> IF e \in leaked THEN NoJob ELSE row[e]]
        /\ overdue' = overdue \ leaked
        /\ UNCHANGED <<jobVars, origin, hostVars, ledger, attempts, mishaps, crashes>>

DeployHandler(j) ==
    \/ Starts(j) \/ GetsLock(j) \/ GivesUp(j)
    \/ Coalesces(j) \/ Syncs(j) \/ Breaks(j) \/ FailsLive(j) \/ ComesUpDead(j) \/ Swaps(j)
    \/ ReadsHead(j) \/ FailsLate(j) \/ Finishes(j) \/ Restarts(j)

DeployNext ==
    \/ \E j \in DeployJobs :
          \/ Ships(j) \/ Asks(j) \/ Promoted(j) \/ AutoFiles(j)
          \/ DeployHandler(j) \/ Reconciles(j) \/ CancelsDeploy(j) \/ HandlerDies(j)
    \/ \E e \in Envs : Ages(e)
    \/ BootSweeps

\* Workers claim and run what they have claimed; every wait of the handler has
\* a timeout; the janitor reconciles what is DEPLOYING again and again.
DeployFairness ==
    \A j \in DeployJobs : WF_deployVars(DeployHandler(j)) /\ WF_deployVars(Reconciles(j))

DeploySpec == DeployInit /\ [][DeployNext]_deployVars /\ DeployFairness

(***************************************************************************)
(* Properties.                                                             *)
(***************************************************************************)
\* acquire_deploy_lock serialises deploys: until a running deploy is cancelled
\* or outlives its row, an environment has one job under the lock, whatever
\* dies, times out, is reaped or swept.
OneDeploy ==
    mishaps \intersect {"cancel", "stale"} = {} =>
        \A j, k \in DeployJobs :
            phase[j] \in HasLock /\ phase[k] \in HasLock /\ env[j] = env[k] => j = k

\* Coalescing, the ledger and the verification after a restart: until a mishap,
\* a job that is done has the commit it was filed for in service, and the
\* ledger names nothing newer than what is served.
DoneIsServed ==
    mishaps = {} =>
        /\ \A e \in Envs : ledger[e] <= serving[e]
        /\ \A j \in DeployJobs : phase[j] = "done" => need[j] <= serving[env[j]]

\* A job that reaches the deploy stage is settled in the end: the wait for the
\* lock times out, and a job left DEPLOYING is verified by somebody.
DeploysSettle ==
    \A j \in DeployJobs : phase[j] = "queued" ~> phase[j] \in Over

\* stages/deploy.py:59: "serialize concurrent deploys"; store.py:5221: a job
\* that is over "cannot still be deploying".  No excuse is made for a cancel.
DeploysSerialized ==
    \A j, k \in DeployJobs :
        phase[j] \in HasLock /\ phase[k] \in HasLock /\ env[j] = env[k] => j = k

=============================================================================
