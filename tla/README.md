# TLA+ models of the hyqs pipeline

This directory holds specifications, model-checking configurations and proofs
for the job pipeline of this repository (`src/hyqs/pipeline`): a Postgres table
of jobs, worker processes that claim jobs from it and drive each through a chain
of stages to a deployment, and a supervisor that cleans up behind them.

Contents: [1. the system](#1-the-system), [2. modules](#2-modules),
[3. runs](#3-runs), [4. proofs](#4-proofs), [5. findings](#5-findings),
[6. what is left out](#6-what-is-left-out), [7. where to go on](#7-where-to-go-on).

## 1. The system

| part | state it keeps | operations | module |
|---|---|---|---|
| Job table (`store.py`) | one row per job: status, stage, owner, lease_until, agent_id, rebase_retry_after, resolution | claim, claim_fastpath, renew_lease, save, record_provider_failover, cancel, retry, requeue…, deploy writes | `JobQueue`, promises: `JobService`, `JobTable` |
| Runner (`runner.py`) | per worker slot: the claimed job object, a heartbeat task | `_loop`, `_run_stage_with_retry`, `_run_leased`, `_advance`, drain, startup reconciliation | `JobQueue` (loop and exits), `JobPipeline` (budgets), `Fleet` (processes, drain) |
| Stage handlers (`stages/*.py`, stage graph in `runner.py`) | stage, attempts, rebase_attempts, timeouts, gate history | QUEUED → PLAN → LINT/BUILD/TEST → REVIEW → SECURITY → DESIGN_REVIEW → merge → DEPLOY → DONE, FIX and MERGE_VERIFY loops | `JobPipeline` |
| Merge (`stages/merge.py`) | merge lock and schema lock rows with a TTL, the base branch | acquire, release, absorb the base, validate, squash merge | `JobPipeline` (one job), `Landing` (several) |
| Deploy (`stages/deploy.py`) | deploy lock rows, deploy ledger, DEPLOYING jobs, auto-deploy attempts | acquire, take over, reap, sweep, coalesce, record, verify after a restart | `Deploys` |
| Promotions (`promotions.py`, `docker_deploy.py`) | promotion rows, current release, containers on the host | promote, offer, apply, decline, pull, probe, cut over | `Releases` |
| Dependencies (`store.py`, `collision.py`, `stages/plan.py`) | edges of the job graph with their provenance | add, remove, create a wave, minimise, split, re-point, repair cycles | `JobGraph`; the order within a split plan: `SplitPlan` |
| Scopes and gates (`collision.py`, `contracts.py`, `stages/plan.py`, `stages/test.py`) | scope manifests, saved plans, symbol index | complete, correct, park, reconcile, freeze a scope; symbol and migration gates | `Gates` |
| Supervisor (`supervisor.py`, `incident_analyst.py`) | leader lock, incident links, counters, supervisor events | scan, requeue, fix, diagnose, dead-letter, resolve incidents; election | `Remediation`, `Fleet` |
| Git artifacts (`gitops.py`) | branches, worktrees, seeds of remediations | create, seed, collect | `Artifacts` |
| Agents and providers | provider pauses | pick an agent, fail over, plan | pauses and capacity: `JobQueue`; planner's answers: `Gates` |
| Web console, MCP, REST | sessions | cancel, retry, requeue, resolve, fix, promote | job operations, in the module that owns the row |
| Test, lint, SAST and audit tools, nginx, notifications | – | subprocess and network I/O | outcomes nondeterministic |
| Personal agent (`hyqs/core`, `cli`, `memory`, `tools`) | chat history | – | not modelled |

**How they interact.** Everything meets in the job row. A worker *claims* it in
one transaction under a fleet-wide advisory lock, takes away a *copy* of the row
(the job object), works on the copy for minutes without holding anything but a
lease, and at the end writes the copy back with `save`. Meanwhile a heartbeat task
renews the lease, other workers' claims reclaim rows whose lease ran out,
operators cancel, retry and resolve, and the janitor requeues. `save` is fenced by
the row's status only (terminal rows are left alone): not by owner and not by
lease. Beside the rows there are three kinds of lock rows (merge, schema, deploy), none of
which is renewed; two advisory locks that span a transaction (claims, dependencies) and one that
spans a connection (the leader's); and things no transaction covers: branches,
worktrees, containers, the symbol index, pull requests.

**What is hard here.** The copy is stale while it is used; a handler may be
cancelled, time out, raise, lose its database or its process at any point; the
same stage may be run a second time in process; deterministic next steps bypass
the normal claim. A remediation is several transactions with awaits between them, on
a job somebody else may have touched. A lock row outlives its holder, or its holder
outlives it. The hazards are listed with their lines in `PROJECT.json`.

**What makes each part correct.**

* Queue: one worker per job; dependencies, capacity and backoff hold for every
  path that sets RUNNING; cancelled and done are final; no orphan is forgotten.
* Pipeline: no gate is skipped; the budgets together bound the number of stages.
* Landing: one landing per project at a time; what lands was verified with
  everything that landed before; migrations land and are deployed in turn.
* Deploys and releases: one deploy per environment; the ledger names what is live; a
  release is current only if it serves, and serves only if it was probed.
* Graph: it stays acyclic; no job runs before what it was asked to wait for.
* Scopes: claims are serialised by the files of the plan that is carried out; what the
  gates of TEST promise holds on the base.
* Remediation: retries and fixes stay within their caps, an incident is closed by
  all of its fixes.
* Fleet: a leader comes back; no collection takes what a job still needs.

## 2. Modules

Each component has one module; `MC…` modules give the instances for TLC and
`…_proofs` modules the theorems. The modules meet in a job's stage and status: what one
leaves to another is said in its header.

### `JobService` – the promise

The abstract specification: `doing[w]` (the job whose stage worker `w` carries
out), `done` and `excused` (failed jobs marked resolved). A worker may *start* a
job nobody works on, whose prerequisites are all done or excused and that is not
done; it may *stop* at any time, at which moment the job may be done; a job nobody works
on may be *settled* as done. `JobQueue` refines it.

### `JobTable` – what may become of a row

The other abstract specification, of the rows alone: `stage` and `status` of each job (a job that is
worked on counts as PENDING), and eight ways in which one row may change: `Advance` along the
stage graph, `Finish`, `Restart` (a deploy of the pipeline itself), `Fail`, `Drop`, `Reconcile`, `Requeue`,
`Retry`. The graph is a parameter (`Target`). Two specifications implement it: `JobQueue`, for every graph
and with all of its workers, and `JobPipeline`, for the graph of the eleven handlers (`StageGraph`). That is how
the two fit together: what the queue is proved to do for any graph it does for the one whose handlers,
time-outs, errors, requeues and reconciliations `JobPipeline` spells out.

### `JobQueue` – the table and its workers

Every action is one database transaction with the local changes of the worker
that runs it.

| state | code |
|---|---|
| `status stage owner agent` | columns of `jobs` |
| `lease` | `lease_until - now`; -1 is expired; `NoLease` is `lease_until = 0`, which the reclaim passes over. Rows that are not RUNNING, where nothing reads it, have `NoLease` |
| `cool`, `paused` | `rebase_retry_after - now`, a provider's `paused_until - now`, 0 once passed |
| `resolved` | jobs with `resolution = 'resolved'` |
| `pc` | where the slot is in `_loop` / `_run_stage_with_retry` / `_run_leased` |
| `mjob mstage mowned mlease magent mresolved` | the worker's copy of the row: what a later `save` writes back |
| `beat` | time since the heartbeat last fired |

| actions | code |
|---|---|
| `Claim`, `ClaimNothing` | `claim`: reclaim of expired leases, candidate query, manifest gate, agent choice, UPDATE |
| `ClaimFastpath`, `BackToPolling` | `claim_fastpath` and the inner loop of `_loop` that calls it |
| `Renew`, `Tick` | `_heartbeat` and `renew_lease`; time |
| `Advance`, `Yield`, `HandlerTimeout`, `Finish`, `GiveUp`, `Supersede`, `DeployDone`, `DeployRestart` | the final write of a handler, by kind: next stage or FIX; step back with a backoff; own timeout; done; `_fail`; split; `finalize_deploy_done`; `save_deploying` |
| `MidSave`, `BaselineBlock` | `merge_verify`'s save in the middle of the stage; `file_baseline_security_remediation` |
| `NoticeCancel`, `Raise`, `TimedOut`, `FailJob`, `DropJob`, `Failover` | ways out of the handler by exception: JobCancelled, TimeoutError, any other, database gone, ProviderUnavailable |
| `SaveFails`, `ClearFails`, `Rerun`, `TailError` | a deadlock or serialization failure in `save` or in `clear_executing_step` and the in-process re-run; a notification that raises after the final save |
| `Crash` | the slot's process dies, or a drain runs out of time. A restarted process has slots with new ids, so `down` is final; one slot survives |
| `Cancel`, `Retry`, `Requeue`, `SupersedeFailed`, `BlockDependent`, `ReconcileToDone`, `FinalizeDeploying`, `StartupReconcile`, `Resolve` | what operators, the janitor, the deploy poller and a starting process do to rows |

Choices a reader should know:

* **Stages are a parameter.** `Target[s]` is where the handler of `s` may leave the
  job; the sets `Agentic`, `YieldStage`, `TestStage`, `DeployStage`, `SaveStage`,
  `BlockStage` and `RequeueStage` say which stages have which kind of ending. What
  a handler computes is left open.
* **The order of the candidates is left open.** `claim` takes the first in
  effective-priority order; the model any, which allows more.
* **Dependencies and manifests are constant.** Jobs created meanwhile (split
  children, remediations) are outside `Job`; a split is therefore only taken for
  a job nobody in `Job` depends on. `JobGraph` and `Gates` let both change.
* **A lease or a resolution nobody reads is not tracked.** `resolution` is read
  when a claim looks at the dependencies of a waiting job. Marks such as
  "superseded" are kept only as far as that goes; `executing_step` is display only.
* **The sweep of DEPLOYING jobs** may fire whenever a job is DEPLOYING; the test of
  the live commit is `Deploys`'.
* **Races.** The constant `Races` switches on paths in which the code gives up a
  part of its guarantees: `stall` (the heartbeat stops, the handler goes on),
  `db_retry`, `tail_error`, `retry_midrun` (a cancelled job is retried before its
  worker noticed), `mid_save`, `startup`, `baseline_block`. Every run and every
  theorem names the ones it allows. With no `stall`, `Tick` waits for a worker
  that holds a job to renew or to write within a heartbeat interval, between an
  exception and its exit write too: that is the code's own assumption (interval
  lease/3, lease of minutes).

### `JobPipeline` – one job through its stages

The other side of the same row: who runs a handler is left to `JobQueue`, what it
does is here. A PENDING job is advanced by one handler at a time, whole; `JobQueue`
justifies that (`ExclusiveExecution`, `StageMovedByHolder`). Only the merge is cut
into its steps, because the base branch moves under it and the worker may die in it.

A stage is the checkpoint *reached*; its handler does the work after it
(`stages/__init__.py`, `HANDLERS`): at BUILD the tests run, at TEST the review, at
REVIEW the security gate, at SECURITY the design review, at DESIGN_REVIEW the merge.

| state | code |
|---|---|
| `stage status attempts rebases timeouts requeues` | columns of `jobs` (`rebases` is `rebase_attempts`, `requeues` is `supervisor_requeue_count`) |
| `failure` | what kind of text `job.failure` is: merge conflict, one of the gate texts the janitor knows, any other |
| `why` | what `classify_failure` makes of a FAILED row; `nodiff` on a PENDING row is `retry_disposition = 'retry_build'`, the mark of the second build |
| `delta`, `built` | `merge_delta_sha` is set, `branch` is set |
| `phase`, `absorbed` | how far `merge.run` is, and its loop counter: lost when it stops |
| `tree` | the worktree: none, clean, or with conflict markers |
| `current`, `tested`, `passed`, `overtaken`, `code` | what is true of the branch: it contains the base tip, the tests passed on it as it is, the gates passed since it last got new text, the gates that passed before the program itself joined a merge conflict, its diff touches code |
| `landed` | how the pull request reached the base: validated, raced (the base moved under the squash merge), unvalidated; or not at all |

| actions | code |
|---|---|
| `Plan`, `PlanSplits`, `PlanFails`, `Build`, `BuildNothing`, `BuildFails` | `stages/plan.py`, `stages/build.py`, `_verify_already_satisfied` |
| `Lint…`, `Test…`, `Review`, `Security`, `DesignReview`, `MergeVerify…` | the gates; a rejection is `_retry_or_fail` (`RetryOrFail`) |
| `FixCommits`, `FixPushFails`, `FixNothing`, `FixWithoutTree` | `stages/fix.py` |
| `MergeBegins`, `Absorb…`, `MergeReady`, `Validation…`, `Squash`, `LandingFails`, `Phantom…`, `LandingConflicts`, `MergeEnds` | `stages/merge.py` in its order; a conflict is `_rebase_conflict` (`RebaseConflict`), unless `conflict_autoresolve.py` takes both sides (`Joins`) |
| `Deploy`, `DeployVerified` | `stages/deploy.py`, the sweep of DEPLOYING jobs |
| `TimesOut`, `Errs`, `DeployErrs`, `Dies`, `BaseAdvances` | `_timed_out` with the clean-up in `_run_leased`; the exception handlers of `_loop`, at DEPLOY also after the restart was noted (deploy.py:203-235); the end of the process; everybody else's merges |
| `RequeueTransient`, `RequeueStale`, `RequeueNoDiff`, `RequeueGate`, `Reconcile`, `OperatorRequeue` | the janitor's remediations, and `requeue_job` |

Choices:

* **`passed`, `overtaken` and `tested` are ghosts.** The code keeps no such record; that a gate
  has spoken of the tree that lands is what the stage graph is for. An authored commit
  (build, fix, lint repair) empties `passed` and `overtaken`; a clean merge of the base only clears `tested`; a conflict that the
  program joins is text that no gate has seen: the verdicts move from `passed` to `overtaken`. A gate that runs again counts as passed.
  Which conflicts are joined (two blocks, both not empty and not of equal length, in every hunk) is left open: any may be.
  By the pipeline's own rule a conflict resolution that touches no code keeps the
  verdicts of review and security (`merge_verify` re-reviews code only).
* **Gate history** (`gate_conflict_detected`) is the number of fixes from which two gates
  *may* be found to contradict each other.
* **Counters stop at their caps** where the code counts on and only compares.
* **`DiesMidMerge`** lets a run of the merge stop between absorbing a base advance and
  validating it; section 5 says what that does.

### `Landing` – several jobs, two locks, one base

The merge handlers of several jobs at the steps at which another can come between: taking the
schema lock (by job, `TakesSchemaLock`, kept until the deploy or the failure), taking the merge
lock (by slot), absorbing (`Absorbs`, at most `InlockSteps`), finding the branch current, the squash
merge (`Lands`, `Refused`, `LandsRefreshed`), leaving the lock, and going to deploy. A lock is
an owner and an age; `Tick` ages it, nothing renews it. `Pushed` is somebody else's push,
`Cancels` leaves the handler running (`void`), `Dies` leaves both rows behind.
`Overruns` names the locks whose holders may outlive their TTL; without it `Tick`
waits for them, which is the assumption the code makes in silence.

### `Deploys` – deploy stage, lock, ledger, restart, poller

Commits are numbers; each environment has a checkout (`checkout`), a running service (`serving`), a lock row
(`row`, `overdue`) and a ledger (`ledger`). A handler reads the last deploy (`Starts`), gets
the lock – free, its own, a terminal owner's, or stale – or gives up, coalesces or
synchronises the checkout, breaks or swaps the service, reads HEAD *after* unlocking, records and
finishes; a deploy of the pipeline itself restarts it (`Restarts`, `BootSweeps`, `Reconciles`).
`AutoFiles` is the poller. Four mishaps (`Risks`: a cancelled deploy that goes on, a lock that
is stale while its holder works, a wrong HEAD, a death half way) are steps that `mishaps`
remembers, so that the properties can say what holds until one has happened.

### `Releases` – promotions and the cutover

`promote_release` and `offer_release` in their transactions (`Asked`, `Abandons`, `Inserts`,
`FilesJob`, `Links`), ordinary deploy jobs, which no promotion speaks of (`Builds`), the deploy job or the operator that carries a promotion out (`Claims`, `Enters`, `Applies`,
`Declines`), and the container host (`Fetches`, `Refuses`, `Cleans`, `Probes`, `Judges`, `RemovesOld`,
`RunsNew`, `RunFails`). A transition of the row is two steps, validation and write (`Goes`, `Writes`),
because the code reads in one transaction and writes in another; that a release becomes current is a third (`Crowns`). A
deploy job of an image that was not coalesced has another end, after it has given the lock back: HEAD is read (`HeadUnread`),
the deploy recorded (`Records`) and, if the image has a digest (`Digested`), its release made current in the project's default
environment (`Names`, stages/deploy.py:264-283), whatever environment the job is for and whatever has become of its promotion. `Default`
says whether the environment of the model is that one; then ordinary jobs deploy here and the promotions of other environments
write here too (`Elsewhere`). `odd` remembers overlapping requests, a request between the two writes of a promotion (`untold`), operators beside jobs,
a container replaced before the earlier deploy has named its release (`outrun`), deaths and the like.

### `JobGraph` and `SplitPlan` – who waits for whom

`edge` holds the provenance (user, semantic, auto) of each dependency; `owed` is a ghost: every wait that
was asked for and still counts, whatever became of its edge. Actions: `Creates`, `CreatesWave`
(batch with minimisation), `Adds`, `Removes`, `FixesForward`, `Remediates`, the baseline gate's two
steps outside the lock (`BaselineChooses`, `BaselineBlocks`), a split with a transaction for
each child (`CreatesChild`, `Hands`, `Supersedes`, `Dies` in between, `RepointsOrphans` after it), `Claims`, `Ends`,
`Cancels`, `Revives`, `BlocksDependent`, `Resolves`, and the janitor's `Reconciles`, `Repairs`,
`EndsScan`. Scopes are constant here. `oddities` remembers what may bend the order: late edges,
edges withdrawn or replaced, resolved jobs, an edge for a job that is or was split, or such a job taken up again (`disturbed`).

`SplitPlan` has no state: it is the algorithm that orders the parts of a plan
(`_compute_split_chains`, `_split_from_saved_plan`, the contract a plan has passed), written as operators
and compared, for every plan within the bounds, with what the order is for.

### `Gates` – scopes, plans and the gates of TEST

Trees are sets of definitions and revisions. PLAN is cut into its steps: the answer,
the corrections (`AsksAgain`), failing, splitting and parking, and the three saves `Reconciles`, `Freezes`, `SavesPlan`.
`Claims` respects manifests, `ClaimsOn` (claim_fastpath) does not. `Passes` and `Rejects` are
the gates of TEST against the symbol index and the heads of the migration chain; `Lands`, `Absorbs`, `Conflicts`,
`MergedFails` are what the merge makes of the tree. `loose` is a ghost: jobs whose last gate does not speak of
what they land (a base absorbed after TEST, a diff git could not list, an index older than the branch).

### `Remediation` – failed jobs

`link` says what a job was filed for, with its lineage; `busy` what each process is in the middle
of, with the rows that its scan has read; every transaction of a remediation is a step. Actors
are leaders, runners (which take up the dependents of a job they finish) and people. `Remediates`
has one disjunct for each class of failure, `Continues` the steps that follow: counting,
requeueing, filing a fix (`FilesDeployFix`, `FilesHeadsFix`), asking the analyst and filing what it
advises (`FilesBatch`), splitting a saved plan, escalating. `Finishes` settles what a job that is done settles,
however far up; `FinishesDeploy` does not. `LosesLock` is the dropped connection: `doubled`
remembers that two leaders have acted at once.

### `Artifacts` and `Fleet` – git artifacts and processes

`Artifacts` has the branch and the worktree of each job, what a remediation is seeded from and
whether that is recorded (`source`), and the collection that sweeps them from ids read when it
began. A wave of remediations is filed in one step (`Files`) and the incident queued behind its last member in
another, as in the code; `Blocks` and `Unblocks` carry a failure down the dependencies and back; a job that broke off in its build is started over in three steps, worktree, branch and row
(`DropsTree`, `DropsBranch`, `Requeues`), of which only the last looks at the row; `Writes` is a
save of a job's row together with the trigger that clears `active_remediation_for`. `Revivable` is a schedule
that is an input: may a job that a running collection has listed be brought back (`revive_in_sweep` of `Races`)?
`Fleet` EXTENDS it with the processes: boot, slots, heartbeats, hung handlers, election, loss
and hand-over of the leader lock, scans, drain, signals and death. A scan works on the failed jobs as it read them when it began
(`failed`, `FailedRows`), one after the other and in any order, with anything else in between; `felled` is the job that it is starting over and what
goes next (`Fells`, `FellsBranch`, `Restarts`). `Unscanned` is the second schedule that is an input: may a job
that a scan lists or is starting over be brought back (`revive_in_scan`)? One slot stands for a process's pool; a restarted
process waits until the row of the old one has aged.

### `MC…` modules

`MCJobQueue`: two jobs, two interchangeable workers, one agent of capacity 1 and a pipeline of
four checkpoints (agentic, agentic that may block, deterministic that yields,
deploys and may run tests, done), and a lean one of three. The other `MC` modules name
the sets their configurations use: stages, clashing jobs, plans.

## 3. Runs

| run | instance | asks |
|---|---|---|
| `queue_clean` | j2 depends on j1, both at an agentic gate; races: `baseline_block` | `TypeOK`, `ExclusiveExecution`, `ClaimHeld`, `AgentCapacity`, `DependenciesSettled`, `StageMovedByHolder`, `ImplementsService`, `ImplementsTable` |
| `queue_races` | one job; races: all but `baseline_block` and `mid_save` | `CancelledStays` |
| `queue_live` | one job, one slot a deployer (`stage_allowlist={DEPLOY}`, `__main__.py`); `tail_error`, `mid_save`; fair | `OrphansReclaimed` |
| `pipeline` | two fixes, two rebases, two time-outs, two absorb steps, one janitor requeue and gate recovery, two base advances, one crash, one operator requeue at QUEUED or LINT; fair | `TypeOK`, `LandedTested`, `DoneMeansLanded`, `GatedLanding`, `Settles` |
| `landing` | two schema jobs, two slots, TTLs of 1, two absorb steps, a push, a round of fixes, a death; fair | `LandTypeOK`, `LandsOnLanded`, `SchemaInOrder`, `LandingSettles` |
| `deploys` | two jobs, two environments (one deployed in place by a command, one by a probed image), three commits, one mishap of each kind, two crashes; fair | `OneDeploy`, `DoneIsServed`, `DeploysSettle` |
| `releases` | four releases (two good, one unsigned, one never healthy), the default environment, two deploys, promoted, offered or one of them ordinary, one requester, a trouble | `ReleaseTypeOK`, `CutoverGated`, `CurrentIsServed` |
| `graph` | up to four jobs, two of them disjoint, two troubles; plans of three stories over three paths, two files for each | `GraphTypeOK`, `GraphAcyclic`, `OrderKept`, `PlansSplitInOrder` |
| `gates` | two jobs, three modules in two workspace members and the migrations, one symbol, six plans, a fix, a trouble | `GatesTypeOK`, `GateHolds`, `ScopeFollowsPlan`, `AgentsApart` |
| `remediation` | two jobs, the second behind the first, and two to be filed; two supervisors, a runner, a person; every class of failure | `RemTypeOK`, `BudgetKept`, `OneFixEach`, `ClosedWhole` |
| `fleet` | an incident and two remediations, two builds of each job, two processes, two troubles; a handler may hang, a lock drop, a heartbeat fail; nobody brings back what a collection or a scan lists; fair | `SourceKept`, `TreeKept`, `LeaderReturns` |
| `pipeline_unvalidated` | `DiesMidMerge`, one base advance | `LandedTested`, violated: section 5 |

**Properties.** Queue: `ExclusiveExecution`: two workers never carry out a stage of the
same job. `ClaimHeld` is why: a worker in a handler still owns its row, unchanged,
with a lease that outlasts the next heartbeat, or the row is CANCELLED.
`AgentCapacity`: RUNNING rows per agent never exceed `max_concurrency`.
`DependenciesSettled`: a RUNNING job's dependencies are done or resolved.
`StageMovedByHolder`: only the worker holding the claim moves the stage of a live
row, so that no save overwrites a later claim's progress. `CancelledStays`: only a
retry revives a cancelled job. `ImplementsService`: the queue refines `JobService`.
`ImplementsTable`: it refines `JobTable`: each write moves one row, along the graph or one of the exits and
returns, though the worker that saves knows the row only from its claim.
`OrphansReclaimed`: as long as some slot keeps coming back to its poll, a RUNNING row without a worker does not stay so for ever.

Pipeline: `GatedLanding`: when the pull request lands, all three gates have
spoken since the last authored commit, whichever way the job went round FIX,
MERGE_VERIFY, LINT and the janitor; before a conflict that the program joins, if need be (`pipeline_joined`, section 5). `LandedTested`: the tests passed on that very
tree, absorbed base advances included, unless the base moved under the squash merge
itself. `DoneMeansLanded`: no success without a landing or a verdict of "already
satisfied". `Settles`: a job that is worked on comes to rest. (`MarkersContained`, conflict
markers never reach a gate, and `Progress`, the measure behind `Settles`, are proved.)

Landing: `LandsOnLanded`: what lands contains everything that landed before, in whatever order locks were
taken, lost and retaken. `SchemaInOrder`: no schema change lands while another waits for its deploy.
`LandingSettles`: nobody waits for ever for a lock whose holder died. (`OneMerger`, one job between taking
the merge lock and landing, is proved.)

Deploys: `OneDeploy`: until a running deploy is cancelled or outlives its row, one job per environment
deploys. `DoneIsServed`: until a mishap, a done job's commit is in service and the ledger names nothing
newer than what is. `DeploysSettle`: every job that reaches the deploy stage is settled.

Releases: `CutoverGated`: only what was signed and healthy replaces the canonical container, and there is
always one but for the moment of the swap. `CurrentIsServed`: when all is quiet and nothing odd has
happened, the current release is the one that runs, though promotions, offers and every ordinary deploy write it in their own time, and every promotion that is through is final.
(`OneLive`, one promotion under way, is proved.)

Graph: `GraphAcyclic`. `OrderKept`: a job is not claimed before everything it was ever asked to wait for, whatever
was minimised, split and moved in between. `PlansSplitInOrder`: for every plan within the bounds that
is cut into jobs, by PLAN or by the janitor from a saved plan, no story and no file is lost, the jobs can be created in
their order, those that write one file run one after the other, and each waits for what it depends on.

Gates: `ScopeFollowsPlan`: a job with a plan is serialised by that plan's files and no others, complete and of an
accepted size, across corrections, crashes between the saves, retries and replanning. `AgentsApart`: agents of two
planned jobs never share a file although the fast path looks at no manifest. `GateHolds`: while every landed
job was judged on what it landed, the base has one migration head and no symbol twice.

Remediation: `BudgetKept`: retries counted without a lock stay below the cap plus one for each actor.
`OneFixEach`: while one supervisor leads, one fix for each failed deploy, none for fixes, and no more
than the cap. `ClosedWhole`: an incident is closed by a batch only when the whole batch is done or
closed. (`DepthKept`, the depth of automated fixes, is proved.)

Fleet: `SourceKept`: the commit that a live remediation has yet to take over stays on the branch it was recorded
with, until a person gives the incident up or the incident's own next build replaces it. `TreeKept`: no collection and no
scan takes the worktree of a job that waits or runs.
`LeaderReturns`: the fleet gets another leader however the last one went.

**Bounds and why they are enough.** Two workers and two jobs suffice for a second claim, a
reclaim by another slot, a blocked dependent and a capacity conflict. `TTL =
Beat = 1` are the smallest values at which a lease can be live, at its limit and expired
and a heartbeat on time or late; in `queue_live` the deployer slot's poll takes back
an orphan that it may not claim itself; `Backoff` and `Pause` are 1 where the waiting
matters and 0 where only the write does. The symmetry of workers is used in safety runs
only. In `pipeline` every budget is 2, the least at which "one more", "the last" and "none left"
are three cases, and the janitor's is 1: a requeue, and none left. Two base advances reach
both an absorb that goes on and the one that gives up the lock (`Steps = 2`), and a
conflict after an absorb. `mid_save` is left out of `queue_races`, where it multiplies the states by five, and
kept in `queue_live`; `CancelledForGood` is proved with it. In `landing` two jobs fight for either
lock while a death leaves one behind; the TTL of 1 makes it live, at its limit and stale. Two deploy jobs of one environment
coalesce, overtake and supersede each other; three commits tell a job's own, a newer and the
newest. `releases` has one release for each way in which verification can end, and two good ones, so that one can replace the other; two deploys in one environment, ordinary or of a promotion, are the least of which one can name its
release over the other's. It has one process that serves requests: what holds of overlapping ones is proved. Four jobs are the least
with which a split has two children and a third party behind them; three stories the least with a
chain and a contradiction. In `gates` the plans are one for each way through PLAN, and two jobs in two
modules collide in a symbol, in a migration or not at all. In `remediation` two filed jobs make a batch, or a fix of
a fix. In `fleet` two remediations are the least with which the first may release what the second needs, two builds those with which an incident can run again after its
candidate was recorded, and two troubles are a failure and something that meets it.
With more than these the proofs take over (section 4): they fix none of the constants.

**Fairness.** In `queue_live`: `WF` on each slot's heartbeat, on its poll (`_loop` polls for
ever) and on what follows the end of a handler (`Leaves`); `SF` on `Tick`, because a worker that renews over
and over disables it only for a moment. That a handler ends is *not* assumed: `_run_leased` records that one may
hang for ever with its heartbeat going (runner.py:570-589). Reclaiming is part of a poll, so with
every slot hung nothing is reclaimed; `OrphansReclaimed` says so in its premise, that one slot comes back
to its poll again and again. Neither crashes nor operators nor errors are fair. One slot
survives: with none there is nobody to reclaim. In `pipeline`: `WF` on `Advance`, the step
of some handler, because workers poll for ever, a handler has a timeout (one that hangs in spite of it settles nothing) and a lost claim
is reclaimed (`OrphansReclaimed`). A DEPLOYING job is taken to be verified in the end: its commit is on the base,
and a restarted process that serves the base or anything later verifies it; a job that is not verified stays DEPLOYING. Nothing is assumed of the janitor, of errors or of
the base; they are bounded, by the code's own budgets and by the bounds
`MaxAdvances`, `MaxCrashes` and `MaxAsked`. An error is not bounded but costs the
job its PENDING state, which only a budget gives back. In `landing`: `WF` on the handlers and on what happens to a
job elsewhere (both have time-outs), `SF` on claims (a slot is free again and again), `WF` on
time. In `deploys`: `WF` on handlers and on the verification of DEPLOYING jobs, which the
leader repeats in every scan. In `graph_wedged`: `WF` on the janitor's scan, which
a loop repeats. In `fleet`: `WF` on boot, collection, the ageing of dead rows, election and the end of a
drain whose slot is idle; deaths, signals and operators are free.

**Mutants.** Every property has a mutant: a changed form of one operation, defined before it, each a
mistake this code could have (`ExpiredEarly`, `RebaseConflictUnnoted`, `GoesToDeployReleases`, `ClosesEarly`,
`ProtectedUntilFirst` …). Put in the operation's place, it makes the property fail in its own run. `PROJECT.json` pairs them.

**Counterexamples to run by hand.** These configurations are not in `PROJECT.json`; TLC finds the named property
violated in each within seconds (`graph_wedged` takes a minute, `graph_disturbed` three with four workers). Section 5 says what they show.

| configuration | module | property |
|---|---|---|
| `queue_cancel.cfg` | `MCJobQueue` | `CancelledStays` |
| `queue_rerun.cfg` | `MCJobQueue` | `ExclusiveExecution` |
| `pipeline_requeue.cfg` | `MCJobPipeline` | `GatedLanding` |
| `pipeline_joined.cfg` | `MCJobPipeline` | `JudgedLanding` |
| `landing_overrun.cfg` | `MCLanding` | `OneMerger` |
| `deploys_cancel.cfg` | `Deploys` | `DeploysSerialized` |
| `releases_coalesced.cfg` | `MCReleases` | `DeployedWasServed` |
| `releases_untold.cfg` | `MCReleases` | `DeployedIsCurrent` |
| `releases_outrun.cfg` | `MCReleases` | `CurrentIsNamedInTime` |
| `graph_hole.cfg` | `MCJobGraph` | `MinimizingKeepsOrder` |
| `graph_wedged.cfg` | `MCJobGraph` | `CyclesRepaired` |
| `graph_disturbed.cfg` | `MCJobGraph` | `SplitsKeepOrder` |
| `remediation_leaders.cfg` | `MCRemediation` | `LeadersHarmless` |
| `remediation_chain.cfg` | `MCRemediation` | `ChainLandsFirst` |
| `fleet_silent.cfg` | `MCFleet` | `WedgeSeen` (with the type invariant `FleetTypeOK`) |
| `fleet_revived.cfg` | `MCFleet` | `SourceKept` |
| `fleet_rescanned.cfg` | `MCFleet` | `TreeKept` |

## 4. Proofs

Every theorem holds for all values of the constants that satisfy the module's assumptions.

`JobQueue_proofs` (any number of workers, jobs, agents, any stage graph,
any lease and heartbeat with `0 < Beat <= TTL`):

| theorem | property | allowed races |
|---|---|---|
| `TypeCorrect` | `TypeOK` | all |
| `CapacityHonored` | `AgentCapacity` | all but `mid_save` |
| `CancelledForGood` | `CancelledStays` | all but `baseline_block` |
| `Exclusive`, `ClaimIsHeld`, `DoneForGood`, `StageMoves`, `RunsOnSettled`, `Implements` | `ExclusiveExecution`, `ClaimHeld`, `DoneStays`, `StageMovedByHolder`, `DependenciesSettled`, `ImplementsService` | at most `baseline_block` (`CleanPaths`) |
| `ImplementsTheTable` | `ImplementsTable` | at most `baseline_block` (`CleanPaths`) |
| `RunningIsLeased` | `Leased`: no RUNNING row has `lease_until = 0`, which no reclaim would take back | all |

**The argument.** `ExclusiveExecution` is not inductive: from a state where a
worker runs a job whose row says PENDING, the next claim breaks it. `IInv`
adds `ClaimHeld`. Inductiveness rests on one arithmetic fact: `lease[j] + beat[w] >=
TTL` while `w` holds `j`, and `Tick` is stopped at `beat[w] = Beat <= TTL`, so the
lease of a held job is never -1 and no claim takes it back. The other half is that a
row under a worker leaves RUNNING only by that worker's own write or by
`Cancel`; and a CANCELLED row is out of reach of claims until a `Retry`, which in
the clean paths waits for its worker to notice.

The proof has one step for each action but does not repeat them for each property: every
action is first shown to have one of a few *shapes* (a row is taken by a free
worker; the worker's own row ends; rows nobody executes change; nothing changes
for executing workers), and the invariant, the action properties and the refinement are
proved from the shapes.

`ImplementsTable` needs one more part, `AtStage`: while a worker carries out a stage, its copy
names the stage of the row, on a cancelled row too. Otherwise its final write, which takes the next stage
from the copy, would not be a step along the graph from where the row is.
The shapes do the rest: of each it is shown which step of the table it is, or that no row moves (`Left`).

`RunningIsLeased` is the safety half of `OrphansReclaimed`, and needs no assumption on the paths: what could leave a
RUNNING row without a lease is a handler that saves its own copy of the row in mid-flight, so the
invariant follows the lease in that copy from the claim through errors and re-runs (`ObjectsLeased`).

`JobPipeline_proofs` (all budgets and bounds):

| theorem | property | operators requeue at | further assumption |
|---|---|---|---|
| `PipelineTypes` | `TypeOK` | any stage | |
| `NothingSlipsAGate` | `GatedLanding` | QUEUED, PLAN, LINT, BUILD, TEST, DEPLOY | |
| `MarkersNeverReachAGate` | `MarkersContained` | any stage | |
| `WhatLandsWasTested` | `LandedTested` | any but TEST, REVIEW, SECURITY, DESIGN_REVIEW | not `DiesMidMerge` |
| `DoneIsEarned` | `DoneMeansLanded` | any but DEPLOY | |
| `SelfHealingIsBounded` | `Progress` | any stage | |
| `PipelineImplementsTheTable` | `ImplementsTable` | any stage | |

The assumptions are the findings of section 5, turned round: they are exactly what the
code would have to rule out. `TypeOK` says that no budget is overdrawn; it needs `Shape`
beside it, which ties `why` to `status`, `stage` and `failure` (a requeue past a gate
looks the stage up by the failure text). The others each have a strengthening:
`GatesHeld` says which gates each checkpoint vouches for, and for FIX and
MERGE_VERIFY that the verdicts stand or the merge delta will be reviewed; `TestsHeld`
and `MarkersHeld` do the same for the tests and the worktree, with the exception of
FAILED rows that nothing sends back there; `LandingHeld` follows the pull request from the squash merge to DONE. `Progress` is proved
step by step from the table of ranks: the measure is, from the left, the requeues left, the
fixes, rebases and time-outs left together, the crashes and base advances left, whether the
base must still be absorbed or markers be resolved, and the place in the stage graph.
`PipelineImplementsTheTable` needs `Shape` too, and nothing else.

The other components:

| module | theorem | property | assumption |
|---|---|---|---|
| `Shipping_proofs` (`Landing` and `Deploys`) | `LandTypeCorrect` | `LandTypeOK` | |
| | `LandingExclusive`, `LandingComplete` | `OneMerger`, `LandsOnLanded` | no merge handler outlives its lock |
| | `LandingInOrder` | `SchemaInOrder` | no schema lock is outlived |
| | `DeployTypeCorrect`, `DeployExclusive`, `DeployTruth` | `DeployTypeOK`, `OneDeploy`, `DoneIsServed` | |
| `Releases_proofs` | `ReleaseTypeCorrect`, `ReleaseOneLive`, `ReleaseCutover`, `ReleaseCurrent` | `ReleaseTypeOK`, `OneLive`, `CutoverGated`, `CurrentIsServed` | |
| `JobGraph_proofs` (with `SplitPlan`) | `GraphTypeCorrect`, `GraphStaysAcyclic`, `OrderIsKept` | `GraphTypeOK`, `GraphAcyclic`, `OrderKept` | |
| | `PlansAreSplitInOrder` | `PlansSplitInOrder` | a job may write at least one path (`MaxPaths`) |
| `Gates_proofs` | `GatesTypeCorrect`, `ScopesFollow`, `AgentsKeptApart`, `GatesSuffice` | `GatesTypeOK`, `ScopeFollowsPlan`, `AgentsApart`, `GateHolds` | |
| `Remediation_proofs` | `RemTypeCorrect`, `RetriesBounded`, `FixesNotDeeper`, `OneFixForEach`, `WholeBatchCloses` | `RemTypeOK`, `BudgetKept`, `DepthKept`, `OneFixEach`, `ClosedWhole` | |
| `Fleet_proofs` (`Artifacts` and `Fleet`) | `FleetTypeCorrect` | `FleetTypeOK` | |
| | `TreesKept`, `SourcesKept` | `TreeKept`, `SourceKept` | no job is brought back while a collection (`revive_in_sweep`) or a scan (`revive_in_scan`) lists it |

* **Landing.** `MergeHeld`: a job between taking the merge lock and landing owns the row, and the row is
  no older than its TTL, because `Tick` waits for it; so a grant to another slot is impossible, and
  `seen` cannot fall behind `lastLanding` between `FindsCurrent` and `Lands`. `SchemaHeld` is the same for the
  schema lock, from the lock to the deploy.
* **Deploys.** `RowHeld`: as long as `mishaps` excludes cancelled and stale, whoever is under the lock
  owns the row and nobody may take it. `DoneIsServed` needs `Ordered` (recorded, served, checked out, tip: in this order)
  and, for each place in the handler, that what the job was filed for is in what it builds and records (`Carries`).
* **Releases.** A transition that was validated and is not yet written must not be forgotten. `OneByOne`: requests follow each other, and the one
  that is being served has superseded what lived; `Alone`, `Gated`, `Absent` say who is on the host, what the
  probe has shown there and when there need be no container. `Ledger`, for what is current when all is quiet: as long as nothing
  odd happens the row fits the step of whoever carries it (`Fits`), one promotion is engaged at a time, a request that
  is being served has none beside it, and what runs is current or belongs to the one that is through (`Served`). For ordinary deploys and for the jobs that name their release before their
  promotion is told, being through begins with the running container, and whoever removes that one meanwhile has `outrun` it. Engaged includes the promotion whose row says deployed and
  whose release is not current yet: a request that finds it there (`untold`) ends the invariant, and rightly so.
* **Graph.** A graph is acyclic when no set of jobs is *stuck*, each of its members waiting for another; the definition needs no
  recursion and is what `_dependency_topo_order` finds out. The lemmas say what keeps it so: a new job waits for older
  ones only and nobody waits for it yet (`NewSource`), the edges of a wave run down its numbering (`NewWave`), a subgraph of an acyclic graph
  is acyclic; what is left are the operations under the lock, which test what they are about to write. The gate that does
  not take the lock sets `raced`. `OrderKept` needs three facts about all jobs (`Kept`): a job that is owed and not done is reached from
  who waits for it (`OwedReached`); whoever was claimed or split has only dependencies that are done (`DepsDone`), so that
  a path cannot lead through it to one that is not; and no auto edge is left between disjoint jobs (`Tight`), because dropping it may cut a path.
  That the minimisation keeps what is reached, although all redundant edges go at once, is shown along the number of jobs below a job,
  which falls along every edge of an acyclic graph (`ReducedReaches`). Who waited for a split job reaches each child over a terminal one (`TopAbove`).
* **Plans.** `PlansAreSplitInOrder` is about an algorithm, not about steps, and the algorithm is a chain of recursive
  functions. Induction is had from sets: if a fact fails for some number it fails for a least one (`SetHasMinimum`, `EveryNumber`).
  So it is shown that a function with such an equation exists (`Iterated`, for what is repeated; `Folded`, for a fold over a finite set),
  which is what CHOOSE needs to pick it, and then what it computes. The groups are a partition in which linked
  stories are together (`GroupsPartition`); the rounds of the topological sort put out every story unless some set of them waits for
  itself, which the plan's contract excludes (`ContractSorts`, `SortsOut`); the doublings of what is awaited reach the transitive
  closure before they stop (`AwaitedCloses`). The janitor's cut of an oversized story counts its files off in their order, so that
  each batch fits a job (`SliceFits`), no file is left over (`SlicesCover`) and every batch waits for the earlier ones
  (`BatchesWait`): the result is again a plan that meets the contract (`BoundedIsGood`), and the first part applies to it.
* **Gates.** `ScopeInv`: an accepted plan is complete and of an accepted size, what is frozen is the answer, and
  a job that is past PLAN has both saved; `AgentsApart` then follows because a scope only changes in a job that
  is at PLAN, whose next agent goes through a claim. `GateInv`: whatever was tested and is not loose was judged (`Judged`) in
  comparison with the tree it stems from, and lands on that tree.
* **Remediation.** An actor works on what it has read, so each invariant says what may still be relied on when it comes to
  act. `BudgetBounded` adds to the count of a job the actors that are about to add one to it: together they stay below the cap plus
  the number of actors, because whoever sets out has just seen less than the cap. `FixesChecked`: a check that no
  fix has been filed still holds as long as nobody else leads. `DepthBounded`: whoever is about to file has seen that
  there is room below. `ClosedWhole` needs no invariant but the climb up the lineage, a recursive function: that it exists, which is all that
  its recursive equation needs, is shown by the least set that holds the job and is not left upwards (`PropagatedSo`), not by induction.
* **Fleet.** What the git artifacts do does not depend on who leads: every step of `Fleet` is one of the few of `ArtStep` or leaves
  the artifacts alone (`FleetArt`), and the invariants are proved of `ArtStep`. A collection deletes what it has listed, however
  long ago, so `TreeKept` needs that what is listed has ended and stays so (`ListedEnded`), and `SourceKept` that no
  collection lists an open incident that a live remediation still needs (`NeededUnlisted`). The reading of the job table
  establishes both (`Active`, `Protected`); that a job comes back later breaks them, which is what the hypotheses
  exclude, and nothing else does: not a second collection by another process, not a wave filed meanwhile. For the scan the same is `ListTrue`, what it lists or is starting over
  has failed and still is so, and `ListsApart`, no other scan has it on its list; a worktree that it removes is then one nobody is to run in. `SourceKept` also
  speaks of the other ways in which a branch goes: a candidate was recorded from a job that had failed at a gate, so that
  it is a commit of its own (`Sources`, `Branches`, `SlotAt`), and a requeue that drops a branch only meets one on which
  no recorded commit is any more.

**Only model-checked.** What is temporal: `OrphansReclaimed`, `Settles`, `LandingSettles`, `DeploysSettle`,
`LeaderReturns` (liveness and ENABLED are beyond the prover's reach; the measure behind `Settles` is proved).
Every other property of the runs, invariant or step, is a theorem.

## 5. Findings

Places where the program does something else than a document, a comment or a test of it says, met
while modelling. The first is a run of `PROJECT.json`; those with a configuration can be
run by hand (section 3); the others are assumptions or exceptions that the models name.

**Queue and pipeline**

* **`pipeline_unvalidated`.** That a base advance was absorbed is known to one run of
  `merge.run` only (`base_advanced`, merge.py:359). When that run ends before the
  validation, the next one finds the base absorbed already and lands the merged tree without
  it; the comment (merge.py:353) says why that must not be: it "ships to main
  unexamined".
* **`queue_cancel.cfg`.** `file_baseline_security_remediation` (store.py:5076) sets the
  job PENDING whatever its status. A job cancelled while its security gate runs
  comes back to life; docs/mcp.md:83 promises to cancel a running job.
* **`queue_rerun.cfg`.** After a transient database error in `clear_executing_step`
  (runner.py:1564), `_run_stage_with_retry` (runner.py:652) calls `_run_leased`
  again with a job object that already names the *next* stage. It runs it without
  a claim, beside the worker that claimed the job; runner.py:642 says that the
  job's stage is never touched there, store.py:3276 that exactly one worker wins a
  job.
* **`pipeline_requeue.cfg`.** `requeue_job` and the incident analyst may send a failed job to
  "review" (incident_analyst.py:96). The handler of REVIEW is the security gate, so a
  job that never passed its review lands without one. docs/mcp.md:85 says "Requeue a
  `FAILED` job from a specific stage", incident_analyst.py:54 "Choose the earliest
  stage that must re-run".
* **`pipeline_joined.cfg`.** A base merge that conflicts is resolved by the program itself when every conflict has two blocks, both
  not empty and not of equal length (conflict_autoresolve.py:97-107): it puts one behind the other and commits (merge.py:289-310, and
  560-577 after GitHub has refused the merge). docs/site/pages/pipeline.js:62 calls that a "pure two-sided-append conflict";
  two edits of one place whose lengths differ are joined as well, and conflict_autoresolve.py:47 relies on the "downstream
  lint/fix-stage machinery", of which the merge runs lint and tests, and nothing at all after a refusal. Review, security and design review have not seen the text that lands.
  `GatedLanding` says what is left: every gate has spoken, on that text or on the one before such a join; `JudgedLanding`, on the text itself, is violated.
* `claim_fastpath` (store.py:3416) has no manifest gate,
  though its docstring (store.py:3406) says "Same advisory lock and claim
  conditions as `claim`". Rows of overlapping manifests may be RUNNING together; their *agents* are
  not (`AgentsApart`).
* `remediate_transient` (supervisor.py:702) sends a job whose
  worktree is gone to BUILD, "which recreates it" (supervisor.py:699). The handler of
  BUILD runs the tests and fails for the same reason; only the handler of PLAN
  creates a worktree.
* `get_scheduler_wait` shows nothing for a job that no agent has the skill for, or that waits for its rebase
  backoff; its docstring (store.py:3568-3572) makes no such exception. (The operation only reads; it is not modelled.)

Two more windows are visible with the race switches and contradict no document: a
cancelled job retried before its worker notices (`retry_midrun`), and a failure
after the final save that fails the next worker's claim (`tail_error`). That is why
`ExclusiveExecution` and `StageMovedByHolder` are stated without them.

**Landing**

* **`landing_overrun.cfg`.** Nothing renews the merge lock (merge.py:243); a merge that takes longer than its TTL is
  overtaken, although "two jobs must not merge into one repo's base at once".
* The schema lock is released by `_fail` also for a job that has landed (runner.py:1059), while merge.py:227-230 keeps it
  "until deployed".
* Symbol and migration gates are not run again after an absorb or a MERGE_VERIFY: two migrations on one parent that pass TEST
  beside each other both land, although collision.py:1543 says "This runs pre-merge instead". `GateHolds` excepts such jobs (`loose`).

**Deploys and releases**

* **`deploys_cancel.cfg`.** `_stale_deploy_lock_owner_terminal` (store.py:5218) treats a cancelled job's row as leaked, "a terminal job
  cannot still be deploying" (store.py:5221), but the handler does not look at the cancel: two deploys replace one service.
* **`releases_coalesced.cfg`.** The deploy job of a promotion coalesces when the tip of the base is the commit
  recorded last (deploy.py:85); release and image are not compared. Two promotions while the branch stands still:
  the second is marked deployed and current without a pull (docs/site/pages/deploy.js:7 promises the cutover first).
* **`releases_untold.cfg`.** A promotion is marked deployed in one transaction and its release becomes current in the next
  (store.py:2882-2889). A later promotion that comes and goes between the two is overwritten by the older one, although DEPLOYED is "Terminal. The
  environment's current release is updated" (docs/site/pages/deploy.js:15). `CurrentIsServed` excepts it (`untold`).
* **`releases_outrun.cfg`.** A deploy job names its release as current after it has given back the lock (stages/deploy.py:264-283), in the
  default environment of the project, whatever environment it deployed to and whether its promotion is superseded, unlinked or there at
  all. Two deploys that replace the container in one order and name their releases in the other leave a current release that does not run (`outrun`);
  so does an image that is deployed to another environment (`elsewhere`), and an ordinary deploy whose image was not pushed, signed and digested
  names none and leaves the old one current (`unpushed`). `CurrentIsServed` holds until one of these happens.
* The deploy lock is released without its environment (deploy.py:143); HEAD is read after that (deploy.py:168); the previous deploy
  is read before the lock (deploy.py:53); `apply` on the host takes no lock; a superseded promotion's job
  still deploys; promoting the release that is current does nothing even if another image runs; an unlinked promotion
  stays dispatched; a command deploy with commit "(none)" records nothing, and the poller files up to three jobs for
  its tip; a deploy that died cannot retake its own lock before it is stale; `transition_promotion` validates and writes in two
  transactions.

**Graph and plans**

* **`graph_hole.cfg`.** `minimize_auto_dependencies` promises "a stable, reachability-preserving minimal dependency graph"
  (collision.py:1023) but drops an auto edge between disjoint jobs even in the middle of a path.
* **`graph_wedged.cfg`.** `_check_dependency_cycles` is there to "auto-repair provenance-safe dependency cycles" (supervisor.py:2474), but
  the scan calls `reconcile_auto_dependencies` before it, unguarded, and that raises on a cycle: one cycle, which
  the baseline gate can close, ends every later scan.
* **`graph_disturbed.cfg`.** An auto edge is left out because "another path already provides the same ordering"
  (collision.py:1026). When that path leads through a job that is being split and was given an edge meanwhile
  (`add_job_dependency` looks at no status), or that was split and is retried (`retry` keeps the resolution, and
  `list_split_parents_with_pending_dependents`, store.py:5826, asks for no status), its dependents are moved to its children, which wait for nothing
  that it waits for: the order is lost. It takes a wave and a budget beyond those of run `graph`, which is why only the proof found it; `OrderKept` excepts it (`disturbed`).
* A crash in the middle of a split leaves children beside the second set; the dependents of a cancelled job wait for ever; a retried
  parent keeps `superseded-by-split`; the baseline gate adds its edge outside the lock (store.py:5072).
* `_group_by_shared_files` is greedy, so that the scope gate's message can call a story independent that shares a file with a chained one
  (plan.py:27-42, 231). When declared dependencies contradict the order of the files, which only plans saved before the contract can do,
  the fallback chain by id runs a story before its dependency (plan.py:350-352); `SplitOrdered` speaks of plans that passed the contract.

**Scopes and gates**

* `freeze_validated_plan_scope` (plan.py:774) overwrites what `reconcile_plan_scope` has just united, whose docstring (store.py:1757)
  says that the scope is extended. `ScopeFollowsPlan` is what is true instead.
* The gates fail open when git cannot list a diff; two planners of one job, after a cancel and a retry, may interleave their saves, and
  nobody looks at what `spend_plan_correction` returns; a forced retry reads `source_meta` without a row lock.

**Remediation**

* **`remediation_leaders.cfg`.** The election loop puts up with two leaders because "all janitor operations are
  idempotent" (supervisor.py:2994). `remediate_deploy_failed` asks for a fix (1072) and files it in a later
  transaction (1107): two leaders file two.
* **`remediation_chain.cfg`.** The notification of a batch says the incident "auto-requeues when the chain lands"
  (supervisor.py:2039), but it waits for the last job created only (store.py:4895).
* `repair_in_place` saves a FAILED row (supervisor.py:1786), which `save` does not write, and records the scope as expanded; a job that
  ends through the deploy path does not propagate to its incidents (store.py:4622 is only reached by `save`); a resolved FAILED job is
  still scanned and revived by every class but dependency_blocked; the dedup of deploy fixes strands a job whose fix
  was created by a process that died before it linked it, and one that fails a second time; a diagnosis is applied to an incident that
  may have been retried meanwhile; a person's fix hands the depth on without adding to it.

**Fleet and artifacts**

* **`fleet_silent.cfg`.** The scan reclaims the rows of slots whose job has ended and looks for a stuck fleet right after
  (supervisor.py:2617, 2620): the slots still hang, the rows say idle, nobody is alerted. supervisor.py:2557 says that
  the check "catches what that reclaim cannot fix".
* **`fleet_revived.cfg`.** A collection works through the ids that it read when it began (gitops.py:733) and looks at no job again. An
  incident that is cancelled while its remediation is live is listed; a retry makes it current again, and the sweep deletes
  the branch that the remediation has yet to take over, though artifacts of such an incident "are still required" (store.py:4087). A retry
  between the reading of the ids and the sweep loses the worktree of a live job in the same way (against store.py:4078).
  `TreesKept` and `SourcesKept` are proved without this schedule, and only without it.
* **`fleet_rescanned.cfg`.** A scan reads the failed jobs once (supervisor.py:2628) and goes through them with awaits in between, up to ten
  minutes for each that the analyst is asked about. `remediate_stale_branch` then removes worktree and branch (supervisor.py:496-508)
  and looks at the row again in the requeue only (510). A job that an operator retried meanwhile loses the worktree it waits for or
  works in. The class is to apply "safe remediations" (supervisor.py:9). The run and the two theorems leave this schedule (`revive_in_scan`)
  out as well.
* A leader whose heartbeat raises ends its task and keeps its connection, and with it the lock: nobody leads until
  the process restarts (supervisor.py:3048, against the class's docstring at 2943-2947). `LeaderReturns` excepts it.
* A second SIGTERM during a drain has no effect (`__main__.py`:125-134, against deploy/README.md:104-109).
* A remediation that was captured and is built again is seeded again (build.py:55 does not read `captured`), and fails when the
  incident's branch has been collected (store.py:4090-4093). The wedge check
  takes the oldest `updated_at`, though its docstring speaks of no job having advanced. The branch is always deleted before its
  worktree in the first pass, which git refuses.

**Dead code.** Nothing calls `_apply_authorized_scope_amendment` (runner.py:1190), `check_out_of_lane`, `evaluate_scope`, `expand_job_scope`,
`mark_early_scope_correction_attempt`, `evaluate_scope_amendment`, `append_scope_amendment`, `_topo_order` (plan.py:82) and `reset_running`:
none of them is modelled.

## 6. What is left out

* **Data.** What agents, reviewers and tests say; the texts by which failures are classified; path
  patterns, symbol and migration parsing (trees are sets); notification, events and layout.
* **Pipeline.** Repositories without a remote; reads of git that fail, most of which fail open; provider pauses and lock waits in
  `JobPipeline`, which leave the job where it is (and lose the mark of a second build, as a time-out does).
* **Graph.** Scopes that change (`Gates` has them); the repair budget of the cycle check; the saved-plan split in
  the re-pointing of orphans.
* **Deploys and releases.** In `Releases`: deploys of the pipeline itself, which restart before they name a release (`Deploys` has
  them), compose and command deploys, which have no digest, a promotion's job that builds from the checkout because no registry to pull
  from is configured, and ordinary deploys of other environments. nginx, ports, resource records, compose's own ordering; the staleness alert, which
  reads a field the record does not have (`deployed_at` for `finished_at`).
* **Fleet and artifacts.** Remote branches, ref repair, plan worktrees, the docker sweep; two processes that clone the managed
  repository at once; several slots of one process; `cleanup_branch_for_retry` on the job's own path. Reading ids, disk and branches is
  one step of the sweep. Of the remedies of a scan, starting a job over and filing a wave work from the rows as they were read; a failure carried down the dependencies
  and back acts on the row as it is. A transient failure of a build, which is requeued without a removal, is started over here like the others;
  `repair_in_place`, which saves the copy that the scan has read (supervisor.py:1786), remediations of remediations (`Remediation` has them), the analyst's requeue at a stage, its fixes for stale branches,
  dependencies that the queue survey adds to a wave and commits of the FIX stage are left out. A cancel of an incident whose
  remediations wait gives its candidate up, which `SourceKept` says.
* **Composition.** Queue and pipeline meet in `JobTable`, which speaks of stage and status. That the claims of `JobQueue` let the
  handlers of `JobPipeline` run one after the other is `ExclusiveExecution`, not a refinement of the two into one; the other modules
  share the row in the same way, each with the writes that its own operations make.
* **External.** Git, GitHub, docker, test and lint tools are open outcomes. Web pages, sessions, tokens and the chat agent are
  presentation or I/O. The clocks of the processes are taken to agree.

## 7. Where to go on

`Landing`, `Deploys` and `Remediation` as implementations of `JobTable`; the path algebra of `collision.py` against a reference definition; repositories without a remote.
