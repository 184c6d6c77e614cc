---------------------------- MODULE JobPipeline ----------------------------
(***************************************************************************)
(* One job on its way through the stages: the eleven handlers of           *)
(* pipeline/stages, the fix / rebase / time-out budgets of runner.py, the  *)
(* landing of the pull request, and the janitor (supervisor.py) that sends *)
(* a failed job back.                                                      *)
(*                                                                         *)
(* A stage name is the last checkpoint the job reached, so the handler of  *)
(* a stage does the work AFTER it: at BUILD the tests run, at DESIGN_REVIEW *)
(* the merge.  Who runs the handler is JobQueue's subject: here a PENDING  *)
(* job is simply advanced by one handler, whole, except for the merge,     *)
(* which is cut into its steps because the base branch moves under it and  *)
(* the worker may die between them.                                        *)
(*                                                                         *)
(* Repositories with a GitHub remote only.  Left out: reads of git that    *)
(* fail (most of them fail open, see the README), provider pauses and      *)
(* lock waits (the job stays where it is), the baseline block of the       *)
(* security gate (JobQueue).                                               *)
(***************************************************************************)
EXTENDS Naturals

CONSTANTS
    MaxFix,         \* max_attempts: FIX runs for a failed gate
    MaxRebase,      \* rebase_max_attempts: FIX runs for a merge conflict
    MaxTimeouts,    \* max_timeouts
    Steps,          \* merge_inlock_steps
    MaxRequeues,    \* dead_letter_cap of the janitor
    GateRecoveries, \* auto_recovery_cap of the janitor
    GateHistory,    \* gate failures before two gates can be told to conflict
    RequeueStages,  \* stages an operator or the analyst may requeue at
    DiesMidMerge,   \* the merge may stop between absorbing and validating
    MaxAdvances,    \* model bound: times the base branch advances
    MaxCrashes,     \* model bound: times the worker dies
    MaxAsked        \* model bound: requeues asked by an operator

Stages == {"QUEUED", "PLAN", "LINT", "FIX", "BUILD", "TEST", "REVIEW",
           "SECURITY", "DESIGN_REVIEW", "MERGE_VERIFY", "DEPLOY", "DONE"}

ASSUME BudgetsAssumption ==
    /\ MaxFix \in Nat /\ MaxRequeues \in Nat /\ GateRecoveries \in Nat
    /\ GateHistory \in Nat /\ MaxAdvances \in Nat /\ MaxCrashes \in Nat
    /\ MaxAsked \in Nat
    /\ MaxRebase \in Nat \ {0} /\ MaxTimeouts \in Nat \ {0} /\ Steps \in Nat \ {0}
ASSUME SwitchesAssumption ==
    RequeueStages \subseteq Stages \ {"DONE"} /\ DiesMidMerge \in BOOLEAN

VARIABLES
    stage, status,
    phase,      \* how far the merge handler is
    absorbed,   \* base advances this run of it has merged
    attempts, rebases, timeouts,
    requeues,   \* supervisor_requeue_count
    failure,    \* the kind of job.failure, the text the fixer works from
    why,        \* what the janitor makes of failure_code, error and stage
    delta,      \* merge_delta_sha is set
    built,      \* job.branch is set
    tree,       \* the worktree
    current,    \* the branch contains the base tip (with markers: will)
    tested,     \* the tests passed on the branch as it is
    passed,     \* gates that have spoken since the branch last got new text
    overtaken,  \* gates that spoke before the program itself joined a conflict
    code,       \* the diff touches code files
    landed, advances, crashes, asked

budgets == <<attempts, rebases, timeouts>>
record == <<failure, why, delta, built>>
verdicts == <<passed, overtaken>>
work == <<tree, current, tested, verdicts, code>>
world == <<advances, crashes, asked>>
merge == <<phase, absorbed>>
vars == <<stage, status, merge, budgets, requeues, record, work, landed, world>>

Gates == {"review", "security", "design"}
Landings == {"validated", "raced", "unvalidated"}

Init ==
    /\ stage = "QUEUED" /\ status = "PENDING"
    /\ phase = "idle" /\ absorbed = 0
    /\ attempts = 0 /\ rebases = 0 /\ timeouts = 0 /\ requeues = 0
    /\ failure = "none" /\ why = "none" /\ delta = FALSE /\ built = FALSE
    /\ tree = "none" /\ current = TRUE /\ tested = FALSE
    /\ passed = {} /\ overtaken = {} /\ code = FALSE
    /\ landed = "no" /\ advances = 0 /\ crashes = 0 /\ asked = 0

-----------------------------------------------------------------------------
(* What handlers share. *)

At(s) == status = "PENDING" /\ stage = s

Moves(s) == stage' = s /\ status' = "PENDING"

\* _fail: the stage stays; the row says how the janitor will read it.
Fails(w) == status' = "FAILED" /\ why' = w /\ UNCHANGED stage

\* Failures without a failure_code: the janitor reads texts, and an old
\* "[merge-conflict]" text always wins over a network keyword in the error.
Untyped == IF failure = "conflict" THEN {"final"} ELSE {"final", "transient"}

\* Mutant: the budget is compared after it is spent.
RetryOrFailLate(kind, gate) ==
    /\ \/ /\ attempts <= MaxFix
          /\ attempts' = attempts + 1
          /\ failure' = kind
          /\ why' = "none"
          /\ Moves("FIX")
       \/ /\ attempts > MaxFix \/ (gate /\ attempts >= GateHistory)
          /\ Fails("final")
          /\ UNCHANGED <<attempts, failure>>
    /\ UNCHANGED <<rebases, timeouts, requeues, delta, built, landed, world>>

\* A gate (gate = TRUE: review or security, whose alternation is watched) has
\* turned the job down: a FIX run while the budget lasts.
RetryOrFail(kind, gate) ==
    /\ \/ /\ attempts < MaxFix
          /\ attempts' = attempts + 1
          /\ failure' = kind
          /\ why' = "none"
          /\ Moves("FIX")
       \/ /\ attempts = MaxFix \/ (gate /\ attempts >= GateHistory)
          /\ Fails("final")
          /\ UNCHANGED <<attempts, failure>>
    /\ UNCHANGED <<rebases, timeouts, requeues, delta, built, landed, world>>

\* Mutant: the merge does not note the delta.
RebaseConflictUnnoted ==
    /\ \/ /\ rebases < MaxRebase
          /\ rebases' = rebases + 1
          /\ failure' = "conflict"
          /\ why' = "none"
          /\ Moves("FIX")
       \/ /\ rebases = MaxRebase
          /\ Fails("final")
          /\ UNCHANGED <<rebases, failure>>
    /\ phase' = "idle" /\ absorbed' = 0
    /\ UNCHANGED <<attempts, timeouts, requeues, delta, built, landed, world>>

\* A conflict with the base: a FIX run on a budget of its own.  The delta to be
\* verified afterwards is noted by the merge before it calls this.
RebaseConflict ==
    /\ delta' = TRUE
    /\ \/ /\ rebases < MaxRebase
          /\ rebases' = rebases + 1
          /\ failure' = "conflict"
          /\ why' = "none"
          /\ Moves("FIX")
       \/ /\ rebases = MaxRebase
          /\ Fails("final")
          /\ UNCHANGED <<rebases, failure>>
    /\ phase' = "idle" /\ absorbed' = 0
    /\ UNCHANGED <<attempts, timeouts, requeues, built, landed, world>>

\* A failure that spends no budget.
Aborts(w) ==
    /\ Fails(w)
    /\ UNCHANGED <<merge, budgets, requeues, failure, delta, landed, world>>

\* A handler's success: it leaves counters and world alone.
Passes(s) ==
    /\ Moves(s)
    /\ why' = "none"
    /\ UNCHANGED <<merge, budgets, requeues, failure, landed, world>>

\* A commit somebody wrote: earlier verdicts no longer speak of this tree.
Authored == tree' = "clean" /\ tested' = FALSE

\* No verdict of a gate is about what is on the branch now.
Unjudged == passed' = {} /\ overtaken' = {}

-----------------------------------------------------------------------------
(* PLAN, BUILD *)

Plan ==
    /\ At("QUEUED")
    /\ Passes("PLAN")
    /\ UNCHANGED <<delta, built, work>>

PlanSplits ==
    /\ At("QUEUED")
    /\ status' = "CANCELLED"
    /\ UNCHANGED <<stage, merge, budgets, requeues, record, work, landed, world>>

\* Parked or incomplete plans stay failed; other errors are read from their text,
\* or as an orphaned worktree when the job once had a branch.
PlanFails ==
    /\ At("QUEUED")
    /\ \E w \in {"final"} \union (IF built THEN {"stale"} ELSE {"transient"}) : Aborts(w)
    /\ UNCHANGED <<built, work>>

\* The worktree is made anew from the base tip, whatever was there.
Fresh(t) ==
    /\ tree' = t
    /\ current' = TRUE
    /\ tested' = FALSE
    /\ Unjudged
    /\ built' = TRUE

Build ==
    /\ At("PLAN")
    /\ Fresh("clean")
    /\ code' \in BOOLEAN
    /\ Passes("LINT")
    /\ UNCHANGED delta

\* Nothing to commit: a verifier decides, in a detached checkout of the base that
\* takes the worktree's place.  why = "nodiff" here means that this is the
\* evidence-informed second build.
BuildNothing ==
    /\ At("PLAN")
    /\ Fresh("none")
    /\ UNCHANGED code
    /\ \/ /\ stage' = "DONE" /\ status' = "DONE"
          /\ landed' = "satisfied"
          /\ UNCHANGED <<merge, budgets, requeues, failure, why, delta, world>>
       \/ Aborts(IF why = "nodiff" THEN "final" ELSE "nodiff")
       \/ Aborts("final")

\* No worktree, or no push; or the work to be continued is not there.
BuildFails ==
    /\ At("PLAN")
    /\ \E t \in {"none", "clean"} : Fresh(t)
    /\ UNCHANGED code
    /\ \E w \in {"stale", "final"} : Aborts(w)

-----------------------------------------------------------------------------
(* LINT, TEST and the three gates *)

\* Lint fixes what it can, commits that, and then gives its verdict.
LintFixes ==
    \/ /\ Authored /\ Unjudged
       /\ UNCHANGED <<current, code>>
    \/ UNCHANGED work

LintPasses ==
    /\ At("LINT") /\ tree # "none"
    /\ LintFixes
    /\ Passes("BUILD")
    /\ UNCHANGED <<delta, built>>

LintFails ==
    /\ At("LINT") /\ tree # "none"
    /\ LintFixes
    /\ RetryOrFail("lint", FALSE)
    /\ UNCHANGED merge

LintWithoutTree ==
    /\ At("LINT") /\ tree = "none"
    /\ Aborts("final")
    /\ UNCHANGED <<built, work>>

TestPasses ==
    /\ At("BUILD") /\ tree # "none"
    /\ tested' = TRUE
    /\ Passes("TEST")
    /\ UNCHANGED <<delta, built, tree, current, verdicts, code>>

TestFails ==
    /\ At("BUILD") /\ tree # "none"
    /\ \E kind \in {"collision", "other"} : RetryOrFail(kind, FALSE)
    /\ UNCHANGED <<merge, work>>

TestWithoutTree ==
    /\ At("BUILD") /\ tree = "none"
    /\ Aborts("missing")
    /\ UNCHANGED <<built, work>>

Approves(gate, next) ==
    /\ passed' = passed \union {gate}
    /\ overtaken' = overtaken \ {gate}
    /\ Passes(next)
    /\ UNCHANGED <<delta, built, tree, current, tested, code>>

Review ==
    /\ At("TEST") /\ tree # "none"
    /\ \/ Approves("review", "REVIEW")
       \/ RetryOrFail("other", TRUE) /\ UNCHANGED <<merge, work>>

Security ==
    /\ At("REVIEW") /\ tree # "none"
    /\ \/ Approves("security", "SECURITY")
       \/ RetryOrFail("other", TRUE) /\ UNCHANGED <<merge, work>>

\* A change without user interface passes unseen, worktree or not.
DesignReview ==
    /\ At("SECURITY")
    /\ \/ Approves("design", "DESIGN_REVIEW")
       \/ tree # "none" /\ RetryOrFail("other", FALSE) /\ UNCHANGED <<merge, work>>

\* Tests on the merged tree; review and security only when a merge delta is noted
\* and touches code.  They look at all that the job has on the branch.
MergeVerifyPasses ==
    /\ At("MERGE_VERIFY") /\ tree # "none"
    /\ tested' = TRUE
    /\ IF delta /\ code
       THEN /\ passed' = passed \union {"review", "security"}
            /\ overtaken' = overtaken \ {"review", "security"}
       ELSE UNCHANGED verdicts
    /\ delta' = FALSE
    /\ Passes("SECURITY")
    /\ UNCHANGED <<built, tree, current, code>>

MergeVerifyFails ==
    /\ At("MERGE_VERIFY")
    /\ \/ RetryOrFail("other", FALSE)
       \/ delta /\ code /\ RetryOrFail("delta", FALSE)
    /\ UNCHANGED <<merge, work>>

-----------------------------------------------------------------------------
(* FIX *)

\* The fixer's commit.  A conflict resolution that touches no code keeps the
\* verdicts of review and security, by the pipeline's own rule.
FixWork ==
    /\ Authored
    /\ code' \in {code, TRUE}
    /\ IF failure = "conflict" /\ ~code'
       THEN passed' = passed \ {"design"} /\ overtaken' = overtaken \ {"design"}
       ELSE Unjudged
    /\ UNCHANGED current

FixCommits ==
    /\ At("FIX") /\ tree # "none"
    /\ FixWork
    /\ Passes(IF failure = "conflict" THEN "MERGE_VERIFY" ELSE "LINT")
    /\ UNCHANGED <<delta, built>>

FixPushFails ==
    /\ At("FIX") /\ tree # "none"
    /\ FixWork
    /\ Aborts("transient")
    /\ UNCHANGED built

\* No changes: a gate that may be wrong, or a case for a human.
FixNothing ==
    /\ At("FIX") /\ tree = "clean"
    /\ Aborts(IF failure \in {"lint", "collision", "delta"} THEN "nochange" ELSE "final")
    /\ UNCHANGED <<built, work>>

FixWithoutTree ==
    /\ At("FIX") /\ tree = "none"
    /\ Aborts("missing")
    /\ UNCHANGED <<built, work>>

-----------------------------------------------------------------------------
(* MERGE: absorb the base, validate, squash-merge the pull request, save. *)

MergeBegins ==
    /\ At("DESIGN_REVIEW") /\ phase = "idle"
    /\ phase' = "absorb"
    /\ absorbed' = 0
    /\ UNCHANGED <<stage, status, budgets, requeues, record, work, landed, world>>

Absorbing == At("DESIGN_REVIEW") /\ phase = "absorb"
Behind == ~current \/ tree = "markers"

\* The base does not merge, but every conflict looks like lines added by both sides
\* (two blocks, not of equal length): the program puts one behind the other and
\* commits that.
Joins ==
    /\ passed' = {}
    /\ overtaken' = overtaken \union passed

\* A merge takes in the base tip; one that is still under way only ends.
TakesBase == current' = (current \/ tree = "clean")

\* The base advance is absorbed, by a clean merge or by joining what conflicts.
\* The last allowed one sends the job to MERGE_VERIFY, which gives up the merge lock.
Absorb ==
    /\ Absorbing /\ tree # "none" /\ Behind
    /\ \/ tree = "clean" /\ UNCHANGED verdicts
       \/ Joins
    /\ tree' = "clean"
    /\ TakesBase
    /\ tested' = FALSE
    /\ \/ /\ absorbed + 1 < Steps
          /\ absorbed' = absorbed + 1
          /\ UNCHANGED <<stage, status, phase, why, delta>>
       \/ /\ absorbed + 1 >= Steps
          /\ Moves("MERGE_VERIFY")
          /\ phase' = "idle" /\ absorbed' = 0
          /\ why' = "none"
          /\ delta' = FALSE
    /\ UNCHANGED <<budgets, requeues, failure, built, code, landed, world>>

\* It leaves conflict markers in the worktree.
AbsorbConflicts ==
    /\ Absorbing /\ tree # "none" /\ Behind
    /\ tree' = "markers"
    /\ TakesBase
    /\ RebaseConflict
    /\ UNCHANGED <<tested, verdicts, code>>

\* The worktree is gone and the local branch is not: the merge fails and is taken
\* for a conflict.
AbsorbWithoutTree ==
    /\ Absorbing /\ tree = "none"
    /\ RebaseConflict
    /\ UNCHANGED work

\* Mutant: a clean merge is taken for a correct one.
MergeReadyUnexamined ==
    /\ Absorbing /\ tree # "none" /\ ~Behind
    /\ phase' = "land"
    /\ UNCHANGED <<stage, status, absorbed, budgets, requeues, record, work, landed, world>>

\* Nothing absorbed needs nothing more; an absorbed base is validated.
MergeReady ==
    /\ Absorbing /\ tree # "none" /\ ~Behind
    /\ phase' = "land"
    /\ tested' = (tested \/ absorbed > 0)
    /\ UNCHANGED <<stage, status, absorbed, budgets, requeues, record, tree, current,
                   verdicts, code, landed, world>>

\* Both sides rewrote the same lines: a conflict without markers.
ValidationOverlaps ==
    /\ Absorbing /\ tree # "none" /\ ~Behind /\ absorbed > 0
    /\ RebaseConflict
    /\ UNCHANGED work

ValidationFails ==
    /\ Absorbing /\ tree # "none" /\ ~Behind /\ absorbed > 0
    /\ RetryOrFail("other", FALSE)
    /\ phase' = "idle" /\ absorbed' = 0
    /\ UNCHANGED work

Landing == At("DESIGN_REVIEW") /\ phase = "land"

\* What the squash merge puts on the base: exactly the validated branch, unless
\* the base has moved since it was last looked at.
LandedAs ==
    IF ~current THEN "raced" ELSE IF tested THEN "validated" ELSE "unvalidated"

Lands ==
    /\ landed' = LandedAs
    /\ phase' = "landed"
    /\ tree' = "none"
    /\ UNCHANGED <<stage, status, absorbed, budgets, requeues, record, code, world>>

\* The worktree is dropped first: gh deletes the branch it has checked out.
Squash ==
    /\ Landing
    /\ Lands
    /\ UNCHANGED <<current, tested, verdicts>>

\* No usable pull request (the worktree is still there), or GitHub refuses to
\* merge it (the worktree is gone).
LandingFails ==
    /\ Landing
    /\ tree' \in {tree, "none"}
    /\ \E w \in Untyped : Fails(w)
    /\ phase' = "idle" /\ absorbed' = 0
    /\ UNCHANGED <<budgets, requeues, failure, delta, built, current, tested, verdicts,
                   code, landed, world>>

\* GitHub reports a conflict.  The worktree is recreated from the branch and the
\* fetched base is merged into it, without any validation; a conflict
\* that looks like added lines is joined here too.
Remerged ==
    /\ current' = TRUE
    /\ tested' = (current /\ tested)
    /\ UNCHANGED verdicts \/ (~current /\ Joins)

\* The refreshed branch is pushed and lands ...
PhantomLands ==
    /\ Landing
    /\ Remerged
    /\ Lands

\* Mutant: a refreshed branch that cannot be merged falls through to the success.
PhantomFallsThrough ==
    /\ Landing
    /\ Remerged
    /\ phase' = "landed"
    /\ UNCHANGED <<stage, status, absorbed, budgets, requeues, record, tree, code,
                   landed, world>>

\* ... or cannot be pushed or merged.  Taken for transient, this resumes at a merge
\* that finds its base absorbed: one of the ways of DiesMidMerge.
PhantomFails ==
    /\ Landing
    /\ Remerged
    /\ \E w \in IF current \/ DiesMidMerge THEN Untyped ELSE {"final"} : Fails(w)
    /\ phase' = "idle" /\ absorbed' = 0
    /\ UNCHANGED <<budgets, requeues, failure, delta, built, tree, code, landed, world>>

\* It does not merge, but leaves no unmerged path either.
PhantomRetries ==
    /\ Landing
    /\ rebases' = IF rebases < MaxRebase THEN rebases + 1 ELSE rebases
    /\ \/ rebases + 1 < MaxRebase /\ Moves("SECURITY") /\ why' = "none"
       \/ rebases + 1 >= MaxRebase /\ \E w \in Untyped : Fails(w)
    /\ phase' = "idle" /\ absorbed' = 0
    /\ UNCHANGED <<attempts, timeouts, requeues, failure, delta, built, work, landed, world>>

\* It leaves markers.
LandingConflicts ==
    /\ Landing /\ ~current
    /\ tree' = "markers"
    /\ current' = TRUE
    /\ RebaseConflict
    /\ UNCHANGED <<tested, verdicts, code>>

\* After the landing: summary, follow-ups and decision log, then the save.
MergeEnds ==
    /\ At("DESIGN_REVIEW") /\ phase = "landed"
    /\ Moves("DEPLOY")
    /\ phase' = "idle" /\ absorbed' = 0
    /\ UNCHANGED <<budgets, requeues, record, work, landed, world>>

-----------------------------------------------------------------------------
(* DEPLOY *)

\* The finalising writes clear the failure text, the plain save keeps it.
Finishes ==
    /\ stage' = "DONE" /\ status' = "DONE"
    /\ why' = "none" /\ failure' \in {failure, "none"}
    /\ UNCHANGED <<merge, budgets, requeues, delta, built, work, landed, world>>

Deploy ==
    /\ At("DEPLOY")
    /\ \/ Finishes
       \/ /\ status' = "DEPLOYING"
          /\ UNCHANGED <<stage, merge, budgets, requeues, record, work, landed, world>>
       \/ Aborts("deploy") /\ UNCHANGED <<built, work>>

\* After the restart: the running commit contains the deployed one.  Until it
\* does the job is looked at again and again.
DeployVerified ==
    /\ status = "DEPLOYING"
    /\ Finishes

-----------------------------------------------------------------------------
(* Time-outs, errors, crashes, the base branch *)

Smaller(a, b) == IF a < b THEN a ELSE b

\* Agent and test time-outs.  Up to PLAN the worktree is dropped; later it is
\* reset to its last commit, which aborts a merge in progress.  (Here and in
\* PhantomRetries the code counts on past the cap, which no comparison tells.)
TimesOut ==
    /\ status = "PENDING"
    /\ stage \in {"QUEUED", "PLAN"} \/ (/\ tree # "none"
                                        /\ stage \in {"BUILD", "TEST", "REVIEW", "SECURITY",
                                                      "FIX", "MERGE_VERIFY"})
    /\ timeouts' = Smaller(timeouts + 1, MaxTimeouts)
    /\ \/ timeouts + 1 < MaxTimeouts /\ Moves(stage) /\ why' = "none"
       \/ timeouts + 1 >= MaxTimeouts /\ Fails("final")
    /\ tree' = IF stage \in {"QUEUED", "PLAN"} THEN "none" ELSE "clean"
    /\ current' = (current /\ tree # "markers")
    /\ built' = (built \/ stage = "PLAN")
    /\ UNCHANGED <<merge, attempts, rebases, requeues, failure, delta, tested, verdicts, code,
                   landed, world>>

\* An absorbed base that nobody has validated yet.
HalfMerged == phase = "absorb" /\ absorbed > 0

\* The commit of a lint repair or a fix whose handler does not get to its save.
Committed ==
    /\ status = "PENDING" /\ tree # "none"
    /\ \/ stage = "LINT" /\ Authored /\ Unjudged /\ UNCHANGED <<current, code>>
       \/ stage = "FIX" /\ FixWork

\* Any exception is a transient failure of the stage; an agent that wrote outside
\* its worktree is a final one.
Errs ==
    /\ status = "PENDING"
    /\ HalfMerged => DiesMidMerge
    /\ \E w \in {"transient"} \union (IF stage \in {"PLAN", "FIX"} THEN {"final"} ELSE {}) :
           Fails(w)
    /\ \/ UNCHANGED <<built, work>>
       \/ Committed /\ UNCHANGED built
       \/ stage = "PLAN" /\ (\E t \in {"none", "clean"} : Fresh(t)) /\ UNCHANGED code
    /\ phase' = "idle" /\ absorbed' = 0
    /\ UNCHANGED <<budgets, requeues, failure, delta, landed, world>>

\* The event or the notification after save_deploying raises.
DeployErrs ==
    /\ status = "DEPLOYING"
    /\ Aborts("transient")
    /\ UNCHANGED <<built, work>>

\* The worker dies in the merge, or between a commit and its save.  The lease runs
\* out and the handler starts again.
Dies ==
    /\ crashes < MaxCrashes
    /\ crashes' = crashes + 1
    /\ \/ /\ phase # "idle"
          /\ HalfMerged => DiesMidMerge
          /\ phase' = "idle" /\ absorbed' = 0
          /\ UNCHANGED work
       \/ Committed /\ UNCHANGED merge
    /\ UNCHANGED <<stage, status, budgets, requeues, record, landed, advances, asked>>

BaseAdvances ==
    /\ advances < MaxAdvances
    /\ advances' = advances + 1
    /\ current' = FALSE
    /\ UNCHANGED <<stage, status, merge, budgets, requeues, record, tree, tested, verdicts,
                   code, landed, crashes, asked>>

-----------------------------------------------------------------------------
(* The janitor's scan of failed jobs, and the operator *)

RequeueAt(s) ==
    /\ status = "FAILED"
    /\ stage' = s
    /\ status' = "PENDING"
    /\ UNCHANGED <<merge, delta, built, landed, advances, crashes>>

\* At the stage that failed; a job without its worktree at BUILD.
RequeueTransient ==
    /\ why \in {"transient", "missing"}
    /\ requeues < MaxRequeues
    /\ requeues' = requeues + 1
    /\ RequeueAt(IF why = "missing" THEN "BUILD" ELSE stage)
    /\ why' = "none"
    /\ UNCHANGED <<budgets, failure, work, asked>>

\* From scratch: worktree and branch are removed, the budgets are renewed.
RequeueStale ==
    /\ why = "stale"
    /\ requeues < MaxRequeues
    /\ requeues' = requeues + 1
    /\ RequeueAt("QUEUED")
    /\ why' = "none" /\ failure' = "none"
    /\ attempts' = 0 /\ rebases' = 0 /\ timeouts' = 0
    /\ tree' = "none"
    /\ UNCHANGED <<current, tested, verdicts, code, asked>>

\* Mutant: nothing on the row tells the second build from the first.
RequeueNoDiffUnmarked ==
    /\ why = "nodiff"
    /\ RequeueAt("PLAN")
    /\ why' = "none"
    /\ UNCHANGED <<budgets, requeues, failure, work, asked>>

\* A second build, told why the first was turned down.
RequeueNoDiff ==
    /\ why = "nodiff"
    /\ RequeueAt("PLAN")
    /\ UNCHANGED <<budgets, requeues, failure, why, work, asked>>

GateStage == [lint |-> "LINT", collision |-> "BUILD", delta |-> "MERGE_VERIFY"]

\* A gate the fixer found nothing to fix for: past the gate when the finding is
\* not the job's own, else behind a job that repairs the gate (and uncounted).
RequeueGate ==
    /\ why = "nochange" /\ tree # "none"
    /\ requeues < GateRecoveries
    /\ requeues' \in {requeues, requeues + 1}
    /\ RequeueAt(GateStage[failure])
    /\ why' = "none" /\ failure' = "none"
    /\ UNCHANGED <<budgets, work, asked>>

\* A deploy that failed for a pull request that is merged.
Reconcile ==
    /\ status = "FAILED" /\ why = "deploy"
    /\ landed \in Landings
    /\ Finishes

\* requeue_job of the console, the MCP server or the incident analyst.
OperatorRequeue ==
    /\ asked < MaxAsked
    /\ asked' = asked + 1
    /\ \E s \in RequeueStages : RequeueAt(s)
    /\ why' = "none" /\ failure' = "none"
    /\ UNCHANGED <<budgets, requeues, work>>

-----------------------------------------------------------------------------
Merge ==
    \/ MergeBegins \/ Absorb \/ AbsorbConflicts \/ AbsorbWithoutTree \/ MergeReady
    \/ ValidationOverlaps \/ ValidationFails \/ Squash \/ LandingFails
    \/ PhantomLands \/ PhantomFails \/ PhantomRetries \/ LandingConflicts \/ MergeEnds

Advance ==
    \/ Plan \/ PlanSplits \/ PlanFails \/ Build \/ BuildNothing \/ BuildFails
    \/ LintPasses \/ LintFails \/ LintWithoutTree
    \/ TestPasses \/ TestFails \/ TestWithoutTree
    \/ Review \/ Security \/ DesignReview \/ MergeVerifyPasses \/ MergeVerifyFails
    \/ FixCommits \/ FixPushFails \/ FixNothing \/ FixWithoutTree
    \/ Merge \/ Deploy \/ DeployVerified

Disturb == TimesOut \/ Errs \/ DeployErrs \/ Dies \/ BaseAdvances

Janitor ==
    \/ RequeueTransient \/ RequeueStale \/ RequeueNoDiff \/ RequeueGate \/ Reconcile

Next == Advance \/ Disturb \/ Janitor \/ OperatorRequeue

\* A job that is not settled is advanced: workers poll, and JobQueue shows that no
\* claim is lost for good.  Errors, crashes and the janitor are not relied on.
Spec == Init /\ [][Next]_vars /\ WF_vars(Advance)

-----------------------------------------------------------------------------
Kinds == {"none", "conflict", "lint", "collision", "delta", "other"}
Classes == {"none", "missing", "transient", "stale", "nochange", "nodiff", "deploy",
            "final"}

RequeueCap == IF MaxRequeues < GateRecoveries THEN GateRecoveries ELSE MaxRequeues

RowType ==
    /\ stage \in Stages
    /\ status \in {"PENDING", "DEPLOYING", "DONE", "FAILED", "CANCELLED"}
    /\ phase \in {"idle", "absorb", "land", "landed"}
    /\ failure \in Kinds /\ why \in Classes
    /\ delta \in BOOLEAN /\ built \in BOOLEAN
    /\ landed \in Landings \union {"no", "satisfied"}

CountType ==
    /\ absorbed \in 0..Steps
    /\ attempts \in 0..MaxFix /\ rebases \in 0..MaxRebase /\ timeouts \in 0..MaxTimeouts
    /\ requeues \in 0..RequeueCap
    /\ advances \in 0..MaxAdvances /\ crashes \in 0..MaxCrashes /\ asked \in 0..MaxAsked

WorkType ==
    /\ tree \in {"none", "clean", "markers"}
    /\ current \in BOOLEAN /\ tested \in BOOLEAN /\ code \in BOOLEAN
    /\ passed \subseteq Gates /\ overtaken \subseteq Gates

\* Types, and what holds of the counters: no budget is ever overdrawn
\* (_retry_or_fail, _rebase_conflict, _timed_out, the caps of the janitor).
TypeOK == RowType /\ CountType /\ WorkType

-----------------------------------------------------------------------------
(* What must hold. *)

\* What reaches the base branch has passed every gate since somebody last wrote to
\* it: no fix, lint repair or conflict resolved by the fixer slips past review,
\* security or design review, on whatever way it came (the stage graph,
\* merge_verify.run, the requeue paths).  A gate may have spoken before the program
\* joined a conflict by putting both sides behind each other (conflict_autoresolve):
\* that text no gate has seen.
GatedLanding ==
    [][phase' = "landed" /\ phase # "landed" => passed' \union overtaken' = Gates]_vars

\* Stronger, and not so: every gate has spoken on the text that lands, joins included.
JudgedLanding ==
    [][phase' = "landed" /\ phase # "landed" => passed' = Gates]_vars

\* Unless the base moved under the squash merge itself, what lands is a tree the
\* tests have passed on, base advances included (merge.run, post-merge validation).
LandedTested == landed # "unvalidated"

\* A job ends DONE only if its pull request landed or a verifier found nothing left
\* to do (merge.run, deploy.run, remediate_merged_but_stuck).
DoneMeansLanded == status = "DONE" => landed \in Landings \union {"satisfied"}

\* Operators have not sent the job past its build, or never do.
Untouched == asked = 0 \/ RequeueStages \subseteq {"QUEUED", "PLAN"}

\* Conflict markers are in front of the fixer or of a rebuild, never of a gate or
\* of the merge, until an operator puts them there (_rebase_conflict, the
\* clean-up after a time-out).
MarkersContained ==
    Untouched /\ status = "PENDING" /\ tree = "markers" =>
        stage \in {"FIX", "QUEUED", "PLAN"}

\* Nobody works on the job any more, now and for good.
Settles == <>[](status \in {"DONE", "FAILED", "CANCELLED"})

-----------------------------------------------------------------------------
(* The stage graph: where the handler of each stage may leave the job. *)

StageGraph ==
    [QUEUED |-> {"PLAN"}, PLAN |-> {"LINT", "DONE"}, LINT |-> {"BUILD", "FIX"},
     BUILD |-> {"TEST", "FIX"}, TEST |-> {"REVIEW", "FIX"}, REVIEW |-> {"SECURITY", "FIX"},
     SECURITY |-> {"DESIGN_REVIEW", "FIX"}, FIX |-> {"LINT", "MERGE_VERIFY"},
     MERGE_VERIFY |-> {"SECURITY", "FIX"},
     DESIGN_REVIEW |-> {"MERGE_VERIFY", "FIX", "SECURITY", "DEPLOY"},
     DEPLOY |-> {"DONE"}, DONE |-> {}]

\* The handlers, time-outs, errors, requeues and reconciliations of this module
\* move the row as JobTable allows, with this graph for Target.
Table == INSTANCE JobTable WITH
    Job <- {"job"}, Stage <- Stages, FirstStage <- "QUEUED", DoneStage <- "DONE",
    Target <- StageGraph, DeployStage <- {"DEPLOY"}, BlockStage <- {},
    RequeueStage <- Stages \ {"DONE"},
    stage <- [j \in {"job"} |-> stage], status <- [j \in {"job"} |-> status]

ImplementsTable == Table!Spec

-----------------------------------------------------------------------------
(* Self-healing is bounded: every step of workers, janitor and environment      *)
(* lowers this measure, compared from the left.  A renewal of the budgets costs *)
(* a requeue, a step back in the stage graph costs a budget or absorbs a base   *)
(* advance, and every other step goes down the graph.                           *)

Requeuable == RequeueCap - requeues
Fuel == (MaxFix - attempts) + (MaxRebase - rebases) + (MaxTimeouts - timeouts)
Quiet == (MaxCrashes - crashes) + (MaxAdvances - advances)
Distance == (IF current THEN 0 ELSE 1) + (IF tree = "markers" THEN 1 ELSE 0)

StageRank ==
    [QUEUED |-> 20, PLAN |-> 19, FIX |-> 16, LINT |-> 14, BUILD |-> 13, TEST |-> 12,
     REVIEW |-> 11, MERGE_VERIFY |-> 10, SECURITY |-> 9, DEPLOY |-> 4, DONE |-> 0]
PhaseRank == [idle |-> 8, absorb |-> 7, land |-> 6, landed |-> 5]

Rank ==
    CASE status = "PENDING" ->
             IF stage = "DESIGN_REVIEW" THEN PhaseRank[phase]
             ELSE IF stage = "PLAN" /\ why = "nodiff" THEN 17
             ELSE StageRank[stage]
      [] status = "DEPLOYING" -> 3
      [] status = "FAILED" ->
             CASE why = "nodiff" -> 18
               [] why = "nochange" -> 15
               [] why = "deploy" -> 2
               [] OTHER -> 1
      [] OTHER -> 0

Lower ==
    \/ Requeuable' < Requeuable
    \/ Requeuable' = Requeuable /\ Fuel' < Fuel
    \/ Requeuable' = Requeuable /\ Fuel' = Fuel /\ Quiet' < Quiet
    \/ /\ Requeuable' = Requeuable /\ Fuel' = Fuel /\ Quiet' = Quiet
       /\ \/ Distance' < Distance
          \/ Distance' = Distance /\ Rank' < Rank

\* Left alone, a job cannot be sent round for ever: fixes, rebases, time-outs,
\* requeues, recoveries from a wrong gate and second builds all run out together
\* (_retry_or_fail, _rebase_conflict, _timed_out, the remediations).
Progress == [][OperatorRequeue \/ Lower]_vars

=============================================================================
