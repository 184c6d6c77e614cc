----------------------------- MODULE Artifacts -----------------------------
(***************************************************************************)
(* The git artifacts of jobs: the branch hyqs/job-N in the pipeline's own  *)
(* clone and the worktree job-N on it.  A build makes them, the gates read *)
(* them, a landing drops them; a failed job (an incident) leaves them as   *)
(* the candidate that its remediations start from.  Garbage collection     *)
(* sweeps what no job needs any more, one git command at a time, from the  *)
(* job ids it read when it began.                                          *)
(*                                                                         *)
(* Job ids are numbers; Fix holds those that remediations get.  A branch   *)
(* is None or the number of the commit it carries: 0 is the base, n is the *)
(* n-th commit of the job's builds.  What a process does with the actions  *)
(* below, and when, is module Fleet's.                                     *)
(***************************************************************************)
EXTENDS Integers, FiniteSets

CONSTANTS
    Proc,       \* worker processes
    Incident,   \* ids of the jobs that fail first
    Fix,        \* ids of the remediations that may be filed
    None,
    Clone,      \* the bare clone, as the place a sweep runs git in
    MaxBuilds,  \* bound: commits of one job's builds
    Trouble,    \* bound: failures, operators' interventions, signals
    Races       \* the schedules to explore: see Revivable here, Unscanned in Fleet

Job == Incident \union Fix

ASSUME ArtifactAssumption ==
    /\ Incident \subseteq Nat \ {0} /\ Fix \subseteq Nat \ {0}
    /\ Incident \intersect Fix = {}
    /\ None \notin Nat /\ Clone \notin Nat \union {None}
    /\ MaxBuilds \in Nat /\ Trouble \in Nat

VARIABLES
    status,     \* jobs.status; "NONE" for a remediation that is not filed
    built,      \* past the BUILD stage
    why,        \* how a FAILED job failed: "build", "gate" or "source"
    blockedOn,  \* failure_detail.dependency_id of a job failed as blocked
    closed,     \* resolved or archived
    waits,      \* job_dependencies: the remediations a job waits for
    active,     \* active_remediation_for of an incident
    branch,     \* the local branch of the job
    tree,       \* its worktree: "none", "here", or "stale": a registration
                \* whose directory is gone
    builds,     \* commits so far
    source,     \* source_meta of a remediation: ai_fix_for (job), and the
                \* remediation_source of one that waits for no other of its wave
    slot,       \* what the process's worker slot runs
    sweep,      \* the process's garbage collection
    trouble     \* interventions left

jobrow == <<status, built, why, blockedOn, active>>
links  == <<closed, source, waits>>
rows   == <<jobrow, links>>
git    == <<branch, tree, builds>>
avars  == <<rows, git, slot, sweep, trouble>>

Live       == {"PENDING", "RUNNING"}
Idle       == [job |-> None, at |-> "idle"]
NoSweep    == [at |-> "no", todo |-> {}, ctx |-> None]
NoSource   == [job |-> None, sha |-> None, captured |-> FALSE]
Steps      == {"idle", "clear", "create", "seed", "work", "gate", "hung"}
Lowest(S)  == CHOOSE n \in S : \A o \in S : n <= o

RowTypes ==
    /\ status \in [Job -> {"NONE", "PENDING", "RUNNING", "FAILED", "DONE", "CANCELLED"}]
    /\ built \in [Job -> BOOLEAN]
    /\ why \in [Job -> {"none", "build", "gate", "source"}]
    /\ blockedOn \in [Job -> Fix \union {None}]
    /\ active \in [Incident -> Fix \union {None}]

LinkTypes ==
    /\ closed \in [Job -> BOOLEAN]
    /\ source \in [Fix -> [job : Incident \union {None}, sha : {None} \union 0..MaxBuilds,
                           captured : BOOLEAN]]
    /\ waits \in [Job -> SUBSET Fix]

GitTypes ==
    /\ branch \in [Job -> {None} \union 0..MaxBuilds]
    /\ tree \in [Job -> {"none", "here", "stale"}]
    /\ builds \in [Job -> 0..MaxBuilds]

SlotTypes ==
    slot \in [Proc -> [job : Job \union {None}, at : Steps]]

SweepTypes ==
    sweep \in [Proc -> [at : {"no", "branch", "tree"}, todo : SUBSET Job,
                        ctx : Job \union {None, Clone}]]

ArtifactTypeOK ==
    RowTypes /\ LinkTypes /\ GitTypes /\ SlotTypes /\ SweepTypes /\ trouble \in 0..Trouble

ArtifactInit ==
    /\ status = [j \in Job |-> IF j \in Fix THEN "NONE" ELSE "PENDING"]
    /\ built = [j \in Job |-> FALSE]
    /\ why = [j \in Job |-> "none"]
    /\ blockedOn = [j \in Job |-> None]
    /\ closed = [j \in Job |-> FALSE]
    /\ waits = [j \in Job |-> {}]
    /\ active = [i \in Incident |-> None]
    /\ branch = [j \in Job |-> None]
    /\ tree = [j \in Job |-> "none"]
    /\ builds = [j \in Job |-> 0]
    /\ source = [f \in Fix |-> NoSource]
    /\ slot = [p \in Proc |-> Idle]
    /\ sweep = [p \in Proc |-> NoSweep]
    /\ trouble = Trouble

Hit == trouble > 0 /\ trouble' = trouble - 1

\* The row of job j after a write of status st; an ended remediation is nobody's
\* active one any more.
Writes(j, st, b, w, d) ==
    /\ status' = [status EXCEPT ![j] = st]
    /\ built' = [built EXCEPT ![j] = b]
    /\ why' = [why EXCEPT ![j] = w]
    /\ blockedOn' = [blockedOn EXCEPT ![j] = d]
    /\ active' = [i \in Incident |-> IF active[i] = j /\ st \notin Live THEN None ELSE active[i]]

Saves(j, st, b, w) == Writes(j, st, b, w, None)

\* A running collection lists the job, or the incident that the job is to repair.
Listed(j) ==
    \E p \in Proc : \/ j \in sweep[p].todo
                    \/ j \in Fix /\ source[j].job \in sweep[p].todo

\* A collection does not look at the job table again: a job that it lists and
\* that is brought back meanwhile loses what it needs.  Without this schedule
\* nobody brings such a job back before the collection is through.
Revivable(j) == "revive_in_sweep" \in Races \/ ~Listed(j)

Running(p) == status[slot[p].job] = "RUNNING"
At(p, step) == slot' = [slot EXCEPT ![p].at = step]
Frees(p) == slot' = [slot EXCEPT ![p] = Idle]

\* A final save is void on a row that has been cancelled meanwhile.
Ends(p, st, b, w) ==
    /\ IF Running(p) THEN Saves(slot[p].job, st, b, w) ELSE UNCHANGED jobrow
    /\ Frees(p)

-----------------------------------------------------------------------------
(* A slot: build, gates, landing *)

Claims(p, j) ==
    /\ slot[p] = Idle
    /\ status[j] = "PENDING"
    /\ \A f \in waits[j] : status[f] = "DONE"
    /\ status' = [status EXCEPT ![j] = "RUNNING"]
    /\ slot' = [slot EXCEPT ![p] = [job |-> j, at |-> IF built[j] THEN "gate" ELSE "clear"]]
    /\ UNCHANGED <<built, why, blockedOn, active, links, git, sweep, trouble>>

\* The build drops the worktree that an earlier attempt left.
Clears(p) ==
    /\ slot[p].at = "clear"
    /\ tree' = [tree EXCEPT ![slot[p].job] = IF @ = "here" THEN "none" ELSE @]
    /\ At(p, "create")
    /\ UNCHANGED <<rows, branch, builds, sweep, trouble>>

\* Stale registrations are pruned, a leftover branch is deleted, and the branch
\* is made again at the base with a worktree on it, unless git fails.
Creates(p) ==
    LET j      == slot[p].job
        pruned == [k \in Job |-> IF tree[k] = "stale" THEN "none" ELSE tree[k]] IN
    /\ slot[p].at = "create"
    /\ \/ /\ tree' = [pruned EXCEPT ![j] = "here"]
          /\ branch' = [branch EXCEPT ![j] = 0]
          /\ At(p, IF j \in Fix /\ source[j].sha # None THEN "seed" ELSE "work")
          /\ UNCHANGED <<jobrow, trouble>>
       \/ /\ Hit
          /\ tree' = pruned
          /\ branch' = [branch EXCEPT ![j] = None]
          /\ Ends(p, "FAILED", FALSE, "build")
    /\ UNCHANGED <<links, builds, sweep>>

\* The recorded commit still is on the recorded branch.
Seedable(f) == branch[source[f].job] = source[f].sha

\* mark_remediation_source_captured
Captures(f) == source' = [source EXCEPT ![f].captured = TRUE]

\* A remediation takes the incident's candidate over, at every build of it, and
\* records that it did; when the candidate is gone it fails.
Seeds(p) ==
    LET f == slot[p].job IN
    /\ slot[p].at = "seed"
    /\ IF Seedable(f)
       THEN /\ Captures(f)
            /\ At(p, "work")
            /\ UNCHANGED jobrow
       ELSE /\ Ends(p, "FAILED", FALSE, "source")
            /\ UNCHANGED source
    /\ UNCHANGED <<closed, waits, git, sweep, trouble>>

\* The builder's commit, in a worktree that is verified before it, and its push.
Works(p) ==
    LET j == slot[p].job IN
    /\ slot[p].at = "work"
    /\ \/ /\ tree[j] # "here"
          /\ Ends(p, "FAILED", FALSE, "build")
          /\ UNCHANGED <<branch, builds, trouble>>
       \/ /\ tree[j] = "here" /\ builds[j] < MaxBuilds
          /\ builds' = [builds EXCEPT ![j] = @ + 1]
          /\ branch' = [branch EXCEPT ![j] = builds[j] + 1]
          /\ \/ Ends(p, "PENDING", TRUE, "none") /\ UNCHANGED trouble
             \/ Ends(p, "FAILED", FALSE, "build") /\ Hit
    /\ UNCHANGED <<links, tree, sweep>>

\* The gates read the worktree: they reject the candidate, or it lands and its
\* artifacts go.
GateFails(p) ==
    /\ slot[p].at = "gate"
    /\ Ends(p, "FAILED", TRUE, "gate")
    /\ Hit
    /\ UNCHANGED <<links, git, sweep>>

\* Landing closes the incident that ended, once all that was filed for it landed.
Lands(p) ==
    LET j == slot[p].job
        i == source[j].job IN
    /\ slot[p].at = "gate"
    /\ tree[j] = "here"
    /\ Ends(p, "DONE", TRUE, "none")
    /\ tree' = [tree EXCEPT ![j] = "none"]
    /\ branch' = [branch EXCEPT ![j] = None]
    /\ closed' = IF /\ j \in Fix /\ Running(p)
                    /\ status[i] \in {"FAILED", "CANCELLED"}
                    /\ \A f \in Fix \ {j} : source[f].job = i => status[f] = "DONE"
                 THEN [closed EXCEPT ![i] = TRUE] ELSE closed
    /\ UNCHANGED <<source, waits, builds, sweep, trouble>>

\* The lease of a job that no slot runs any more ends: it is claimable again.
Expires(j) ==
    /\ status[j] = "RUNNING"
    /\ \A p \in Proc : slot[p].job # j
    /\ status' = [status EXCEPT ![j] = "PENDING"]
    /\ UNCHANGED <<built, why, blockedOn, active, links, git, slot, sweep, trouble>>

-----------------------------------------------------------------------------
(* Operators *)

Cancel(j) ==
    /\ status[j] \in Live
    /\ Hit
    /\ Saves(j, "CANCELLED", built[j], "none")
    /\ UNCHANGED <<links, git, slot, sweep>>

\* Once the job's handler has returned.  Teardown works on the operator's own
\* checkout, not on the clone: branch and worktree stay for the next build.
Retry(j) ==
    /\ status[j] \in {"FAILED", "CANCELLED"}
    /\ ~closed[j]
    /\ ~\E p \in Proc : slot[p].job = j
    /\ Revivable(j)
    /\ Hit
    /\ Saves(j, "PENDING", FALSE, "none")
    /\ UNCHANGED <<links, git, slot, sweep>>

\* A retired job's worktree and branch go at once.
Archive(j) ==
    /\ status[j] \in {"DONE", "FAILED", "CANCELLED"}
    /\ ~closed[j]
    /\ Hit
    /\ closed' = [closed EXCEPT ![j] = TRUE]
    /\ tree' = [tree EXCEPT ![j] = IF @ = "here" THEN "none" ELSE @]
    /\ branch' = [branch EXCEPT ![j] = IF tree[j] = "stale" THEN @ ELSE None]
    /\ UNCHANGED <<jobrow, source, waits, builds, slot, sweep>>

-----------------------------------------------------------------------------
(* The janitor's remedies *)

\* A build that broke off starts over from nothing.  None of the three steps
\* looks at the job again but the last, which is void on a row that is FAILED no
\* more.  Git does not delete a branch with a worktree registered on it.
DropsTree(j) ==
    /\ tree' = [tree EXCEPT ![j] = IF @ = "here" THEN "none" ELSE @]
    /\ UNCHANGED <<rows, branch, builds, slot, sweep, trouble>>

DropsBranch(j) ==
    /\ branch' = [branch EXCEPT ![j] = IF tree[j] = "none" THEN None ELSE @]
    /\ UNCHANGED <<rows, tree, builds, slot, sweep, trouble>>

Requeues(j) ==
    /\ IF status[j] = "FAILED"
       THEN Revivable(j) /\ Saves(j, "PENDING", FALSE, "none")
       ELSE UNCHANGED jobrow
    /\ UNCHANGED <<links, git, slot, sweep, trouble>>

\* What j and the remediations it waits for wait for.
Needs(j) ==
    {g \in Fix : \A S \in SUBSET Fix :
        waits[j] \subseteq S /\ (\A h \in S : waits[h] \subseteq S) => g \in S}

\* The last remediation filed for i still runs before it, as far as anyone knows.
InFlight(i) ==
    /\ active[i] # None
    /\ \A g \in Needs(active[i]) : status[g] \notin {"FAILED", "CANCELLED"}

\* What each remediation of a wave waits for: some of those created before it.
Orders(W) == {deps \in [W -> SUBSET W] : \A f \in W : \A g \in deps[f] : g < f}

\* A wave of remediations for incident i, whatever its row says by now.  Those
\* that wait for no other one get the candidate, read off the worktree; the
\* incident waits for the last, and is requeued behind it.
Files(i, W, deps, last) ==
    /\ tree[i] = "here"
    /\ ~InFlight(i)
    /\ Revivable(i)
    /\ \A f \in W : status[f] = "NONE"
    /\ last \in W /\ \A f \in W : f <= last
    /\ status' = [j \in Job |-> IF j \in W THEN "PENDING" ELSE status[j]]
    /\ source' = [f \in Fix |-> IF f \notin W THEN source[f]
                    ELSE [job |-> i, sha |-> IF deps[f] = {} THEN branch[i] ELSE None,
                          captured |-> FALSE]]
    /\ waits' = [j \in Job |-> IF j \in W THEN deps[j]
                    ELSE IF j = i THEN waits[i] \union {last} ELSE waits[j]]
    /\ active' = [active EXCEPT ![i] = last]
    /\ UNCHANGED <<built, why, blockedOn, closed, git, slot, sweep, trouble>>

\* What waits for a job that failed for good fails with it, and starts over when
\* that job is done after all.
Blocks(j, f) ==
    /\ status[j] = "PENDING" /\ f \in waits[j]
    /\ status[f] = "FAILED" /\ ~closed[f]
    /\ Writes(j, "FAILED", built[j], "none", f)
    /\ UNCHANGED <<links, git, slot, sweep, trouble>>

Unblocks(j) ==
    /\ status[j] = "FAILED" /\ ~closed[j]
    /\ blockedOn[j] # None
    /\ status[blockedOn[j]] = "DONE"
    /\ Revivable(j)
    /\ Saves(j, "PENDING", FALSE, "none")
    /\ UNCHANGED <<links, git, slot, sweep, trouble>>

-----------------------------------------------------------------------------
(* Garbage collection *)

\* Mutant: only what runs is active.
ActiveRunning == {j \in Job : status[j] = "RUNNING"}

Active == {j \in Job : status[j] \in Live}

LiveFixes(i) == {f \in Fix : source[f].job = i /\ status[f] \in Live}

\* Mutant: the first remediation of a wave to take the candidate over releases it.
ProtectedUntilFirst ==
    {i \in Job : /\ status[i] = "FAILED" /\ ~closed[i]
                 /\ ~\E f \in LiveFixes(i) : source[f].captured}

\* The incidents whose candidate is still needed: no live remediation has taken
\* it over, or another one has yet to.
Protected ==
    {i \in Job : /\ status[i] = "FAILED" /\ ~closed[i]
                 /\ \/ ~\E f \in LiveFixes(i) : source[f].captured
                    \/ \E f \in LiveFixes(i) : source[f].sha # None /\ ~source[f].captured}

OnDisk == {j \in Job : tree[j] = "here"}

\* A sweep at startup runs git in the clone, the janitor's in the worktree of a
\* job it keeps when there is one.
Place(ids, ctx) ==
    IF ctx = Clone THEN Clone
    ELSE IF ids \intersect OnDisk = {} THEN None
    ELSE Lowest(ids \intersect OnDisk)

Usable(ctx) == ctx = Clone \/ (ctx \in Job /\ ctx \in OnDisk)

\* The candidates: the worktrees on disk, and the branches where git can run.
Orphans(ids, ctx) ==
    (OnDisk \union {j \in Job : branch[j] # None /\ (ctx # None \/ OnDisk # {})}) \ ids

\* The sweep keeps what is active or protected now, and lists the rest.  Job
\* ids, directories and branches are read in turn, in less time than a job takes
\* from its filing to its build: one step.
SweepBegins(p, at) ==
    LET ids  == Active \union Protected
        ctx  == Place(ids, at)
        todo == Orphans(ids, ctx) IN
    sweep' = [sweep EXCEPT ![p] =
                IF todo = {} THEN NoSweep ELSE [at |-> "branch", todo |-> todo, ctx |-> ctx]]

\* Branch first: git deletes it unless a worktree is registered on it.
SweepsBranch(p) ==
    LET j == Lowest(sweep[p].todo) IN
    /\ sweep[p].at = "branch"
    /\ branch' = [branch EXCEPT ![j] =
                    IF Usable(sweep[p].ctx) /\ tree[j] = "none" THEN None ELSE @]
    /\ sweep' = [sweep EXCEPT ![p].at = "tree"]
    /\ UNCHANGED <<rows, tree, builds, slot, trouble>>

\* Then the worktree; where no git can run beside it, its directory only.
SweepsTree(p) ==
    LET j    == Lowest(sweep[p].todo)
        rest == sweep[p].todo \ {j} IN
    /\ sweep[p].at = "tree"
    /\ tree' = [tree EXCEPT ![j] =
                  IF @ # "here" THEN @ ELSE IF Usable(sweep[p].ctx) THEN "none" ELSE "stale"]
    /\ sweep' = [sweep EXCEPT ![p] = IF rest = {} THEN NoSweep
                   ELSE [@ EXCEPT !.at = "branch", !.todo = rest]]
    /\ UNCHANGED <<rows, branch, builds, slot, trouble>>

=============================================================================
