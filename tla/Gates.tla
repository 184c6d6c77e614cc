-------------------------------- MODULE Gates --------------------------------
(***************************************************************************)
(* What keeps jobs that are built at the same time out of each other's     *)
(* way: the scope that PLAN validates and freezes, the claims that it      *)
(* serialises, and the two deterministic gates of TEST, for symbols        *)
(* defined twice and for migration chains with two heads.                  *)
(*                                                                         *)
(* A tree is what the gates see of a checkout: which module defines which  *)
(* symbol, and which revision names which others as its down_revision.     *)
(* The gates judge the tree of a worktree, at TEST; what lands is that     *)
(* tree, after MERGE has absorbed what the base has become meanwhile.      *)
(*                                                                         *)
(* A worker that loses its job to another one is dead here; what one that  *)
(* goes on does to the rows is the subject of JobQueue.  The lock that     *)
(* serialises merges, and who may hold it, is the subject of Landing.      *)
(***************************************************************************)
EXTENDS Integers, FiniteSets

CONSTANTS
    GJobs,          \* jobs of one project
    Modules,        \* files that define symbols
    Symbols,
    Member,         \* workspace member of a module (_workspace_root)
    Conventional,   \* definitions that repeat by convention (_is_conventional)
    Frontend,       \* modules that are frontend paths
    Versions,       \* the path of the migrations
    Root,           \* the revision that exists at the beginning
    Defs0,          \* definitions at the beginning
    Answers,        \* what a planner may answer
    Labelled,       \* files that the idea of a job labels as those to change
    ReadOnly,       \* files that it says not to change, or names for reference only
    Companion,      \* which file goes with which: its test, the migrations of a model
    Scope0,         \* allowed_paths that a job is created with
    MaxFiles,       \* _MAX_PLAN_TARGET_FILES
    FixCap,         \* max_fix_attempts
    MaxTroubles,    \* model bound: crashes, retries, failed lookups, failing agents and tests
    None

Paths == Modules \union {Versions}
Defs  == Modules \X Symbols
Ids   == GJobs \union {Root}
Revs  == [id : Ids, down : SUBSET Ids]
Tree  == [defs : SUBSET Defs, revs : SUBSET Revs]

\* A plan: the files of its stories and of its file_impact, its target_files, the files
\* it marks as new, whether it changes what users see, and whether it can be split.
Plans == [stories : SUBSET Paths, impact : SUBSET Paths, listed : SUBSET Paths,
          fresh : SUBSET Paths, ui : {"surface", "internal"}, chains : BOOLEAN]

ASSUME GatesAssumption ==
    /\ IsFiniteSet(GJobs) /\ Root \notin GJobs /\ Versions \notin Modules
    /\ Frontend \subseteq Modules /\ Conventional \subseteq Defs /\ Defs0 \subseteq Defs
    /\ Answers \subseteq Plans /\ None \notin Plans
    /\ Labelled \in [GJobs -> SUBSET Paths] /\ ReadOnly \in [GJobs -> SUBSET Paths]
    /\ Companion \subseteq Paths \X Paths /\ Scope0 \in [GJobs -> SUBSET Paths]
    /\ MaxFiles \in Nat /\ FixCap \in Nat /\ MaxTroubles \in Nat

VARIABLES
    base,       \* tree of the default branch
    index,      \* symbol_index of the project
    stage, status,
    manifest,   \* source_meta.scope.allowed_paths
    plan,       \* target_files of the saved plan
    asked,      \* plan_reask_attempts
    parked,     \* needs_split
    bypass,     \* source_meta.scope_gate_bypass
    attempts,   \* fixes so far
    at,         \* where the handler of a running job is
    answer,     \* the plan that handler has accepted
    tracked,    \* the files it has seen
    fork,       \* tree that a branch has last taken from the base
    work,       \* tree of its worktree
    kept,       \* jobs whose worker may go on with them (claim_fastpath)
    loose,      \* ghost: jobs whose last gate does not speak of what they land
    troubles

trees    == <<base, fork, work, loose>>
scopes   == <<manifest, plan, asked, parked, bypass>>
place    == <<stage, status, at>>
planning == <<answer, tracked>>
gateVars == <<trees, index, scopes, place, planning, attempts, kept, troubles>>

Steps   == {"idle", "start", "ask", "park", "reconcile", "freeze", "save", "work"}
Stages  == {"queued", "planned", "built", "tested", "fixing", "conflict", "done"}
Agentic == {"queued", "planned", "fixing", "conflict"}

\* Rows, handlers and trees have their types; a handler runs exactly for the jobs that are
\* running, and an answer is kept from its acceptance to the save of the plan.
GatesTypeOK ==
    /\ base \in Tree /\ index \in SUBSET Defs
    /\ fork \in [GJobs -> Tree] /\ work \in [GJobs -> Tree]
    /\ stage \in [GJobs -> Stages]
    /\ status \in [GJobs -> {"pending", "running", "done", "failed", "cancelled"}]
    /\ at \in [GJobs -> Steps]
    /\ \A j \in GJobs : status[j] = "running" <=> at[j] # "idle"
    /\ manifest \in [GJobs -> SUBSET Paths]
    /\ plan \in [GJobs -> (SUBSET Paths) \union {None}]
    /\ asked \in [GJobs -> 0..1] /\ attempts \in [GJobs -> 0..FixCap]
    /\ parked \in [GJobs -> BOOLEAN] /\ bypass \in [GJobs -> BOOLEAN]
    /\ answer \in [GJobs -> Plans \union {None}]
    /\ \A j \in GJobs : at[j] \in {"park", "reconcile", "freeze", "save"} <=> answer[j] # None
    /\ tracked \in [GJobs -> SUBSET Paths]
    /\ kept \subseteq GJobs /\ loose \subseteq GJobs
    /\ troubles \in 0..MaxTroubles

Tree0 == [defs |-> Defs0, revs |-> {[id |-> Root, down |-> {}]}]

GatesInit ==
    /\ base = Tree0 /\ index = {}
    /\ fork = [j \in GJobs |-> Tree0] /\ work = [j \in GJobs |-> Tree0]
    /\ stage = [j \in GJobs |-> "queued"] /\ status = [j \in GJobs |-> "pending"]
    /\ at = [j \in GJobs |-> "idle"]
    /\ manifest = Scope0
    /\ plan = [j \in GJobs |-> None]
    /\ asked = [j \in GJobs |-> 0] /\ attempts = [j \in GJobs |-> 0]
    /\ parked = [j \in GJobs |-> FALSE] /\ bypass = [j \in GJobs |-> FALSE]
    /\ answer = [j \in GJobs |-> None] /\ tracked = [j \in GJobs |-> {}]
    /\ kept = {} /\ loose = {} /\ troubles = 0

-----------------------------------------------------------------------------
(* Trees *)

Where(defs, s) == {m \in Modules : <<m, s>> \in defs}

\* discover_alembic_heads: the revisions that no other names.
Heads(revs) == {r.id : r \in revs} \ UNION {r.down : r \in revs}

\* git diff between two trees, as paths.
Changed(f, t) ==
    {m \in Modules : \E s \in Symbols : (<<m, s>> \in f.defs) # (<<m, s>> \in t.defs)}
      \union {v \in {Versions} : f.revs # t.revs}

\* A clean merge: what either side has added or removed since f.
Taken(f, ours, theirs) == (ours \union (theirs \ f)) \ (f \ theirs)
Merged(f, ours, theirs) ==
    [defs |-> Taken(f.defs, ours.defs, theirs.defs), revs |-> Taken(f.revs, ours.revs, theirs.revs)]

\* tracked_files: the modules that exist, and the directory of migrations.
FilesOf(t) == {m \in Modules : \E s \in Symbols : <<m, s>> \in t.defs} \union {Versions}

-----------------------------------------------------------------------------
(* The gates *)

\* Definitions that must not repeat: not conventional, and of one workspace member.
Repeats(defs, s, m, n) ==
    /\ m # n /\ Member[m] = Member[n]
    /\ {<<m, s>>, <<n, s>>} \subseteq defs \ Conventional

\* check_symbol_collisions: a symbol that two modules define, one of them new to the index
\* and among the files of the diff.
SymbolCollisions(t, files) ==
    {s \in Symbols : \E m, n \in Modules :
        Repeats(t.defs, s, m, n) /\ <<m, s>> \notin index /\ m \in files}

\* Mutant: two heads are still fine.
HeadCollisionsOfThree(t, files) == Versions \in files /\ Cardinality(Heads(t.revs)) > 2

\* check_alembic_head_collisions
HeadCollisions(t, files) == Versions \in files /\ Cardinality(Heads(t.revs)) > 1

-----------------------------------------------------------------------------
(* The scope of a plan *)

\* The canonical manifest: what stories and file_impact name.
ManifestOf(a) == a.stories \union a.impact

\* parse_and_validate: what breaks the contract never leaves the planner's own loop.
Usable == {a \in Answers : a.listed = ManifestOf(a) /\ a.listed # {}}

\* The files that the idea wants changed: under a scope heading or a files label, and not
\* also named as context.
Fenced(j) == Labelled[j] \ ReadOnly[j]

\* build_planning_candidates, as far as they are mandatory: those files, where they exist,
\* and what goes with them.
Mandatory(j) ==
    LET wanted == Fenced(j) \intersect tracked[j]
    IN  wanted \union {f \in tracked[j] : \E g \in wanted : <<g, f>> \in Companion}

\* job_declared_scope_paths: the files of the stories and those that the idea labels.
Declared(j, a) == a.stories \union Labelled[j]

\* validate_plan_scope_completeness: target_files is not the union, the union is not what
\* each of stories and file_impact names, a file does not exist and is not marked as new, a
\* mandatory candidate is missing, a change of the surface names no frontend file.
Incomplete(j, a) ==
    \/ a.listed # ManifestOf(a) \/ a.stories # a.impact
    \/ ~(ManifestOf(a) \subseteq tracked[j] \union a.fresh)
    \/ \E f \in Mandatory(j) :
          f \notin ManifestOf(a) /\ ~(f \in Frontend /\ a.ui = "internal")
    \/ a.ui = "surface" /\ ManifestOf(a) \intersect Frontend = {}

\* The scope gate, which a migration and a forced retry pass.
Oversized(files) == Cardinality(files) > MaxFiles /\ Versions \notin files
TooBig(j, a)     == Oversized(ManifestOf(a)) /\ ~bypass[j]

\* Mutant: nobody but a job of the same stage is in the way.
CollidesAtStage(j) ==
    \E k \in GJobs \ {j} : /\ status[k] = "running" /\ stage[k] = stage[j]
                           /\ manifest[j] \intersect manifest[k] # {}

\* _manifest_conflicts_with_running
Collides(j) ==
    \E k \in GJobs \ {j} : status[k] = "running" /\ manifest[j] \intersect manifest[k] # {}

-----------------------------------------------------------------------------
(* Rows: claim, save, and the exits of a handler *)

Trouble == troubles < MaxTroubles /\ troubles' = troubles + 1

\* claim: any pending job whose manifest no running job shares.
Claims(j) ==
    /\ status[j] = "pending" /\ stage[j] # "done" /\ ~Collides(j)
    /\ status' = [status EXCEPT ![j] = "running"]
    /\ at' = [at EXCEPT ![j] = IF stage[j] \in {"queued", "planned"} THEN "start" ELSE "work"]
    /\ kept' = kept \ {j}
    /\ UNCHANGED <<trees, index, scopes, stage, planning, attempts, troubles>>

\* claim_fastpath: the worker that has just finished the stage before goes on with a
\* deterministic one, whatever is running.
ClaimsOn(j) ==
    /\ j \in kept /\ status[j] = "pending" /\ stage[j] \in {"built", "tested"}
    /\ status' = [status EXCEPT ![j] = "running"]
    /\ at' = [at EXCEPT ![j] = "work"]
    /\ kept' = kept \ {j}
    /\ UNCHANGED <<trees, index, scopes, stage, planning, attempts, troubles>>

\* The handler of j is over and has saved it at stage s.
Leaves(j, s, st) ==
    /\ stage' = [stage EXCEPT ![j] = s]
    /\ status' = [status EXCEPT ![j] = st]
    /\ at' = [at EXCEPT ![j] = "idle"]
    /\ kept' = IF st = "pending" THEN kept \union {j} ELSE kept \ {j}

\* A worker dies, and the lease of its job runs out.
Dies(j) ==
    /\ status[j] = "running" /\ Trouble
    /\ status' = [status EXCEPT ![j] = "pending"]
    /\ at' = [at EXCEPT ![j] = "idle"]
    /\ answer' = [answer EXCEPT ![j] = None]
    /\ kept' = kept \ {j}
    /\ UNCHANGED <<trees, index, scopes, stage, tracked, attempts>>

\* retry, forced or not: the scope stays, the plan and the counters go.
Retries(j, force) ==
    /\ status[j] \in {"failed", "cancelled"} /\ (parked[j] => force) /\ Trouble
    /\ stage' = [stage EXCEPT ![j] = "queued"] /\ status' = [status EXCEPT ![j] = "pending"]
    /\ plan' = [plan EXCEPT ![j] = None]
    /\ asked' = [asked EXCEPT ![j] = 0] /\ attempts' = [attempts EXCEPT ![j] = 0]
    /\ parked' = [parked EXCEPT ![j] = @ /\ ~force]
    /\ bypass' = [bypass EXCEPT ![j] = @ \/ force]
    /\ UNCHANGED <<trees, index, manifest, at, planning, kept>>

\* _retry_or_fail: to FIX, or given up.
ToFix(j) ==
    IF attempts[j] < FixCap
    THEN Leaves(j, "fixing", "pending") /\ attempts' = [attempts EXCEPT ![j] = @ + 1]
    ELSE Leaves(j, stage[j], "failed") /\ UNCHANGED attempts

-----------------------------------------------------------------------------
(* PLAN *)

\* The symbol index is refreshed from the base (a failure is ignored), and the files that
\* the base has are listed.
StartsPlan(j) ==
    /\ at[j] = "start" /\ stage[j] = "queued"
    /\ at' = [at EXCEPT ![j] = "ask"]
    /\ tracked' = [tracked EXCEPT ![j] = FilesOf(base)]
    /\ \/ index' = base.defs /\ UNCHANGED troubles
       \/ Trouble /\ UNCHANGED index
    /\ UNCHANGED <<trees, scopes, stage, status, answer, attempts, kept>>

\* The planner's answer cannot be used and the job's one correction is unspent: it is asked
\* again, and whatever it answers is validated again.
AsksAgain(j) ==
    /\ at[j] = "ask" /\ asked[j] = 0
    /\ \E a \in Usable : Incomplete(j, a) \/ (TooBig(j, a) /\ ~a.chains)
    /\ asked' = [asked EXCEPT ![j] = 1]
    /\ UNCHANGED <<trees, index, manifest, plan, parked, bypass, place, planning, attempts, kept,
                   troubles>>

\* scope-incomplete
FailsIncomplete(j) ==
    /\ at[j] = "ask" /\ asked[j] = 1
    /\ \E a \in Usable :
          Incomplete(j, a) /\ plan' = [plan EXCEPT ![j] = ManifestOf(a)]
    /\ Leaves(j, "queued", "failed")
    /\ UNCHANGED <<trees, index, manifest, asked, parked, bypass, planning, attempts, troubles>>

\* The planner's output breaks its contract twice, or the agent fails.
FailsToPlan(j) ==
    /\ at[j] = "ask" /\ Trouble
    /\ Leaves(j, "queued", "failed")
    /\ UNCHANGED <<trees, index, scopes, planning, attempts>>

\* Too big, but in independent chains: other jobs do it (JobGraph).
Splits(j) ==
    /\ at[j] = "ask"
    /\ \E a \in Usable : /\ ~Incomplete(j, a) /\ TooBig(j, a) /\ a.chains
                         /\ plan' = [plan EXCEPT ![j] = ManifestOf(a)]
    /\ Leaves(j, "queued", "cancelled")
    /\ UNCHANGED <<trees, index, manifest, asked, parked, bypass, planning, attempts, troubles>>

\* Too big, in one piece, asked again already: it is marked and then fails.
Parks(j) ==
    /\ at[j] = "ask" /\ asked[j] = 1
    /\ \E a \in Usable : /\ ~Incomplete(j, a) /\ TooBig(j, a) /\ ~a.chains
                         /\ answer' = [answer EXCEPT ![j] = a]
    /\ parked' = [parked EXCEPT ![j] = TRUE]
    /\ at' = [at EXCEPT ![j] = "park"]
    /\ UNCHANGED <<trees, index, manifest, plan, asked, bypass, stage, status, tracked, attempts,
                   kept, troubles>>

FailsParked(j) ==
    /\ at[j] = "park"
    /\ plan' = [plan EXCEPT ![j] = ManifestOf(answer[j])]
    /\ answer' = [answer EXCEPT ![j] = None]
    /\ Leaves(j, "queued", "failed")
    /\ UNCHANGED <<trees, index, manifest, asked, parked, bypass, tracked, attempts, troubles>>

\* Mutant: the answer to a correction is taken as it comes.
AcceptsCorrection(j) ==
    /\ at[j] = "ask"
    /\ \E a \in Usable : /\ asked[j] = 1 \/ ~(Incomplete(j, a) \/ TooBig(j, a))
                         /\ answer' = [answer EXCEPT ![j] = a]
    /\ at' = [at EXCEPT ![j] = "reconcile"]
    /\ UNCHANGED <<trees, index, scopes, stage, status, tracked, attempts, kept, troubles>>

Accepts(j) ==
    /\ at[j] = "ask"
    /\ \E a \in Usable : /\ ~Incomplete(j, a) /\ ~TooBig(j, a)
                         /\ answer' = [answer EXCEPT ![j] = a]
    /\ at' = [at EXCEPT ![j] = "reconcile"]
    /\ UNCHANGED <<trees, index, scopes, stage, status, tracked, attempts, kept, troubles>>

\* reconcile_plan_scope: what stories and idea declare is added to the manifest.
Reconciles(j) ==
    /\ at[j] = "reconcile"
    /\ manifest' = [manifest EXCEPT ![j] = @ \union Declared(j, answer[j])]
    /\ at' = [at EXCEPT ![j] = "freeze"]
    /\ UNCHANGED <<trees, index, plan, asked, parked, bypass, stage, status, planning, attempts, kept,
                   troubles>>

\* freeze_validated_plan_scope: exactly the validated files.
Freezes(j) ==
    /\ at[j] = "freeze"
    /\ manifest' = [manifest EXCEPT ![j] = ManifestOf(answer[j])]
    /\ at' = [at EXCEPT ![j] = "save"]
    /\ UNCHANGED <<trees, index, plan, asked, parked, bypass, stage, status, planning, attempts, kept,
                   troubles>>

\* Mutant: the plan is saved with the status the job has, and nobody ever claims it.
SavesPlanRunning(j) ==
    /\ at[j] = "save"
    /\ plan' = [plan EXCEPT ![j] = ManifestOf(answer[j])]
    /\ answer' = [answer EXCEPT ![j] = None]
    /\ Leaves(j, "planned", "running")
    /\ UNCHANGED <<trees, index, manifest, asked, parked, bypass, tracked, attempts, troubles>>

SavesPlan(j) ==
    /\ at[j] = "save"
    /\ plan' = [plan EXCEPT ![j] = ManifestOf(answer[j])]
    /\ answer' = [answer EXCEPT ![j] = None]
    /\ Leaves(j, "planned", "pending")
    /\ UNCHANGED <<trees, index, manifest, asked, parked, bypass, tracked, attempts, troubles>>

-----------------------------------------------------------------------------
(* BUILD, FIX and the resolution of conflicts: what an agent makes of a tree *)

\* An agent adds, takes away or moves a definition, in the files of the plan or others, or
\* writes the migration of its job anew, after any revisions it sees.
Edited(t) ==
    {t} \union {[t EXCEPT !.defs = (@ \ gone) \union new] :
                   gone \in {{}} \union {{d} : d \in t.defs}, new \in {{}} \union {{d} : d \in Defs}}

Migrated(t, j) ==
    LET others == {r \in t.revs : r.id # j}
    IN  {[t EXCEPT !.revs = others \union {[id |-> j, down |-> down]}] :
            down \in {Heads(others)} \union {{r.id} : r \in others}}

Results(t, j) == Edited(t) \union Migrated(t, j)

\* BUILD cuts a new branch from the base.
Branches(j) ==
    /\ at[j] = "start" /\ stage[j] = "planned"
    /\ fork' = [fork EXCEPT ![j] = base] /\ work' = [work EXCEPT ![j] = base]
    /\ at' = [at EXCEPT ![j] = "work"]
    /\ UNCHANGED <<base, loose, index, scopes, stage, status, planning, attempts, kept, troubles>>

\* BUILD and FIX lead to the gates, the resolution of a conflict leads, by MERGE_VERIFY,
\* back to the merge.
Works(j) ==
    /\ at[j] = "work" /\ stage[j] \in {"planned", "fixing", "conflict"}
    /\ \E t \in Results(work[j], j) : work' = [work EXCEPT ![j] = t]
    /\ Leaves(j, IF stage[j] = "conflict" THEN "tested" ELSE "built", "pending")
    /\ UNCHANGED <<base, fork, loose, index, scopes, planning, attempts, troubles>>

AgentFails(j) ==
    /\ at[j] = "work" /\ stage[j] \in {"planned", "fixing", "conflict"} /\ Trouble
    /\ Leaves(j, stage[j], "failed")
    /\ UNCHANGED <<trees, index, scopes, planning, attempts>>

-----------------------------------------------------------------------------
(* TEST *)

\* A gate speaks of what j lands, unless it could not list the files of the diff, or was
\* given an index with symbols that the branch did not start from.
Speaks(j, files) == files = Changed(fork[j], work[j]) /\ index \subseteq fork[j].defs

\* The files of the diff; none when they cannot be determined.
Looks(j, files) ==
    \/ files = Changed(fork[j], work[j]) /\ UNCHANGED troubles
    \/ files = {} /\ Trouble

\* Both gates pass, and so do the tests.
Passes(j) ==
    /\ at[j] = "work" /\ stage[j] = "built"
    /\ \E files \in {Changed(fork[j], work[j]), {}} :
          /\ Looks(j, files)
          /\ SymbolCollisions(work[j], files) = {} /\ ~HeadCollisions(work[j], files)
          /\ loose' = IF Speaks(j, files) THEN loose \ {j} ELSE loose \union {j}
    /\ Leaves(j, "tested", "pending")
    /\ UNCHANGED <<base, fork, work, index, scopes, planning, attempts>>

Rejects(j) ==
    /\ at[j] = "work" /\ stage[j] = "built"
    /\ LET files == Changed(fork[j], work[j])
       IN  SymbolCollisions(work[j], files) # {} \/ HeadCollisions(work[j], files)
    /\ ToFix(j)
    /\ UNCHANGED <<trees, index, scopes, planning, troubles>>

TestsFail(j) ==
    /\ at[j] = "work" /\ stage[j] = "built" /\ Trouble
    /\ ToFix(j)
    /\ UNCHANGED <<trees, index, scopes, planning>>

-----------------------------------------------------------------------------
(* MERGE *)

\* The branch has all of the base: the squashed tree becomes the base.
Lands(j) ==
    /\ at[j] = "work" /\ stage[j] = "tested" /\ fork[j] = base
    /\ base' = work[j]
    /\ Leaves(j, "done", "done")
    /\ UNCHANGED <<fork, work, loose, index, scopes, planning, attempts, troubles>>

\* The base has advanced: it is merged into the branch, after the gates.
Absorbed(j) ==
    /\ at[j] = "work" /\ stage[j] = "tested" /\ fork[j] # base
    /\ work' = [work EXCEPT ![j] = Merged(fork[j], @, base)]
    /\ fork' = [fork EXCEPT ![j] = base]
    /\ loose' = loose \union {j}
    /\ UNCHANGED <<base, index, scopes, planning, troubles>>

\* validate_merge_result finds nothing: neither lint nor tests nor hunks of both sides that
\* overlap.  The gates of TEST are not among what it runs.
Absorbs(j) ==
    /\ Absorbed(j)
    /\ UNCHANGED <<place, attempts, kept>>

\* Both sides have changed a file: its markers, or its overlapping hunks, go to an agent.
Conflicts(j) ==
    /\ Changed(fork[j], work[j]) \intersect Changed(fork[j], base) # {}
    /\ Absorbed(j)
    /\ Leaves(j, "conflict", "pending")
    /\ UNCHANGED attempts

\* The merged tree does not pass lint or tests.
MergedFails(j) == Absorbed(j) /\ ToFix(j)

-----------------------------------------------------------------------------

GatesNext ==
    \E j \in GJobs :
        \/ Claims(j) \/ ClaimsOn(j) \/ Dies(j)
        \/ \E force \in BOOLEAN : Retries(j, force)
        \/ StartsPlan(j) \/ AsksAgain(j) \/ FailsIncomplete(j) \/ FailsToPlan(j)
        \/ Splits(j) \/ Parks(j) \/ FailsParked(j)
        \/ Accepts(j) \/ Reconciles(j) \/ Freezes(j) \/ SavesPlan(j)
        \/ Branches(j) \/ Works(j) \/ AgentFails(j)
        \/ Passes(j) \/ Rejects(j) \/ TestsFail(j)
        \/ Lands(j) \/ Absorbs(j) \/ Conflicts(j) \/ MergedFails(j)

GatesSpec == GatesInit /\ [][GatesNext]_gateVars

-----------------------------------------------------------------------------
(* Properties *)

Landed == {j \in GJobs : stage[j] = "done"}

\* What the gates are for: as long as every landed job was judged on what it landed (no
\* base absorbed after TEST, the diff listed, an index that the branch started from), no
\* migration chain of the base has two heads and no symbol is defined twice, although the
\* index is older than the base and the agents of several jobs worked without seeing each
\* other.  (runner, stages/test.py, collision.py)
GateHolds ==
    Landed \intersect loose = {} =>
        /\ Cardinality(Heads(base.revs)) <= 1
        /\ \A s \in Symbols, m, n \in Modules :
              Repeats(base.defs, s, m, n) => {<<m, s>>, <<n, s>>} \subseteq Defs0

\* A job that has its plan is serialised by that plan's files and no others, across
\* corrections, crashes between the three saves of PLAN, retries and replanning; and
\* that plan has all its mandatory files, and a size that the scope gate accepts.
ScopeFollowsPlan ==
    \A j \in GJobs : stage[j] # "queued" =>
        /\ plan[j] = manifest[j]
        /\ Oversized(manifest[j]) => bypass[j]
        /\ Mandatory(j) \ Frontend \subseteq manifest[j]

\* The agents of two planned jobs never work on the same files at a time, although the
\* claims that go on with a job (claim_fastpath) do not look at manifests at all.
AgentsApart ==
    \A j, k \in GJobs :
        /\ j # k /\ status[j] = "running" /\ status[k] = "running"
        /\ {stage[j], stage[k]} \subseteq Agentic \ {"queued"}
        => manifest[j] \intersect manifest[k] = {}

=============================================================================
