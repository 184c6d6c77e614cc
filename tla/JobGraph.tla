------------------------------ MODULE JobGraph ------------------------------
(***************************************************************************)
(* The dependency graph of the jobs: who may add, move or drop an edge,    *)
(* and what a job has waited for when it is claimed.                       *)
(*                                                                         *)
(* An edge <<a, b>> says that a waits for b; it was asked for by a user,   *)
(* by the supervisor (semantic) or comes from overlapping files (auto).    *)
(* Most operations run under one advisory lock of the database and are one *)
(* step here; the baseline gate of the security stage does not take it and *)
(* is two.  A split creates its children one transaction at a time.        *)
(*                                                                         *)
(* Scopes are constant: two jobs clash, or one of them has no known scope, *)
(* or they are known to be disjoint.                                       *)
(***************************************************************************)
EXTENDS Integers, FiniteSets

CONSTANTS
    MaxJobs,        \* model bound: jobs ever created
    Clash,          \* pairs of jobs whose files overlap
    Vague,          \* jobs whose files are not known
    MaxBefore,      \* model bound: jobs there are before a wave
    MaxDeclared,    \* model bound: dependencies declared at once
    MaxSurvey,      \* model bound: jobs a remediation is queued behind
    MaxTroubles,    \* model bound: edges added and dropped later, jobs that fail, die
                    \* or are cancelled, and oddities
    MaxEffort       \* model bound: troubles, and jobs counted twice

Ids   == 1..MaxJobs
Pairs == Ids \X Ids

Oddities == {"raced",     \* the baseline gate's edge closed a cycle
             "late",      \* a job that runs or is done was given an edge
             "disturbed", \* a job that is or was split was given one, or taken up again
             "deduped",   \* a wave contained a job that existed already
             "withdrawn", \* an operator, or the cycle repair, dropped an edge
             "replaced",  \* a fix-forward job took over some dependents
             "resolved"}  \* a job was declared resolved, and done it is not

ASSUME GraphAssumption ==
    /\ MaxJobs \in Nat
    /\ Clash \subseteq Pairs /\ \A p \in Clash : <<p[2], p[1]>> \in Clash
    /\ Vague \subseteq Ids
    /\ MaxBefore \in Nat /\ MaxDeclared \in Nat /\ MaxSurvey \in Nat
    /\ MaxTroubles \in Nat /\ MaxEffort \in Nat

VARIABLES
    made,       \* jobs created so far
    status,
    resolved,   \* jobs with resolution 'resolved'
    edge,       \* provenance of each edge, "none" if there is none
    kids,       \* children a split in progress has created
    parts,      \* children named by the plan-split event
    split,      \* jobs with resolution 'superseded-by-split'
    choice,     \* remediation a running job's baseline gate has chosen
    fixes,      \* incident a remediation is for (ai_fix_for)
    surveyed,   \* edges recorded in source_meta.queue_survey
    janitor,    \* where the janitor's scan is
    troubles,
    owed,       \* ghost: every wait that was asked for and still counts
    oddities    \* ghost: what has happened so far

rows      == <<status, resolved, split>>
splitting == <<kids, parts>>
metas     == <<fixes, surveyed>>
ghosts    == <<owed, oddities>>
graphVars == <<made, rows, edge, splitting, choice, metas, janitor, troubles, ghosts>>

Provenance == {"none", "auto", "semantic", "user"}
Active     == {"pending", "running"}
Statuses   == Active \union {"absent", "failed", "done", "cancelled"}

\* Jobs, edges and what the operations remember have the types the code gives
\* them; only a job that was created has a status or an edge.
GraphTypeOK ==
    /\ made \in 0..MaxJobs
    /\ status \in [Ids -> Statuses]
    /\ \A j \in Ids : status[j] = "absent" <=> j > made
    /\ resolved \subseteq 1..made /\ split \subseteq 1..made
    /\ edge \in [Pairs -> Provenance]
    /\ \A p \in Pairs : edge[p] # "none" => p[1] <= made /\ p[2] <= made
    /\ kids \in [Ids -> SUBSET (1..made)] /\ parts \in [Ids -> SUBSET (1..made)]
    /\ choice \in [Ids -> 0..made] /\ fixes \in [Ids -> 0..made]
    /\ \A j \in Ids : choice[j] # 0 => j <= made
    /\ surveyed \subseteq Pairs /\ owed \subseteq Pairs
    /\ janitor \in {"idle", "reconciled"}
    /\ troubles \in 0..MaxTroubles
    /\ oddities \subseteq Oddities

GraphInit ==
    /\ made = 0
    /\ status = [j \in Ids |-> "absent"]
    /\ resolved = {} /\ split = {}
    /\ edge = [p \in Pairs |-> "none"]
    /\ kids = [j \in Ids |-> {}] /\ parts = [j \in Ids |-> {}]
    /\ choice = [j \in Ids |-> 0] /\ fixes = [j \in Ids |-> 0]
    /\ surveyed = {} /\ owed = {}
    /\ janitor = "idle"
    /\ troubles = 0
    /\ oddities = {}

-----------------------------------------------------------------------------
(* Graphs *)

Edges(e) == {p \in Pairs : e[p] # "none"}

\* Jobs left over when Kahn's algorithm stops wait for each other.
Stuck(E, S) == S # {} /\ \A j \in S : \E k \in S : <<j, k>> \in E

Acyclic(E) == ~\E S \in SUBSET Ids : Stuck(E, S)

\* b is reached from a: it is in every set that a's edges do not leave.
Reaches(E, a, b) ==
    \A S \in SUBSET Ids :
        (\A p \in E : p[1] \in S \union {a} => p[2] \in S) => b \in S

\* INSERT ... ON CONFLICT: the stronger provenance stays.
Stronger(u, v) ==
    CASE "user" \in {u, v} -> "user"
      [] "user" \notin {u, v} /\ "semantic" \in {u, v} -> "semantic"
      [] OTHER -> "auto"

With(e, E, v) == [p \in Pairs |-> IF p \in E THEN Stronger(e[p], v) ELSE e[p]]

Without(e, E) == [p \in Pairs |-> IF p \in E THEN "none" ELSE e[p]]

Disjoint(p) == p[1] \notin Vague /\ p[2] \notin Vague /\ p \notin Clash

\* minimize_auto_dependencies: an auto edge goes if its jobs are known to be
\* disjoint, or else if another way leads there among the edges that are left.
Redundant(e, p) ==
    LET E == Edges(e)
    IN  \E m \in Ids \ {p[2]} : <<p[1], m>> \in E /\ Reaches(E, m, p[2])

Overlapping(e) == [p \in Pairs |-> IF e[p] = "auto" /\ Disjoint(p) THEN "none" ELSE e[p]]

Minimized(e) ==
    LET o == Overlapping(e)
    IN  [p \in Pairs |-> IF o[p] = "auto" /\ Redundant(o, p) THEN "none" ELSE o[p]]

\* A wait counts unless it is an auto edge between disjoint jobs.
Owes(e) == {p \in Edges(e) : e[p] # "auto" \/ ~Disjoint(p)}

\* The edges become e, E is added and F is no longer asked for.
Edits(e, F) ==
    /\ edge' = e
    /\ owed' = (owed \ F) \union (Owes(e) \ Edges(edge))

Room(n) == made + n <= MaxJobs /\ 2 * (made + n) + troubles <= MaxEffort

Trouble ==
    /\ troubles < MaxTroubles /\ 2 * made + troubles < MaxEffort
    /\ troubles' = troubles + 1

Settled(b) == status[b] = "done" \/ b \in resolved

-----------------------------------------------------------------------------
(* Creating jobs *)

\* Mutant: what the new job depends on need not exist.
CreatesBlindly(D) ==
    /\ Room(1) /\ Cardinality(D) <= MaxDeclared /\ made + 1 \notin D
    /\ made' = made + 1
    /\ status' = [status EXCEPT ![made + 1] = "pending"]
    /\ Edits(With(edge, {made + 1} \X D, "user"), {})
    /\ UNCHANGED <<resolved, split, splitting, choice, metas, janitor, troubles, oddities>>

\* JobStore.create, without the dependency lock: only earlier jobs.
Creates(D) ==
    /\ Room(1) /\ D \subseteq 1..made /\ Cardinality(D) <= MaxDeclared
    /\ made' = made + 1
    /\ status' = [status EXCEPT ![made + 1] = "pending"]
    /\ Edits(With(edge, {made + 1} \X D, "user"), {})
    /\ UNCHANGED <<resolved, split, splitting, choice, metas, janitor, troubles, oddities>>

Orders(S) == {f \in [S -> 1..Cardinality(S)] : \A a, b \in S : f[a] = f[b] => a = b}

\* What a wave asks for: the declared edges, and each entry behind the earlier
\* ones it overlaps with.
Proposed(declared, pos) ==
    [p \in Pairs |->
        CASE p \in declared -> "user"
          [] p \notin declared /\ p[1] \in DOMAIN pos /\ p[2] \in DOMAIN pos
                 /\ pos[p[2]] < pos[p[1]] /\ p \in Clash
                 /\ p[1] \notin Vague /\ p[2] \notin Vague -> "auto"
          [] OTHER -> "none"]

\* JobStore.create_batch: entries whose idempotency key exists (old) keep their own
\* edges; the new ones are numbered in topological order.
CreatesWave(n, old, declared, pos) ==
    LET new == made + 1..made + n
        ask == Proposed(declared, pos)
        e   == Minimized(ask)
    IN  /\ Room(n)
        /\ Acyclic(Edges(ask))
        /\ \A p \in Edges(e) : p[1] \in new /\ p[2] \in new => p[2] < p[1]
        /\ made' = made + n
        /\ status' = [j \in Ids |-> IF j \in new THEN "pending" ELSE status[j]]
        /\ edge' = [p \in Pairs |-> IF p[1] \in new THEN e[p] ELSE edge[p]]
        /\ owed' = owed \union {p \in Edges(ask) : p[1] \in new}
        /\ \/ old = {} /\ UNCHANGED <<troubles, oddities>>
           \/ old # {} /\ Trouble /\ oddities' = oddities \union {"deduped"}
        /\ UNCHANGED <<resolved, split, splitting, choice, metas, janitor>>

\* At most n members of S.
Few(S, n) == {{}} \union {{f[i] : i \in 1..n} : f \in [1..n -> S]}

SomeWave ==
    \E n \in 1..3, old \in Few(1..made, 1) :
        /\ made <= MaxBefore
        /\ Cardinality(old) + n <= 3 /\ Room(n)
        /\ LET nodes == (made + 1..made + n) \union old
           IN  \E pos \in Orders(nodes), declared \in Few(nodes \X nodes, MaxDeclared) :
                   CreatesWave(n, old, declared, pos)

-----------------------------------------------------------------------------
(* Edges *)

\* Nothing stops an edge for a job that no longer waits.
Waits(a) ==
    oddities' = oddities
        \union (IF status[a] \in {"running", "done"} THEN {"late"} ELSE {})
        \union (IF a \in split \/ kids[a] # {} THEN {"disturbed"} ELSE {})

\* Mutant: the check looks for the opposite edge only.
AddsLocally(a, b) ==
    /\ a \in 1..made /\ b \in 1..made /\ a # b
    /\ edge[<<b, a>>] = "none"
    /\ Edits(With(edge, {<<a, b>>}, "user"), {})
    /\ Waits(a)
    /\ Trouble
    /\ UNCHANGED <<made, rows, splitting, choice, metas, janitor>>

\* add_job_dependency, by a user or for a fix the supervisor has filed: refused if
\* the whole graph with the new edge has a cycle.
Adds(a, b) ==
    /\ a \in 1..made /\ b \in 1..made
    /\ Acyclic(Edges(edge) \union {<<a, b>>})
    /\ Edits(With(edge, {<<a, b>>}, "user"), {})
    /\ Waits(a)
    /\ Trouble
    /\ UNCHANGED <<made, rows, splitting, choice, metas, janitor>>

\* remove_job_dependency.  What was left out as redundant may have rested on it.
Removes(a, b) ==
    /\ Trouble
    /\ edge[<<a, b>>] # "none"
    /\ Edits(Without(edge, {<<a, b>>}), {<<a, b>>})
    /\ oddities' = oddities \union {"withdrawn"}
    /\ UNCHANGED <<made, rows, splitting, choice, metas, janitor>>

\* fix_forward_and_repoint: a new job takes over the dependents in D.
FixesForward(j, D) ==
    /\ Trouble
    /\ Room(1) /\ j \in 1..made
    /\ D # {} /\ D \subseteq {d \in Ids : edge[<<d, j>>] # "none"}
    /\ made' = made + 1
    /\ status' = [status EXCEPT ![made + 1] = "pending"]
    /\ edge' = [p \in Pairs |->
                  IF p[1] \in D /\ p[2] = made + 1
                  THEN IF edge[<<p[1], j>>] = "auto" THEN "semantic" ELSE edge[<<p[1], j>>]
                  ELSE IF p[1] \in D /\ p[2] = j THEN "none" ELSE edge[p]]
    /\ owed' = (owed \ (D \X {j})) \union (D \X {made + 1})
    /\ fixes' = [fixes EXCEPT ![made + 1] = j]
    /\ oddities' = oddities \union {"replaced"}
    /\ UNCHANGED <<resolved, split, splitting, choice, surveyed, janitor>>

\* survey_job_queue: the jobs of A known to overlap with f, and those whose files
\* nobody knows.
Surveyed(f, A) ==
    {k \in A \ Vague : f \notin Vague /\ <<f, k>> \in Clash} \union (A \intersect Vague)

\* create_supervisor_remediation: f is queued behind the jobs in S, which a survey
\* found (it may be older than this transaction), and the incident behind f.
Remediates(i, S) ==
    LET f == made + 1
        e == With(With(edge, {f} \X S, "auto"), {<<i, f>>}, "semantic")
    IN  /\ Room(1) /\ status[i] = "failed"
        /\ S \subseteq Surveyed(f, 1..made \ {i})
        /\ Cardinality(S) <= MaxSurvey
        /\ Acyclic(Edges(e))
        /\ made' = f
        /\ status' = [status EXCEPT ![f] = "pending"]
        /\ edge' = Minimized(e)
        /\ owed' = owed \union ({f} \X S) \union {<<i, f>>}
        /\ fixes' = [fixes EXCEPT ![f] = i]
        /\ surveyed' = surveyed \union ({f} \X S)
        /\ UNCHANGED <<resolved, split, splitting, choice, janitor, troubles, oddities>>

-----------------------------------------------------------------------------
(* The baseline gate: reads outside the dependency lock, then adds its edge *)

\* It takes an active remediation that does not wait for the job itself.
BaselineChooses(t, r) ==
    /\ Trouble
    /\ status[t] = "running" /\ choice[t] = 0 /\ kids[t] = {}
    /\ r \in 1..made /\ r # t /\ status[r] \in Active
    /\ ~Reaches(Edges(edge), r, t)
    /\ choice' = [choice EXCEPT ![t] = r]
    /\ UNCHANGED <<made, rows, edge, splitting, metas, janitor, ghosts>>

\* The row is put back to PENDING whatever it says.
BaselineBlocks(t) ==
    /\ choice[t] # 0
    /\ LET e == With(edge, {<<t, choice[t]>>}, "user")
       IN  /\ Edits(e, {})
           /\ oddities' = IF Acyclic(Edges(e)) THEN oddities ELSE oddities \union {"raced"}
    /\ status' = [status EXCEPT ![t] = "pending"]
    /\ choice' = [choice EXCEPT ![t] = 0]
    /\ UNCHANGED <<made, resolved, split, splitting, metas, janitor, troubles>>

-----------------------------------------------------------------------------
(* Splitting an oversized plan *)

\* Mutant: the children that wait for no sibling.
TerminalFirst(C) == {c \in C : \A k \in C : edge[<<c, k>>] = "none"}

\* The children a split names last: no sibling waits for them.
Terminal(C) == {c \in C : \A k \in C : edge[<<k, c>>] = "none"}

\* _supersede_with_split creates one child after the other.
CreatesChild(j, D) ==
    /\ status[j] = "running" /\ choice[j] = 0 /\ parts[j] = {}
    /\ Room(1) /\ D \subseteq kids[j]
    /\ made' = made + 1
    /\ status' = [status EXCEPT ![made + 1] = "pending"]
    /\ Edits(With(edge, {made + 1} \X D, "user"), {})
    /\ kids' = [kids EXCEPT ![j] = @ \union {made + 1}]
    /\ UNCHANGED <<resolved, split, parts, choice, metas, janitor, troubles, oddities>>

Dependents(j) == {d \in Ids : edge[<<d, j>>] # "none"}

\* repoint_split_dependents: each dependent of j waits for the terminal children.
FannedOut(j, C) ==
    [p \in Pairs |->
        CASE p[2] = j -> "none"
          [] p[2] # j /\ p[2] \in Terminal(C) /\ edge[<<p[1], j>>] # "none"
                -> IF edge[p] = "none" THEN edge[<<p[1], j>>]
                   ELSE Stronger(edge[p], edge[<<p[1], j>>])
          [] OTHER -> edge[p]]

\* Who waited for j is owed all children, unless its files are disjoint from some.
Repoints(j, C) ==
    /\ Acyclic(Edges(FannedOut(j, C)))
    /\ edge' = IF Dependents(j) = {} THEN edge ELSE Minimized(FannedOut(j, C))
    /\ owed' = {p \in owed : p[2] # j} \union
               {p \in Dependents(j) \X C :
                   edge[<<p[1], j>>] = "auto" => \A c \in C : ~Disjoint(<<p[1], c>>)}

\* The dependents move and the event that names the children is written.
Hands(j) ==
    /\ status[j] \in {"running", "cancelled"} /\ kids[j] # {} /\ parts[j] = {}
    /\ Repoints(j, kids[j])
    /\ parts' = [parts EXCEPT ![j] = kids[j]]
    /\ UNCHANGED <<made, rows, kids, choice, metas, janitor, troubles, oddities>>

\* The save: void if somebody has cancelled the job meanwhile.
Supersedes(j) ==
    /\ status[j] \in {"running", "cancelled"} /\ kids[j] # {} /\ parts[j] = kids[j]
    /\ status' = [status EXCEPT ![j] = "cancelled"]
    /\ split' = IF status[j] = "running" THEN split \union {j} ELSE split
    /\ kids' = [kids EXCEPT ![j] = {}]
    /\ UNCHANGED <<made, resolved, edge, parts, choice, metas, janitor, troubles, ghosts>>

\* The worker dies, or the graph had a cycle and the handler raises: the
\* children stay.
Dies(j) ==
    /\ status[j] = "running"
    /\ \E s \in {"pending", "failed"} : status' = [status EXCEPT ![j] = s]
    /\ kids' = [kids EXCEPT ![j] = {}]
    /\ parts' = [parts EXCEPT ![j] = {}]
    /\ choice' = [choice EXCEPT ![j] = 0]
    /\ Trouble
    /\ UNCHANGED <<made, resolved, split, edge, metas, janitor, ghosts>>

\* An edge that came after the split: moved at startup, and by every scan.
RepointsOrphans(j) ==
    /\ j \in split /\ parts[j] # {} /\ Dependents(j) # {}
    /\ Repoints(j, parts[j])
    /\ UNCHANGED <<made, rows, splitting, choice, metas, janitor, troubles, oddities>>

-----------------------------------------------------------------------------
(* The janitor's scan *)

Orphaned == {j \in split : parts[j] # {} /\ Dependents(j) # {}}

\* reconcile_auto_dependencies raises if the project's graph has a cycle, and
\* that ends the scan; the startup goes on without it.
Reconciles ==
    /\ janitor = "idle" /\ Orphaned = {}
    /\ Acyclic(Edges(edge))
    /\ edge' = Minimized(edge)
    /\ janitor' = "reconciled"
    /\ UNCHANGED <<made, rows, splitting, choice, metas, troubles, ghosts>>

Among(E, S) == {p \in E : p[1] \in S /\ p[2] \in S}

\* An edge of a cycle of active jobs that is proven safe to drop: from a remediation
\* to its own incident, or one that a survey recorded.
Repairable(p) ==
    LET E == Among(Edges(edge), {j \in Ids : status[j] \in Active})
    IN  p \in E /\ Reaches(E, p[2], p[1]) /\ (fixes[p[1]] = p[2] \/ p \in surveyed)

\* _check_dependency_cycles drops one and looks again.
Repairs(p) ==
    /\ janitor = "reconciled"
    /\ Repairable(p)
    /\ Edits(Without(edge, {p}), {p})
    /\ oddities' = oddities \union {"withdrawn"}
    /\ UNCHANGED <<made, rows, splitting, choice, metas, janitor, troubles>>

\* No such edge is left: the rest is alerted.
EndsScan ==
    /\ janitor = "reconciled"
    /\ \A p \in Pairs : ~Repairable(p)
    /\ janitor' = "idle"
    /\ UNCHANGED <<made, rows, edge, splitting, choice, metas, troubles, ghosts>>

-----------------------------------------------------------------------------
(* The jobs themselves *)

Claims(j) ==
    /\ status[j] = "pending"
    /\ \A b \in Ids : edge[<<j, b>>] # "none" => Settled(b)
    /\ status' = [status EXCEPT ![j] = "running"]
    /\ UNCHANGED <<made, resolved, split, edge, splitting, choice, metas, janitor, troubles, ghosts>>

Ends(j) ==
    /\ status[j] = "running" /\ kids[j] = {} /\ choice[j] = 0
    /\ \/ status' = [status EXCEPT ![j] = "done"] /\ UNCHANGED troubles
       \/ status' = [status EXCEPT ![j] = "failed"] /\ Trouble
    /\ UNCHANGED <<made, resolved, split, edge, splitting, choice, metas, janitor, ghosts>>

Cancels(j) ==
    /\ status[j] \in Active
    /\ status' = [status EXCEPT ![j] = "cancelled"]
    /\ Trouble
    /\ UNCHANGED <<made, resolved, split, edge, splitting, choice, metas, janitor, ghosts>>

\* Retry or requeue.  (That a handler still runs is JobQueue's retry_midrun.)  A
\* job that was split stays marked as such.
Revives(j) ==
    /\ status[j] \in {"failed", "cancelled"} /\ kids[j] = {} /\ choice[j] = 0
    /\ status' = [status EXCEPT ![j] = "pending"]
    /\ oddities' = oddities \union (IF j \in split THEN {"disturbed"} ELSE {})
    /\ UNCHANGED <<made, resolved, split, edge, splitting, choice, metas, janitor, troubles, owed>>

\* A job whose dependency has failed for good is failed without having run.
BlocksDependent(j) ==
    /\ status[j] = "pending"
    /\ \E b \in Ids : edge[<<j, b>>] # "none" /\ status[b] = "failed" /\ b \notin resolved
    /\ status' = [status EXCEPT ![j] = "failed"]
    /\ UNCHANGED <<made, resolved, split, edge, splitting, choice, metas, janitor, troubles, ghosts>>

\* By an operator, or because a remediation of the job succeeded.
Resolves(j) ==
    /\ Trouble
    /\ status[j] \in {"failed", "cancelled"} /\ j \notin resolved /\ kids[j] = {}
    /\ resolved' = resolved \union {j}
    /\ split' = split \ {j}
    /\ oddities' = oddities \union {"resolved"}
    /\ UNCHANGED <<made, status, edge, splitting, choice, metas, janitor, owed>>

GraphNext ==
    \/ \E D \in SUBSET Ids : Creates(D)
    \/ SomeWave
    \/ \E a, b \in Ids : Adds(a, b) \/ Removes(a, b)
    \/ \E j \in Ids, D \in SUBSET Ids : FixesForward(j, D) \/ Remediates(j, D)
    \/ \E j \in Ids : \/ \E r \in Ids : BaselineChooses(j, r)
                      \/ BaselineBlocks(j)
                      \/ \E D \in SUBSET Ids : CreatesChild(j, D)
                      \/ Hands(j) \/ Supersedes(j) \/ Dies(j) \/ RepointsOrphans(j)
                      \/ Claims(j) \/ Ends(j) \/ Cancels(j) \/ Revives(j)
                      \/ BlocksDependent(j) \/ Resolves(j)
    \/ Reconciles
    \/ \E p \in Pairs : Repairs(p)
    \/ EndsScan

GraphFairness == WF_graphVars(Reconciles \/ EndsScan \/ \E p \in Pairs : Repairs(p))

GraphSpec == GraphInit /\ [][GraphNext]_graphVars /\ GraphFairness

-----------------------------------------------------------------------------
(* Properties *)

\* Whatever is created, added, split, moved and minimised by whom: no job ends up
\* waiting for itself, until the baseline gate has raced another operation.
GraphAcyclic == "raced" \notin oddities => Acyclic(Edges(edge))

\* A job is not claimed before what it was asked to wait for is done, however often
\* edges were left out as redundant and jobs were split in between.
OrderKept ==
    [][oddities' = {} =>
         \A j \in Ids : status[j] = "pending" /\ status'[j] = "running" =>
             \A b \in Ids : <<j, b>> \in owed => Settled(b)]_graphVars

\* collision.py: "Return a stable, reachability-preserving minimal dependency graph".
\* Of two overlapping jobs, at any rate, one still waits for the other.
MinimizingKeepsOrder ==
    [][\A j \in Ids : Hands(j) /\ edge' # edge =>
         \A p \in Clash : Reaches(Edges(FannedOut(j, kids[j])), p[1], p[2])
                            => Reaches(Edges(edge'), p[1], p[2])]_graphVars

\* collision.py: "another path already provides the same ordering".  It may have
\* led through a job that is split afterwards.
SplitsKeepOrder ==
    [][oddities' \subseteq {"disturbed"} =>
         \A j \in Ids : status[j] = "pending" /\ status'[j] = "running" =>
             \A b \in Ids : <<j, b>> \in owed => Settled(b)]_graphVars

\* supervisor.py: "Auto-repair provenance-safe dependency cycles".
CyclesRepaired == (\E p \in Pairs : Repairable(p)) ~> (\A p \in Pairs : ~Repairable(p))

=============================================================================
