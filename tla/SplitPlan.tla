------------------------------ MODULE SplitPlan ------------------------------
(***************************************************************************)
(* How a plan that is too big for one job is cut into jobs: one job per    *)
(* story, and which of these jobs wait for which.                          *)
(*                                                                         *)
(* A plan has stories, known by their ids; place is where the planner      *)
(* listed a story, files what the story writes (a list is read in the      *)
(* order of its numbers), deps the stories it depends on.  All of it is    *)
(* computed from the plan alone: these are operators, not actions.         *)
(***************************************************************************)
EXTENDS Integers, FiniteSets, FiniteSetsExt

CONSTANTS
    MaxStories,     \* model bound: stories of a plan
    MaxPaths,       \* model bound: paths there are to write
    MaxFiles,       \* _MAX_PLAN_TARGET_FILES
    TestFiles       \* paths of tests

ASSUME SplitAssumption ==
    /\ MaxStories \in Nat \ {0} /\ MaxPaths \in Nat \ {0} /\ MaxFiles \in Nat \ {0}
    /\ TestFiles \subseteq 1..MaxPaths

StoryIds(p) == DOMAIN p.files

Declares(p, a, b) == b \in p.deps[a]
Shares(p, a, b)   == p.files[a] \cap p.files[b] # {}
Listed(p, a, b)   == p.place[a] < p.place[b]

\* Every story names its files.
PerStoryFiles(p) == StoryIds(p) # {} /\ \A s \in StoryIds(p) : p.files[s] # {}

\* Stories that stand in the way of a split: the planner is asked about these.
Blocking(p) == {s \in StoryIds(p) : p.files[s] = {} \/ Cardinality(p.files[s]) > MaxFiles}

-----------------------------------------------------------------------------
(* The contract of a planner's answer *)

TestOnly(p, s) == p.files[s] \subseteq TestFiles

\* Dependencies are stories listed earlier.
Contracted(p) == \A a \in StoryIds(p) : \A b \in p.deps[a] : Listed(p, b, a)

\* A story of tests only waits for every earlier story that is not.
Completed(p) ==
    [p EXCEPT !.deps = [s \in StoryIds(p) |->
        IF TestOnly(p, s)
        THEN p.deps[s] \union {b \in StoryIds(p) : Listed(p, b, s) /\ ~TestOnly(p, b)}
        ELSE p.deps[s]]]

-----------------------------------------------------------------------------
(* The split *)

\* Mutant: only the files of two stories bind them.
LinkedByFiles(p, a, b) == Shares(p, a, b)

\* Two stories of one component: they share a file or one depends on the other.
Linked(p, a, b) == Shares(p, a, b) \/ Declares(p, a, b) \/ Declares(p, b, a)

\* Union-find over the pairs: the groups of the two ends become one.
United(e, groups) ==
    LET touched == {g \in groups : g \cap e # {}}
    IN  (groups \ touched) \union {UNION touched}

Groups(p) ==
    FoldSet(United, {{s} : s \in StoryIds(p)},
            {e \in SUBSET StoryIds(p) : \E a, b \in e : e = {a, b} /\ Linked(p, a, b)})

\* Direct predecessors: what a declares, else of two that share a file the earlier.
Predecessors(p, G) ==
    [b \in G |-> {a \in G \ {b} :
        \/ Declares(p, b, a)
        \/ /\ ~Declares(p, a, b)
           /\ Shares(p, a, b) /\ Listed(p, a, b)}]

\* Kahn's algorithm in rounds: what is ordered after n of them.
Ordered(G, pred) ==
    LET after[n \in 0..Cardinality(G)] ==
            IF n = 0 THEN {}
            ELSE LET done == after[n - 1]
                 IN  done \union {s \in G : pred[s] \subseteq done}
    IN  after

Sortable(G, pred) == Ordered(G, pred)[Cardinality(G)] = G

Rounds(G, pred) ==
    LET after == Ordered(G, pred)
    IN  [s \in G |-> Min({n \in 0..Cardinality(G) : s \in after[n]})]

\* A cycle: the stories one after the other, by id.
Chain(G) == [s \in G |-> {a \in G : a < s /\ ~\E b \in G : a < b /\ b < s}]

Component(p, G) ==
    LET direct == Predecessors(p, G)
        pred   == IF Sortable(G, direct) THEN direct ELSE Chain(G)
    IN  [predecessors |-> pred,
         round        |-> Rounds(G, pred),
         terminal     |-> G \ UNION {pred[s] : s \in G}]

Splittable(p) == PerStoryFiles(p) /\ Blocking(p) = {}

\* The components of a split, each with its jobs in the order they are created.
Components(p) == {Component(p, G) : G \in Groups(p)}

-----------------------------------------------------------------------------
(* A saved plan is cut into batches of files first *)

Batch(s, k)  == (MaxPaths + 1) * s + k
Story(id)    == id \div (MaxPaths + 1)
Number(id)   == id % (MaxPaths + 1)

Batches(p, s) == Max({1, (Cardinality(p.files[s]) + MaxFiles - 1) \div MaxFiles})

\* Files of the k-th batch: the next MaxFiles of the list.
Slice(F, k) ==
    {f \in F : LET before == Cardinality({g \in F : g < f})
               IN  (k - 1) * MaxFiles <= before /\ before < k * MaxFiles}

BatchIds(p) == UNION {{Batch(s, k) : k \in 1..Batches(p, s)} : s \in StoryIds(p)}

\* The first batch waits for the last one of each dependency, the others for the
\* one before.
Bounded(p) ==
    [files |-> [b \in BatchIds(p) |-> Slice(p.files[Story(b)], Number(b))],
     place |-> [b \in BatchIds(p) |-> Batch(p.place[Story(b)], Number(b))],
     deps  |-> [b \in BatchIds(p) |->
        IF Number(b) = 1
        THEN {Batch(d, Batches(p, d)) : d \in p.deps[Story(b)]}
        ELSE {b - 1}]]

\* A plan that has been saved is split unless it is one story that fits.
SavedSplit(p) ==
    /\ StoryIds(p) # {}
    /\ ~ /\ Cardinality(StoryIds(p)) = 1
         /\ \A s \in StoryIds(p) : Cardinality(p.files[s]) <= MaxFiles
    /\ Splittable(Bounded(p))

-----------------------------------------------------------------------------
(* What a split must keep *)

\* Everything the stories of a component wait for, however long the way.
Awaited(c) ==
    LET within[n \in 0..Cardinality(DOMAIN c.round)] ==
            IF n = 0 THEN c.predecessors
            ELSE LET near == within[n - 1]
                 IN  [s \in DOMAIN c.round |-> near[s] \union UNION {near[q] : q \in near[s]}]
    IN  within[Cardinality(DOMAIN c.round)]

\* Every story gets one job and is created after those it waits for; the jobs
\* nobody waits for are the terminal ones.  Stories that write one file are one
\* after the other.
Serial(p, C) ==
    /\ UNION {DOMAIN c.round : c \in C} = StoryIds(p)
    /\ \A c, d \in C : c # d => \A a \in DOMAIN c.round, b \in DOMAIN d.round :
          a # b /\ ~Shares(p, a, b)
    /\ \A c \in C :
          LET awaited == Awaited(c) IN
          /\ \A s \in DOMAIN c.round :
                /\ \A q \in awaited[s] : c.round[q] < c.round[s]
                /\ s \in c.terminal \union UNION {awaited[t] : t \in c.terminal}
          /\ \A a, b \in DOMAIN c.round :
                a # b /\ Shares(p, a, b) => a \in awaited[b] \/ b \in awaited[a]

\* Of each pair, the first waits for the second.
Obeyed(C, W) ==
    \A c \in C :
        LET awaited == Awaited(c)
        IN  \A w \in W : w[1] \in DOMAIN c.round => w[2] \in awaited[w[1]]

Stories == 1..MaxStories

\* The plans of MaxStories stories, listed in any order.
Plans ==
    [files : [Stories -> SUBSET (1..MaxPaths)],
     place : {l \in [Stories -> Stories] : \A s, t \in Stories : l[s] = l[t] => s = t},
     deps  : {d \in [Stories -> SUBSET Stories] : \A s \in Stories : s \notin d[s]}]

\* A plan the contract let through: jobs wait for everything their stories
\* depend on.  A cycle, which only an old saved plan can have, gives an order too.
PlanSplit(p) ==
    IF ~Contracted(p) THEN Serial(p, Components(p))
    ELSE LET q == Completed(p)
             C == Components(q)
         IN  Serial(q, C) /\ Obeyed(C, {w \in StoryIds(q) \X StoryIds(q) :
                                            Declares(q, w[1], w[2])})

\* A saved plan: each batch fits a job, no file is lost, and a story waits, batch
\* after batch, for all of the stories it depends on.
SavedPlanSplit(p) ==
    LET q == Bounded(p)
        C == Components(q)
    IN  /\ \A s \in StoryIds(p) :
              p.files[s] = UNION {q.files[b] : b \in {c \in StoryIds(q) : Story(c) = s}}
        /\ \A b \in StoryIds(q) : Cardinality(q.files[b]) <= MaxFiles
        /\ Serial(q, C)
        /\ Obeyed(C, {w \in StoryIds(q) \X StoryIds(q) :
                         Declares(p, Story(w[1]), Story(w[2]))})

\* A plan that is cut into jobs, by the planner's stage or by the supervisor from
\* the plan it finds saved, loses no story and no file: the jobs can be created
\* in their order, those that write one file run one after the other, and each
\* waits for all it depends on, tests for the code they test among it.
\* _compute_split_chains, _split_from_saved_plan, _validate_plan_semantics.
SplitOrdered ==
    \A p \in Plans :
        /\ Splittable(p) => PlanSplit(p)
        /\ Contracted(p) /\ SavedSplit(p) => SavedPlanSplit(p)

=============================================================================
