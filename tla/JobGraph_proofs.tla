-------------------------- MODULE JobGraph_proofs --------------------------
(***************************************************************************)
(* JobGraph for every number of jobs, every overlap of their files and     *)
(* every bound: types, that the dependency graph stays acyclic until the   *)
(* baseline gate has closed a cycle, and that no job is claimed before     *)
(* what it was asked to wait for is done.                                  *)
(*                                                                         *)
(* Four kinds of step change the edges: those that check the whole graph,  *)
(* those that only drop edges, those that give a new job edges to older    *)
(* ones, and those that put a new job in the place of an older one.  The   *)
(* graph lemmas say that each keeps an acyclic graph acyclic.              *)
(*                                                                         *)
(* For the order: a job that is owed and not done can be reached from who  *)
(* waits for it, and whoever was claimed or split has seen all it reaches  *)
(* done.  That leaving out redundant edges keeps what is reached is shown  *)
(* along the number of jobs below a job, which falls along every edge.     *)
(*                                                                         *)
(* The second half is about SplitPlan, for every number of stories, paths  *)
(* and files: how a plan is split.  The functions that are defined by      *)
(* recursion are shown to exist and to be what their equations say, and    *)
(* all that is said of them goes by induction over a set of numbers        *)
(* (EveryNumber).                                                          *)
(***************************************************************************)
EXTENDS MCJobGraph, FiniteSetTheorems, NaturalsInduction, WellFoundedInduction, TLAPS

(* Natural numbers *)

LEMMA SetHasMinimum ==
    ASSUME NEW T \in SUBSET Nat, T # {}
    PROVE  \E x \in T : \A y \in T : ~(y < x)
<1>1. IsWellFoundedOn(OpToRel(<, Nat), Nat)
  BY NatLessThanWellFounded
<1>2. \E x \in T : \A y \in T : ~(<<y, x>> \in OpToRel(<, Nat))
  BY <1>1, WFMin
<1>3. \A x, y \in T : <<y, x>> \in OpToRel(<, Nat) <=> y < x
  BY DEF OpToRel
<1>4. QED
  BY <1>2, <1>3

\* Induction, for a set of numbers.
LEMMA EveryNumber ==
    ASSUME NEW T, 0 \in T, \A n \in Nat : n \in T => n + 1 \in T
    PROVE  Nat \subseteq T
<1> SUFFICES ASSUME Nat \ T # {} PROVE FALSE
  OBVIOUS
<1>1. Nat \ T \in SUBSET Nat
  OBVIOUS
<1>2. PICK n \in Nat \ T : \A m \in Nat \ T : ~(m < n)
  BY <1>1, SetHasMinimum
<1>3. n \in Nat /\ n # 0 /\ n \notin T
  OBVIOUS
<1>4. n - 1 \in Nat /\ n - 1 < n /\ (n - 1) + 1 = n
  BY <1>3
<1>5. n - 1 \in T
  BY <1>2, <1>4
<1>6. QED
  BY <1>3, <1>4, <1>5

-----------------------------------------------------------------------------
(* Graphs *)

\* Dropping edges closes no cycle.
LEMMA FewerEdges ==
    ASSUME NEW E, NEW F \in SUBSET E, Acyclic(E)
    PROVE  Acyclic(F)
  BY DEF Acyclic, Stuck

\* Nor do edges that leave a job nobody waits for, other than itself.
LEMMA NewSource ==
    ASSUME NEW E, NEW n \in Ids, NEW D \in SUBSET (Ids \ {n}),
           \A k \in Ids : <<k, n>> \notin E, Acyclic(E)
    PROVE  Acyclic(E \union ({n} \X D))
<1> SUFFICES ASSUME NEW S \in SUBSET Ids, Stuck(E \union ({n} \X D), S) PROVE FALSE
  BY DEF Acyclic
<1>1. \A k \in Ids : <<k, n>> \notin E \union ({n} \X D)
  OBVIOUS
<1>2. n \notin S
  <2> SUFFICES ASSUME n \in S PROVE FALSE
    OBVIOUS
  <2>1. S \ {n} # {}
    BY <1>1 DEF Stuck
  <2>2. \A j \in S \ {n} : \E k \in S \ {n} : <<j, k>> \in E
    <3> TAKE j \in S \ {n}
    <3>1. PICK k \in S : <<j, k>> \in E \union ({n} \X D)
      BY DEF Stuck
    <3>2. k # n
      BY <1>1, <3>1
    <3>3. <<j, k>> \in E
      BY <3>1
    <3>4. QED
      BY <3>2, <3>3
  <2>3. S \ {n} \in SUBSET Ids /\ Stuck(E, S \ {n})
    BY <2>1, <2>2 DEF Stuck
  <2>4. QED
    BY <2>3 DEF Acyclic
<1>3. Stuck(E, S)
  BY <1>2 DEF Stuck
<1>4. QED
  BY <1>3 DEF Acyclic

\* Nor do edges that enter a job that waits for nobody.
LEMMA NewSink ==
    ASSUME NEW E, NEW n \in Ids, NEW D \in SUBSET (Ids \ {n}),
           \A k \in Ids : <<n, k>> \notin E, Acyclic(E)
    PROVE  Acyclic(E \union (D \X {n}))
<1> SUFFICES ASSUME NEW S \in SUBSET Ids, Stuck(E \union (D \X {n}), S) PROVE FALSE
  BY DEF Acyclic
<1>1. n \notin S
  BY DEF Stuck
<1>2. Stuck(E, S)
  BY <1>1 DEF Stuck
<1>3. QED
  BY <1>2 DEF Acyclic

\* Nor do edges of new jobs, if each waits for older ones only.
LEMMA NewWave ==
    ASSUME NEW E, NEW F \in SUBSET Pairs, NEW N \in SUBSET Ids, Acyclic(E),
           \A p \in F : p[1] \notin N => p \in E /\ p[2] \notin N,
           \A p \in F : p[1] \in N /\ p[2] \in N => p[2] < p[1]
    PROVE  Acyclic(F)
<1> SUFFICES ASSUME NEW S \in SUBSET Ids, Stuck(F, S) PROVE FALSE
  BY DEF Acyclic
<1>1. CASE S \ N # {}
  <2>1. \A j \in S \ N : \E k \in S \ N : <<j, k>> \in E
    <3> TAKE j \in S \ N
    <3>1. PICK k \in S : <<j, k>> \in F
      BY DEF Stuck
    <3>2. <<j, k>> \in E /\ k \notin N
      BY <3>1
    <3>3. QED
      BY <3>2
  <2>2. S \ N \in SUBSET Ids /\ Stuck(E, S \ N)
    BY <1>1, <2>1 DEF Stuck
  <2>3. QED
    BY <2>2 DEF Acyclic
<1>2. CASE S \ N = {}
  <2>1. S \in SUBSET Nat /\ S # {} /\ S \subseteq N
    BY <1>2 DEF Stuck, Ids
  <2>2. PICK x \in S : \A y \in S : ~(y < x)
    BY <2>1, SetHasMinimum
  <2>3. PICK k \in S : <<x, k>> \in F
    BY DEF Stuck
  <2>4. k < x
    BY <2>1, <2>3
  <2>5. QED
    BY <2>2, <2>4
<1>3. QED
  BY <1>1, <1>2

-----------------------------------------------------------------------------
(* Edges *)

Graphs == [Pairs -> Provenance]

LEMMA WithEdges ==
    ASSUME NEW e \in Graphs, NEW E \in SUBSET Pairs, NEW v \in Provenance \ {"none"}
    PROVE  With(e, E, v) \in Graphs /\ Edges(With(e, E, v)) = Edges(e) \union E
<1>1. \A u \in Provenance : Stronger(u, v) \in Provenance \ {"none"}
  BY DEF Stronger, Provenance
<1>2. QED
  BY <1>1 DEF With, Edges, Graphs

LEMMA WithoutEdges ==
    ASSUME NEW e \in Graphs, NEW E \in SUBSET Pairs
    PROVE  Without(e, E) \in Graphs /\ Edges(Without(e, E)) = Edges(e) \ E
  BY DEF Without, Edges, Graphs, Provenance

LEMMA MinimizedEdges ==
    ASSUME NEW e \in Graphs
    PROVE  Minimized(e) \in Graphs /\ Edges(Minimized(e)) \subseteq Edges(e)
<1>1. Overlapping(e) \in Graphs /\ Edges(Overlapping(e)) \subseteq Edges(e)
  BY DEF Overlapping, Edges, Graphs, Provenance
<1>2. \A o \in Graphs :
        LET f == [p \in Pairs |-> IF o[p] = "auto" /\ Redundant(o, p) THEN "none" ELSE o[p]]
        IN  f \in Graphs /\ Edges(f) \subseteq Edges(o)
  BY DEF Edges, Graphs, Provenance
<1>3. QED
  BY <1>1, <1>2 DEF Minimized

\* What a wave asks for.
LEMMA ProposedEdges ==
    ASSUME NEW d, NEW pos
    PROVE  Proposed(d, pos) \in Graphs
  BY DEF Proposed, Graphs, Provenance

\* Moving the dependents of j gives edges to the terminal children only.
LEMMA FannedOutEdges ==
    ASSUME edge \in Graphs, NEW j \in Ids, NEW C \in SUBSET Ids
    PROVE  /\ FannedOut(j, C) \in Graphs
           /\ \A p \in Edges(FannedOut(j, C)) :
                 p \in Edges(edge) \/ (p[2] \in C /\ <<p[1], j>> \in Edges(edge))
<1>1. \A u, v \in Provenance \ {"none"} : Stronger(u, v) \in Provenance \ {"none"}
  BY DEF Stronger, Provenance
<1>2. \A p \in Pairs : <<p[1], j>> \in Pairs
  BY DEF Pairs
<1>3. Terminal(C) \subseteq C
  BY DEF Terminal
<1> DEFINE f == FannedOut(j, C)
<1>4. ASSUME NEW p \in Pairs
      PROVE  /\ f[p] \in Provenance
             /\ f[p] # "none" => edge[p] # "none" \/ (p[2] \in C /\ edge[<<p[1], j>>] # "none")
  <2>1. CASE p[2] = j
    BY <2>1 DEF FannedOut, Provenance
  <2>2. CASE p[2] # j /\ p[2] \in Terminal(C) /\ edge[<<p[1], j>>] # "none"
    <3>1. f[p] = IF edge[p] = "none" THEN edge[<<p[1], j>>]
                 ELSE Stronger(edge[p], edge[<<p[1], j>>])
      BY <2>2 DEF FannedOut
    <3>2. edge[p] \in Provenance /\ edge[<<p[1], j>>] \in Provenance
      BY <1>2 DEF Graphs
    <3>3. QED
      BY <1>1, <1>3, <2>2, <3>1, <3>2
  <2>3. CASE ~(p[2] = j) /\ ~(p[2] # j /\ p[2] \in Terminal(C) /\ edge[<<p[1], j>>] # "none")
    <3>1. f[p] = edge[p]
      BY <2>3 DEF FannedOut
    <3>2. QED
      BY <3>1 DEF Graphs
  <2>4. QED
    BY <2>1, <2>2, <2>3
<1>5. f \in Graphs
  BY <1>4 DEF FannedOut, Graphs
<1>6. QED
  BY <1>2, <1>4, <1>5 DEF Edges

LEMMA FewOfPairs ==
    ASSUME NEW S, NEW n, NEW D \in Few(S, n)
    PROVE  D \subseteq S
<1>1. D = {} \/ \E f \in [1..n -> S] : D = {f[i] : i \in 1..n}
  BY DEF Few
<1>2. QED
  BY <1>1

-----------------------------------------------------------------------------
(* Types *)

\* Rows of jobs.
RowsOK ==
    /\ made \in 0..MaxJobs
    /\ status \in [Ids -> Statuses]
    /\ \A j \in Ids : status[j] = "absent" <=> j > made
    /\ resolved \subseteq 1..made /\ split \subseteq 1..made

\* Edges.
EdgesOK ==
    /\ edge \in Graphs
    /\ \A p \in Edges(edge) : p[1] <= made /\ p[2] <= made

\* What operations in progress remember.
MemosOK ==
    /\ kids \in [Ids -> SUBSET (1..made)] /\ parts \in [Ids -> SUBSET (1..made)]
    /\ choice \in [Ids -> 0..made] /\ fixes \in [Ids -> 0..made]
    /\ \A j \in Ids : choice[j] # 0 => j <= made

\* The rest.
LogsOK ==
    /\ surveyed \subseteq Pairs /\ owed \subseteq Pairs
    /\ janitor \in {"idle", "reconciled"}
    /\ troubles \in 0..MaxTroubles
    /\ oddities \subseteq Oddities

LEMMA TypeParts == GraphTypeOK <=> RowsOK /\ EdgesOK /\ MemosOK /\ LogsOK
  BY DEF GraphTypeOK, RowsOK, EdgesOK, MemosOK, LogsOK, Edges, Graphs

\* Jobs are numbered.
LEMMA Numbered ==
    ASSUME made \in 0..MaxJobs
    PROVE  /\ 1..made \subseteq Ids
           /\ \A n \in Nat : made + n <= MaxJobs => 1..(made + n) \subseteq Ids /\ 1..made \subseteq 1..(made + n)
           /\ MaxJobs \in Nat /\ Ids \subseteq Nat /\ Pairs = Ids \X Ids
  BY GraphAssumption DEF Ids, Pairs

\* A job more.
LEMMA OneMore ==
    ASSUME RowsOK, Room(1), made' = made + 1,
           status' = [status EXCEPT ![made + 1] = "pending"],
           resolved' = resolved, split' = split
    PROVE  RowsOK'
<1>1. made + 1 \in Ids /\ made \in Nat /\ made + 1 <= MaxJobs
  BY GraphAssumption DEF RowsOK, Room, Ids
<1>2. \A i \in Ids : status'[i] = IF i = made + 1 THEN "pending" ELSE status[i]
  BY DEF RowsOK
<1>3. status' \in [Ids -> Statuses]
  BY <1>1 DEF RowsOK, Statuses, Active
<1>4. \A i \in Ids : status'[i] = "absent" <=> i > made'
  BY <1>1, <1>2 DEF RowsOK, Ids
<1>5. QED
  BY <1>1, <1>3, <1>4 DEF RowsOK

\* A job that exists gets another status.
LEMMA OtherStatus ==
    ASSUME RowsOK, NEW i \in Ids, status[i] # "absent", NEW s \in Statuses \ {"absent"},
           made' = made, status' = [status EXCEPT ![i] = s],
           resolved' \subseteq resolved \union {i}, split' \subseteq split \union {i}
    PROVE  RowsOK'
<1>1. i \in 1..made
  BY GraphAssumption DEF RowsOK, Ids
<1>2. \A k \in Ids : status'[k] = IF k = i THEN s ELSE status[k]
  BY DEF RowsOK
<1>3. status' \in [Ids -> Statuses]
  BY DEF RowsOK
<1>4. \A k \in Ids : status'[k] = "absent" <=> k > made'
  BY <1>2 DEF RowsOK
<1>5. QED
  BY <1>1, <1>3, <1>4 DEF RowsOK

\* The first job more is for an incident.
LEMMA OneFixMore ==
    ASSUME RowsOK, MemosOK, Room(1), made' = made + 1, NEW i \in 1..made,
           fixes' = [fixes EXCEPT ![made + 1] = i],
           kids' = kids, parts' = parts, choice' = choice
    PROVE  MemosOK'
<1>1. made \in Nat /\ 0..made \subseteq 0..made' /\ 1..made \subseteq 1..made' /\ i \in 0..made'
  BY GraphAssumption DEF RowsOK
<1>2. fixes' \in [Ids -> 0..made']
  BY <1>1 DEF MemosOK
<1>3. choice' \in [Ids -> 0..made'] /\ \A j \in Ids : choice'[j] # 0 => j <= made'
  BY <1>1 DEF MemosOK, Ids
<1>4. kids' \in [Ids -> SUBSET (1..made')] /\ parts' \in [Ids -> SUBSET (1..made')]
  BY <1>1 DEF MemosOK
<1>5. QED
  BY <1>2, <1>3, <1>4 DEF MemosOK

\* Sets of pairs.
LEMMA PairSets ==
    /\ \A e : Owes(e) \subseteq Pairs
    /\ \A S, T \in SUBSET Ids : S \X T \subseteq Pairs
  BY DEF Owes, Edges, Pairs

LEMMA GraphTypeInit == GraphInit => GraphTypeOK
<1> SUFFICES ASSUME GraphInit PROVE GraphTypeOK
  OBVIOUS
<1>1. RowsOK
  BY GraphAssumption DEF GraphInit, RowsOK, Ids, Statuses, Active
<1>2. EdgesOK
  BY DEF GraphInit, EdgesOK, Graphs, Edges, Provenance
<1>3. MemosOK
  BY DEF GraphInit, MemosOK
<1>4. LogsOK
  BY GraphAssumption DEF GraphInit, LogsOK
<1>5. QED
  BY <1>1, <1>2, <1>3, <1>4, TypeParts

LEMMA RowsStep == GraphTypeOK /\ [GraphNext]_graphVars => RowsOK'
<1> SUFFICES ASSUME GraphTypeOK, [GraphNext]_graphVars PROVE RowsOK'
  OBVIOUS
<1>0. [GraphNext]_graphVars /\ RowsOK /\ EdgesOK /\ MemosOK /\ LogsOK
  BY TypeParts
<1>1. /\ made \in Nat /\ 1..made \subseteq Ids /\ Ids \subseteq Nat /\ MaxJobs \in Nat
      /\ Pairs = Ids \X Ids
  BY <1>0, Numbered DEF RowsOK
<1>2. QED
  <2>1. ASSUME NEW D \in SUBSET Ids, Creates(D) PROVE RowsOK'
    BY <2>1, <1>0, OneMore DEF Creates, rows, splitting, metas
  <2>2. ASSUME SomeWave PROVE RowsOK'
    <3>1. PICK n, old, pos, declared :
              n \in 1..3 /\ old \in Few(1..made, 1) /\ CreatesWave(n, old, declared, pos)
      BY <2>2 DEF SomeWave
    <3>2. n \in Nat /\ made + n <= MaxJobs
      BY <3>1 DEF CreatesWave, Room
    <3>3. QED
      BY <3>1, <3>2, <1>0, <1>1 DEF CreatesWave, splitting, metas, RowsOK, Statuses, Active, Ids
  <2>3. ASSUME NEW a \in Ids, NEW b \in Ids, Adds(a, b) PROVE RowsOK'
    BY <2>3, <1>0, <1>1, GraphAssumption
       DEF Adds, Edits, Waits, Trouble, RowsOK, Statuses, Active, rows, splitting, metas, ghosts
  <2>4. ASSUME NEW a \in Ids, NEW b \in Ids, Removes(a, b) PROVE RowsOK'
    BY <2>4, <1>0, <1>1, GraphAssumption
       DEF Removes, Trouble, Edits, RowsOK, Statuses, Active, rows, splitting, metas, ghosts
  <2>5. ASSUME NEW j \in Ids, NEW D \in SUBSET Ids, FixesForward(j, D) PROVE RowsOK'
    BY <2>5, <1>0, OneMore DEF FixesForward, rows, splitting, metas
  <2>6. ASSUME NEW j \in Ids, NEW D \in SUBSET Ids, Remediates(j, D) PROVE RowsOK'
    BY <2>6, <1>0, OneMore DEF Remediates, Surveyed, rows, splitting, metas
  <2>7. ASSUME NEW j \in Ids, NEW r \in Ids, BaselineChooses(j, r) PROVE RowsOK'
    BY <2>7, <1>0, <1>1, GraphAssumption
       DEF BaselineChooses, Trouble, RowsOK, Statuses, Active, rows, splitting, metas, ghosts
  <2>8. ASSUME NEW j \in Ids, BaselineBlocks(j) PROVE RowsOK'
    <3>1. status[j] # "absent"
      BY <2>8, <1>0, <1>1 DEF BaselineBlocks, RowsOK, MemosOK
    <3>2. QED
      BY <2>8, <3>1, <1>0, OtherStatus DEF BaselineBlocks, RowsOK, Statuses, Active, splitting, metas
  <2>9. ASSUME NEW j \in Ids, NEW D \in SUBSET Ids, CreatesChild(j, D) PROVE RowsOK'
    BY <2>9, <1>0, OneMore DEF CreatesChild, rows, splitting, metas
  <2>10. ASSUME NEW j \in Ids, Hands(j) PROVE RowsOK'
    BY <2>10, <1>0, <1>1, GraphAssumption
       DEF Hands, Repoints, RowsOK, Statuses, Active, rows, splitting, metas, ghosts
  <2>11. ASSUME NEW j \in Ids, Supersedes(j) PROVE RowsOK'
    <3>1. status[j] # "absent"
      BY <2>11, <1>0 DEF Supersedes, Active, RowsOK, MemosOK
    <3>2. QED
      BY <2>11, <3>1, <1>0, OtherStatus DEF Supersedes, RowsOK, Statuses, Active, rows, splitting, metas
  <2>12. ASSUME NEW j \in Ids, Dies(j) PROVE RowsOK'
    BY <2>12, <1>0, <1>1, GraphAssumption
       DEF Dies, Trouble, RowsOK, Statuses, Active, rows, splitting, metas, ghosts
  <2>13. ASSUME NEW j \in Ids, RepointsOrphans(j) PROVE RowsOK'
    BY <2>13, <1>0, <1>1, GraphAssumption
       DEF RepointsOrphans, Repoints, RowsOK, Statuses, Active, rows, splitting, metas, ghosts
  <2>14. ASSUME NEW j \in Ids, Claims(j) PROVE RowsOK'
    BY <2>14, <1>0, <1>1, GraphAssumption
       DEF Claims, RowsOK, Statuses, Active, rows, splitting, metas, ghosts
  <2>15. ASSUME NEW j \in Ids, Ends(j) PROVE RowsOK'
    BY <2>15, <1>0, <1>1, GraphAssumption
       DEF Ends, Trouble, RowsOK, Statuses, Active, rows, splitting, metas, ghosts
  <2>16. ASSUME NEW j \in Ids, Cancels(j) PROVE RowsOK'
    BY <2>16, <1>0, <1>1, GraphAssumption
       DEF Cancels, Trouble, RowsOK, Statuses, Active, rows, splitting, metas, ghosts
  <2>17. ASSUME NEW j \in Ids, Revives(j) PROVE RowsOK'
    BY <2>17, <1>0, <1>1, GraphAssumption
       DEF Revives, RowsOK, Statuses, Active, rows, splitting, metas, ghosts
  <2>18. ASSUME NEW j \in Ids, BlocksDependent(j) PROVE RowsOK'
    BY <2>18, <1>0, <1>1, GraphAssumption
       DEF BlocksDependent, RowsOK, Statuses, Active, rows, splitting, metas, ghosts
  <2>19. ASSUME NEW j \in Ids, Resolves(j) PROVE RowsOK'
    <3>1. status[j] # "absent" /\ j \in 1..made
      BY <2>19, <1>0, <1>1 DEF Resolves, RowsOK, Ids
    <3>2. QED
      BY <2>19, <3>1, <1>0 DEF Resolves, RowsOK
  <2>20. ASSUME Reconciles PROVE RowsOK'
    BY <2>20, <1>0, <1>1, GraphAssumption
       DEF Reconciles, RowsOK, Statuses, Active, rows, splitting, metas, ghosts
  <2>21. ASSUME NEW p \in Pairs, Repairs(p) PROVE RowsOK'
    BY <2>21, <1>0, <1>1, GraphAssumption
       DEF Repairs, Edits, RowsOK, Statuses, Active, rows, splitting, metas, ghosts
  <2>22. ASSUME EndsScan PROVE RowsOK'
    BY <2>22, <1>0, <1>1, GraphAssumption
       DEF EndsScan, RowsOK, Statuses, Active, rows, splitting, metas, ghosts
  <2>23. ASSUME UNCHANGED graphVars PROVE RowsOK'
    BY <2>23, <1>0, <1>1, GraphAssumption
       DEF graphVars, RowsOK, Statuses, Active, rows, splitting, metas, ghosts
  <2>24. QED
    BY <1>0, <2>1, <2>2, <2>3, <2>4, <2>5, <2>6, <2>7, <2>8, <2>9, <2>10, <2>11, <2>12, <2>13, <2>14, <2>15, <2>16, <2>17, <2>18, <2>19, <2>20, <2>21, <2>22, <2>23
       DEF GraphNext

LEMMA MemosStep == GraphTypeOK /\ [GraphNext]_graphVars => MemosOK'
<1> SUFFICES ASSUME GraphTypeOK, [GraphNext]_graphVars PROVE MemosOK'
  OBVIOUS
<1>0. [GraphNext]_graphVars /\ RowsOK /\ EdgesOK /\ MemosOK /\ LogsOK
  BY TypeParts
<1>1. /\ made \in Nat /\ 1..made \subseteq Ids /\ Ids \subseteq Nat /\ MaxJobs \in Nat
      /\ Pairs = Ids \X Ids
  BY <1>0, Numbered DEF RowsOK
<1>2. QED
  <2>1. ASSUME NEW D \in SUBSET Ids, Creates(D) PROVE MemosOK'
    BY <2>1, <1>0, <1>1
       DEF Creates, Room, Edits, MemosOK, RowsOK, rows, splitting, metas, ghosts, Active, Statuses
  <2>2. ASSUME SomeWave PROVE MemosOK'
    <3>1. PICK n, old, pos, declared :
              n \in 1..3 /\ old \in Few(1..made, 1) /\ CreatesWave(n, old, declared, pos)
      BY <2>2 DEF SomeWave
    <3>2. n \in Nat /\ made + n <= MaxJobs
      BY <3>1 DEF CreatesWave, Room
    <3>3. /\ made \in Nat /\ made <= made' /\ made' = made + n
          /\ kids' = kids /\ parts' = parts /\ choice' = choice /\ fixes' = fixes
      BY <3>1, <3>2, <1>1 DEF CreatesWave, splitting, metas
    <3>4. (1..made) \subseteq (1..made') /\ (0..made) \subseteq (0..made')
      BY <3>2, <3>3
    <3>5. QED
      BY <3>3, <3>4, <1>0, <1>1 DEF MemosOK
  <2>3. ASSUME NEW a \in Ids, NEW b \in Ids, Adds(a, b) PROVE MemosOK'
    BY <2>3, <1>0, <1>1
       DEF Adds, Edits, Waits, Trouble, MemosOK, RowsOK, rows, splitting, metas, ghosts, Active, Statuses
  <2>4. ASSUME NEW a \in Ids, NEW b \in Ids, Removes(a, b) PROVE MemosOK'
    BY <2>4, <1>0, <1>1
       DEF Removes, Trouble, Edits, MemosOK, RowsOK, rows, splitting, metas, ghosts, Active, Statuses
  <2>5. ASSUME NEW j \in Ids, NEW D \in SUBSET Ids, FixesForward(j, D) PROVE MemosOK'
    <3>1. j \in 1..made
      BY <2>5, <1>0, <1>1 DEF FixesForward
    <3>2. QED
      BY <2>5, <3>1, <1>0, OneFixMore DEF FixesForward, splitting
  <2>6. ASSUME NEW j \in Ids, NEW D \in SUBSET Ids, Remediates(j, D) PROVE MemosOK'
    <3>1. j \in 1..made
      BY <2>6, <1>0, <1>1 DEF Remediates, Surveyed, RowsOK, Ids
    <3>2. QED
      BY <2>6, <3>1, <1>0, OneFixMore DEF Remediates, Surveyed, splitting
  <2>7. ASSUME NEW j \in Ids, NEW r \in Ids, BaselineChooses(j, r) PROVE MemosOK'
    BY <2>7, <1>0, <1>1
       DEF BaselineChooses, Trouble, MemosOK, RowsOK, rows, splitting, metas, ghosts, Active, Statuses
  <2>8. ASSUME NEW j \in Ids, BaselineBlocks(j) PROVE MemosOK'
    BY <2>8, <1>0, <1>1
       DEF BaselineBlocks, Edits, MemosOK, RowsOK, rows, splitting, metas, ghosts, Active, Statuses
  <2>9. ASSUME NEW j \in Ids, NEW D \in SUBSET Ids, CreatesChild(j, D) PROVE MemosOK'
    BY <2>9, <1>0, <1>1
       DEF CreatesChild, Room, Edits, MemosOK, RowsOK, rows, splitting, metas, ghosts, Active, Statuses
  <2>10. ASSUME NEW j \in Ids, Hands(j) PROVE MemosOK'
    BY <2>10, <1>0, <1>1
       DEF Hands, Repoints, MemosOK, RowsOK, rows, splitting, metas, ghosts, Active, Statuses
  <2>11. ASSUME NEW j \in Ids, Supersedes(j) PROVE MemosOK'
    BY <2>11, <1>0, <1>1
       DEF Supersedes, MemosOK, RowsOK, rows, splitting, metas, ghosts, Active, Statuses
  <2>12. ASSUME NEW j \in Ids, Dies(j) PROVE MemosOK'
    BY <2>12, <1>0, <1>1
       DEF Dies, Trouble, MemosOK, RowsOK, rows, splitting, metas, ghosts, Active, Statuses
  <2>13. ASSUME NEW j \in Ids, RepointsOrphans(j) PROVE MemosOK'
    BY <2>13, <1>0, <1>1
       DEF RepointsOrphans, Repoints, MemosOK, RowsOK, rows, splitting, metas, ghosts, Active, Statuses
  <2>14. ASSUME NEW j \in Ids, Claims(j) PROVE MemosOK'
    BY <2>14, <1>0, <1>1
       DEF Claims, MemosOK, RowsOK, rows, splitting, metas, ghosts, Active, Statuses
  <2>15. ASSUME NEW j \in Ids, Ends(j) PROVE MemosOK'
    BY <2>15, <1>0, <1>1
       DEF Ends, Trouble, MemosOK, RowsOK, rows, splitting, metas, ghosts, Active, Statuses
  <2>16. ASSUME NEW j \in Ids, Cancels(j) PROVE MemosOK'
    BY <2>16, <1>0, <1>1
       DEF Cancels, Trouble, MemosOK, RowsOK, rows, splitting, metas, ghosts, Active, Statuses
  <2>17. ASSUME NEW j \in Ids, Revives(j) PROVE MemosOK'
    BY <2>17, <1>0, <1>1
       DEF Revives, MemosOK, RowsOK, rows, splitting, metas, ghosts, Active, Statuses
  <2>18. ASSUME NEW j \in Ids, BlocksDependent(j) PROVE MemosOK'
    BY <2>18, <1>0, <1>1
       DEF BlocksDependent, MemosOK, RowsOK, rows, splitting, metas, ghosts, Active, Statuses
  <2>19. ASSUME NEW j \in Ids, Resolves(j) PROVE MemosOK'
    BY <2>19, <1>0, <1>1
       DEF Resolves, Trouble, MemosOK, RowsOK, rows, splitting, metas, ghosts, Active, Statuses
  <2>20. ASSUME Reconciles PROVE MemosOK'
    BY <2>20, <1>0, <1>1
       DEF Reconciles, MemosOK, RowsOK, rows, splitting, metas, ghosts, Active, Statuses
  <2>21. ASSUME NEW p \in Pairs, Repairs(p) PROVE MemosOK'
    BY <2>21, <1>0, <1>1
       DEF Repairs, Edits, MemosOK, RowsOK, rows, splitting, metas, ghosts, Active, Statuses
  <2>22. ASSUME EndsScan PROVE MemosOK'
    BY <2>22, <1>0, <1>1
       DEF EndsScan, MemosOK, RowsOK, rows, splitting, metas, ghosts, Active, Statuses
  <2>23. ASSUME UNCHANGED graphVars PROVE MemosOK'
    BY <2>23, <1>0, <1>1
       DEF graphVars, MemosOK, RowsOK, rows, splitting, metas, ghosts, Active, Statuses
  <2>24. QED
    BY <1>0, <2>1, <2>2, <2>3, <2>4, <2>5, <2>6, <2>7, <2>8, <2>9, <2>10, <2>11, <2>12, <2>13, <2>14, <2>15, <2>16, <2>17, <2>18, <2>19, <2>20, <2>21, <2>22, <2>23
       DEF GraphNext

LEMMA LogsPairs ==
    ASSUME RowsOK, LogsOK, EdgesOK
    PROVE  /\ \A n \in Ids : \A S \in SUBSET Ids : {n} \X S \subseteq Pairs /\ S \X {n} \subseteq Pairs
           /\ Room(1) => made + 1 \in Ids
           /\ made \in Nat /\ 1..made \subseteq Ids
           /\ \A e : Owes(e) \subseteq Pairs
<1>1. made \in Nat /\ MaxJobs \in Nat /\ (Room(1) => made + 1 \in Ids) /\ 1..made \subseteq Ids
  BY GraphAssumption DEF RowsOK, Room, Ids
<1>2. \A n \in Ids : {n} \in SUBSET Ids
  OBVIOUS
<1>3. QED
  BY <1>1, <1>2, PairSets

LEMMA LogsStep == GraphTypeOK /\ [GraphNext]_graphVars => LogsOK'
<1> SUFFICES ASSUME GraphTypeOK, [GraphNext]_graphVars PROVE LogsOK'
  OBVIOUS
<1>0. [GraphNext]_graphVars /\ RowsOK /\ EdgesOK /\ MemosOK /\ LogsOK
  BY TypeParts
<1>1. /\ made \in Nat /\ 1..made \subseteq Ids /\ Ids \subseteq Nat /\ MaxJobs \in Nat
      /\ Pairs = Ids \X Ids
  BY <1>0, Numbered DEF RowsOK
<1>2. QED
  <2>1. ASSUME NEW D \in SUBSET Ids, Creates(D) PROVE LogsOK'
    BY <2>1, <1>0, <1>1, GraphAssumption, LogsPairs
       DEF Creates, Edits, LogsOK, rows, splitting, metas, ghosts, Oddities
  <2>2. ASSUME SomeWave PROVE LogsOK'
    <3>1. PICK n, old, pos, declared :
              n \in 1..3 /\ old \in Few(1..made, 1) /\ CreatesWave(n, old, declared, pos)
      BY <2>2 DEF SomeWave
    <3>2. n \in Nat /\ made + n <= MaxJobs
      BY <3>1 DEF CreatesWave, Room
    <3>3. owed' \subseteq Pairs
      BY <3>1, <1>0 DEF CreatesWave, LogsOK, Edges
    <3>4. QED
      BY <3>1, <3>3, <1>0, GraphAssumption DEF CreatesWave, LogsOK, metas, Oddities, Trouble
  <2>3. ASSUME NEW a \in Ids, NEW b \in Ids, Adds(a, b) PROVE LogsOK'
    BY <2>3, <1>0, <1>1, GraphAssumption, LogsPairs
       DEF Adds, Edits, Waits, Trouble, LogsOK, rows, splitting, metas, ghosts, Oddities
  <2>4. ASSUME NEW a \in Ids, NEW b \in Ids, Removes(a, b) PROVE LogsOK'
    BY <2>4, <1>0, <1>1, GraphAssumption, LogsPairs
       DEF Removes, Trouble, Edits, LogsOK, rows, splitting, metas, ghosts, Oddities
  <2>5. ASSUME NEW j \in Ids, NEW D \in SUBSET Ids, FixesForward(j, D) PROVE LogsOK'
    BY <2>5, <1>0, <1>1, GraphAssumption, LogsPairs
       DEF FixesForward, Trouble, LogsOK, rows, splitting, metas, ghosts, Oddities
  <2>6. ASSUME NEW j \in Ids, NEW D \in SUBSET Ids, Remediates(j, D) PROVE LogsOK'
    BY <2>6, <1>0, <1>1, GraphAssumption, LogsPairs
       DEF Remediates, Surveyed, LogsOK, rows, splitting, metas, ghosts, Oddities
  <2>7. ASSUME NEW j \in Ids, NEW r \in Ids, BaselineChooses(j, r) PROVE LogsOK'
    BY <2>7, <1>0, <1>1, GraphAssumption, LogsPairs
       DEF BaselineChooses, Trouble, Active, LogsOK, rows, splitting, metas, ghosts, Oddities
  <2>8. ASSUME NEW j \in Ids, BaselineBlocks(j) PROVE LogsOK'
    BY <2>8, <1>0, <1>1, GraphAssumption, LogsPairs
       DEF BaselineBlocks, Edits, LogsOK, rows, splitting, metas, ghosts, Oddities
  <2>9. ASSUME NEW j \in Ids, NEW D \in SUBSET Ids, CreatesChild(j, D) PROVE LogsOK'
    BY <2>9, <1>0, <1>1, GraphAssumption, LogsPairs
       DEF CreatesChild, Edits, LogsOK, rows, splitting, metas, ghosts, Oddities
  <2>10. ASSUME NEW j \in Ids, Hands(j) PROVE LogsOK'
    <3>1. Dependents(j) \in SUBSET Ids /\ kids[j] \in SUBSET Ids
      BY <1>0, <1>1 DEF Dependents, MemosOK
    <3>2. owed' \subseteq Pairs
      BY <2>10, <3>1, <1>0, PairSets DEF Hands, Repoints, LogsOK
    <3>3. QED
      BY <2>10, <3>2, <1>0 DEF Hands, LogsOK, rows, splitting, metas
  <2>11. ASSUME NEW j \in Ids, Supersedes(j) PROVE LogsOK'
    BY <2>11, <1>0, <1>1, GraphAssumption, LogsPairs
       DEF Supersedes, LogsOK, rows, splitting, metas, ghosts, Oddities
  <2>12. ASSUME NEW j \in Ids, Dies(j) PROVE LogsOK'
    BY <2>12, <1>0, <1>1, GraphAssumption, LogsPairs
       DEF Dies, Trouble, LogsOK, rows, splitting, metas, ghosts, Oddities
  <2>13. ASSUME NEW j \in Ids, RepointsOrphans(j) PROVE LogsOK'
    <3>1. Dependents(j) \in SUBSET Ids /\ parts[j] \in SUBSET Ids
      BY <1>0, <1>1 DEF Dependents, MemosOK
    <3>2. owed' \subseteq Pairs
      BY <2>13, <3>1, <1>0, PairSets DEF RepointsOrphans, Repoints, LogsOK
    <3>3. QED
      BY <2>13, <3>2, <1>0 DEF RepointsOrphans, LogsOK, rows, splitting, metas
  <2>14. ASSUME NEW j \in Ids, Claims(j) PROVE LogsOK'
    BY <2>14, <1>0, <1>1, GraphAssumption, LogsPairs
       DEF Claims, LogsOK, rows, splitting, metas, ghosts, Oddities
  <2>15. ASSUME NEW j \in Ids, Ends(j) PROVE LogsOK'
    BY <2>15, <1>0, <1>1, GraphAssumption, LogsPairs
       DEF Ends, Trouble, LogsOK, rows, splitting, metas, ghosts, Oddities
  <2>16. ASSUME NEW j \in Ids, Cancels(j) PROVE LogsOK'
    BY <2>16, <1>0, <1>1, GraphAssumption, LogsPairs
       DEF Cancels, Active, Trouble, LogsOK, rows, splitting, metas, ghosts, Oddities
  <2>17. ASSUME NEW j \in Ids, Revives(j) PROVE LogsOK'
    BY <2>17, <1>0, <1>1, GraphAssumption, LogsPairs
       DEF Revives, LogsOK, rows, splitting, metas, ghosts, Oddities
  <2>18. ASSUME NEW j \in Ids, BlocksDependent(j) PROVE LogsOK'
    BY <2>18, <1>0, <1>1, GraphAssumption, LogsPairs
       DEF BlocksDependent, LogsOK, rows, splitting, metas, ghosts, Oddities
  <2>19. ASSUME NEW j \in Ids, Resolves(j) PROVE LogsOK'
    BY <2>19, <1>0, <1>1, GraphAssumption, LogsPairs
       DEF Resolves, Trouble, LogsOK, rows, splitting, metas, ghosts, Oddities
  <2>20. ASSUME Reconciles PROVE LogsOK'
    BY <2>20, <1>0, <1>1, GraphAssumption, LogsPairs
       DEF Reconciles, LogsOK, rows, splitting, metas, ghosts, Oddities
  <2>21. ASSUME NEW p \in Pairs, Repairs(p) PROVE LogsOK'
    BY <2>21, <1>0, <1>1, GraphAssumption, LogsPairs
       DEF Repairs, Edits, LogsOK, rows, splitting, metas, ghosts, Oddities
  <2>22. ASSUME EndsScan PROVE LogsOK'
    BY <2>22, <1>0, <1>1, GraphAssumption, LogsPairs
       DEF EndsScan, LogsOK, rows, splitting, metas, ghosts, Oddities
  <2>23. ASSUME UNCHANGED graphVars PROVE LogsOK'
    BY <2>23, <1>0, <1>1, GraphAssumption, LogsPairs
       DEF graphVars, LogsOK, rows, splitting, metas, ghosts, Oddities
  <2>24. QED
    BY <1>0, <2>1, <2>2, <2>3, <2>4, <2>5, <2>6, <2>7, <2>8, <2>9, <2>10, <2>11, <2>12, <2>13, <2>14, <2>15, <2>16, <2>17, <2>18, <2>19, <2>20, <2>21, <2>22, <2>23
       DEF GraphNext

LEMMA ProductBelow ==
    ASSUME NEW n, NEW S, NEW T, \A s \in S : s <= n, \A t \in T : t <= n
    PROVE  \A p \in S \X T : p[1] <= n /\ p[2] <= n
  OBVIOUS

\* More edges, to and from a job that is new.
LEMMA Bigger ==
    ASSUME EdgesOK, made \in Nat, made' = made + 1, edge' \in Graphs, NEW E,
           Edges(edge') \subseteq Edges(edge) \union E,
           \A p \in E : p[1] <= made + 1 /\ p[2] <= made + 1,
           Pairs = Ids \X Ids, Ids \subseteq Nat
    PROVE  EdgesOK'
<1>1. \A p \in Edges(edge) : p[1] \in Nat /\ p[2] \in Nat
  BY DEF Edges
<1>2. \A p \in Edges(edge) : p[1] <= made + 1 /\ p[2] <= made + 1
  BY <1>1 DEF EdgesOK
<1>3. QED
  BY <1>2 DEF EdgesOK

LEMMA EdgesStep == GraphTypeOK /\ [GraphNext]_graphVars => EdgesOK'
<1> SUFFICES ASSUME GraphTypeOK, [GraphNext]_graphVars PROVE EdgesOK'
  OBVIOUS
<1>0. [GraphNext]_graphVars /\ RowsOK /\ EdgesOK /\ MemosOK /\ LogsOK
  BY TypeParts
<1>1. /\ made \in Nat /\ 1..made \subseteq Ids /\ Ids \subseteq Nat /\ MaxJobs \in Nat
      /\ Pairs = Ids \X Ids
  BY <1>0, Numbered DEF RowsOK
<1>2. QED
  <2>1. ASSUME NEW D \in SUBSET Ids, Creates(D) PROVE EdgesOK'
    <3>1. made' = made + 1 /\ made + 1 \in Ids
      BY <2>1, <1>0, LogsPairs DEF Creates
    <3>2. {made + 1} \X D \in SUBSET Pairs /\ \A p \in {made + 1} \X D : p[1] <= made + 1 /\ p[2] <= made + 1
      <4>1. D \subseteq 1..made
        BY <2>1 DEF Creates
      <4>2. \A d \in D : d <= made + 1
        BY <4>1, <1>1
      <4>3. \A d \in {made + 1} : d <= made + 1
        BY <1>1
      <4>4. {made + 1} \in SUBSET Ids /\ D \in SUBSET Ids
        BY <3>1, <4>1, <1>1
      <4>5. QED
        BY <4>2, <4>3, <4>4, ProductBelow, PairSets
    <3>3. edge' \in Graphs /\ Edges(edge') = Edges(edge) \union ({made + 1} \X D)
      BY <2>1, <3>2, <1>0, WithEdges DEF Creates, Edits, EdgesOK, Provenance
    <3>4. QED
      BY <3>1, <3>2, <3>3, <1>0, <1>1, Bigger
  <2>2. ASSUME SomeWave PROVE EdgesOK'
    <3>1. PICK n \in 1..3, old \in Few(1..made, 1) :
              LET nodes == (made + 1..made + n) \union old
              IN  \E pos \in Orders(nodes), declared \in Few(nodes \X nodes, MaxDeclared) :
                      CreatesWave(n, old, declared, pos)
      BY <2>2 DEF SomeWave
    <3> DEFINE nodes == (made + 1..made + n) \union old
    <3>2. PICK pos \in Orders(nodes), declared \in Few(nodes \X nodes, MaxDeclared) :
              CreatesWave(n, old, declared, pos)
      BY <3>1
    <3>3. n \in Nat /\ made' = made + n /\ made + n <= MaxJobs
      BY <3>2 DEF CreatesWave, Room
    <3>4. \A k \in nodes : k <= made + n
      <4>1. old \subseteq 1..made
        BY FewOfPairs
      <4>2. QED
        BY <4>1, <3>3, <1>1
    <3>5. \A p \in declared : p[1] \in nodes /\ p[2] \in nodes
      <4>1. declared \subseteq nodes \X nodes
        BY FewOfPairs
      <4>2. QED
        BY <4>1
    <3>6. DOMAIN pos = nodes
      BY DEF Orders
    <3> DEFINE ask == Proposed(declared, pos)
    <3>7. ask \in Graphs /\ \A p \in Edges(ask) : p[1] \in nodes /\ p[2] \in nodes
      <4>1. ASSUME NEW p \in Pairs, ask[p] # "none" PROVE p[1] \in nodes /\ p[2] \in nodes
        BY <4>1, <3>5, <3>6 DEF Proposed
      <4>2. QED
        BY <4>1, ProposedEdges DEF Edges
    <3> HIDE DEF ask, nodes
    <3>8. Minimized(ask) \in Graphs /\ Edges(Minimized(ask)) \subseteq Edges(ask)
      BY <3>7, MinimizedEdges
    <3>9. edge' = [p \in Pairs |-> IF p[1] \in made + 1..made + n THEN Minimized(ask)[p] ELSE edge[p]]
      BY <3>2 DEF CreatesWave, ask
    <3>10. edge' \in Graphs
      BY <3>8, <3>9, <1>0 DEF EdgesOK, Graphs
    <3>11. \A p \in Edges(edge') : p \in Edges(Minimized(ask)) \/ p \in Edges(edge)
      BY <3>9 DEF Edges
    <3>12. ASSUME NEW p \in Edges(edge') PROVE p[1] <= made' /\ p[2] <= made'
      <4>1. CASE p \in Edges(Minimized(ask))
        BY <4>1, <3>3, <3>4, <3>7, <3>8
      <4>2. CASE p \in Edges(edge)
        <5>1. p[1] <= made /\ p[2] <= made
          BY <4>2, <1>0 DEF EdgesOK
        <5>2. p[1] \in Nat /\ p[2] \in Nat
          BY <1>1 DEF Edges
        <5>3. QED
          BY <5>1, <5>2, <3>3, <1>1
      <4>3. QED
        BY <4>1, <4>2, <3>11
    <3>13. QED
      BY <3>10, <3>12 DEF EdgesOK
  <2>3. ASSUME NEW a \in Ids, NEW b \in Ids, Adds(a, b) PROVE EdgesOK'
    <3>1. {<<a, b>>} \in SUBSET Pairs /\ \A p \in {<<a, b>>} : p[1] <= made /\ p[2] <= made
      BY <2>3, <1>0, <1>1 DEF Adds, Pairs
    <3>2. edge' \in Graphs /\ Edges(edge') = Edges(edge) \union {<<a, b>>} /\ made' = made
      BY <2>3, <3>1, <1>0, WithEdges DEF Adds, Edits, EdgesOK, Provenance
    <3>3. QED
      BY <3>1, <3>2, <1>0 DEF EdgesOK
  <2>4. ASSUME NEW a \in Ids, NEW b \in Ids, Removes(a, b) PROVE EdgesOK'
    <3>1. {<<a, b>>} \in SUBSET Pairs
      BY DEF Pairs
    <3>2. edge' \in Graphs /\ Edges(edge') \subseteq Edges(edge) /\ made' = made
      BY <2>4, <3>1, <1>0, WithoutEdges DEF Removes, Edits, EdgesOK
    <3>3. QED
      BY <3>2, <1>0 DEF EdgesOK
  <2>5. ASSUME NEW j \in Ids, NEW D \in SUBSET Ids, FixesForward(j, D) PROVE EdgesOK'
    <3>1. made' = made + 1 /\ made + 1 \in Ids
      BY <2>5, <1>0, LogsPairs DEF FixesForward
    <3>2. edge' \in Graphs
      BY <2>5, <3>1, <1>0 DEF FixesForward, EdgesOK, Graphs, Provenance, Pairs
    <3>3. Edges(edge') \subseteq Edges(edge) \union (D \X {made + 1})
      BY <2>5, <3>2, <1>0 DEF FixesForward, Edges, Pairs
    <3>4. \A p \in D \X {made + 1} : p[1] <= made + 1 /\ p[2] <= made + 1
      <4>1. ASSUME NEW d \in D PROVE d <= made + 1
        <5>1. d \in Ids /\ edge[<<d, j>>] # "none"
          BY <2>5 DEF FixesForward
        <5>2. <<d, j>> \in Edges(edge)
          BY <5>1, <1>1 DEF Edges
        <5>3. d <= made
          BY <5>2, <1>0 DEF EdgesOK
        <5>4. QED
          BY <5>1, <5>3, <1>1
      <4>2. \A d \in {made + 1} : d <= made + 1
        BY <1>1
      <4>3. QED
        BY <4>1, <4>2, ProductBelow
    <3>5. QED
      BY <3>1, <3>2, <3>3, <3>4, <1>0, <1>1, Bigger
  <2>6. ASSUME NEW j \in Ids, NEW D \in SUBSET Ids, Remediates(j, D) PROVE EdgesOK'
    <3>1. made' = made + 1 /\ made + 1 \in Ids
      BY <2>6, <1>0, LogsPairs DEF Remediates, Surveyed
    <3>2. j \in 1..made /\ D \subseteq 1..made
      <4>1. status[j] = "failed" /\ D \subseteq 1..made
        BY <2>6 DEF Remediates, Surveyed
      <4>2. j <= made
        BY <4>1, <1>0, <1>1 DEF RowsOK
      <4>3. QED
        BY <4>1, <4>2, <1>1 DEF Ids
    <3> DEFINE e1 == With(edge, {made + 1} \X D, "auto")
               e2 == With(e1, {<<j, made + 1>>}, "semantic")
    <3>3. {made + 1} \X D \in SUBSET Pairs /\ {<<j, made + 1>>} \in SUBSET Pairs
      BY <3>1, <3>2, PairSets DEF Pairs
    <3>4. e1 \in Graphs /\ Edges(e1) = Edges(edge) \union ({made + 1} \X D)
      BY <3>3, <1>0, WithEdges DEF EdgesOK, Provenance
    <3>5. e2 \in Graphs /\ Edges(e2) = Edges(e1) \union {<<j, made + 1>>}
      BY <3>3, <3>4, WithEdges DEF Provenance
    <3> HIDE DEF e1, e2
    <3>6. edge' = Minimized(e2)
      BY <2>6 DEF Remediates, Surveyed, e1, e2
    <3>7. edge' \in Graphs /\ Edges(edge') \subseteq Edges(edge) \union (({made + 1} \X D) \union {<<j, made + 1>>})
      BY <3>4, <3>5, <3>6, MinimizedEdges
    <3>8. \A p \in ({made + 1} \X D) \union {<<j, made + 1>>} : p[1] <= made + 1 /\ p[2] <= made + 1
      <4>1. (\A d \in D : d <= made + 1) /\ (\A d \in {made + 1} : d <= made + 1) /\ j <= made + 1
        BY <3>2, <1>1
      <4>2. \A p \in {made + 1} \X D : p[1] <= made + 1 /\ p[2] <= made + 1
        BY <4>1, ProductBelow
      <4>3. QED
        BY <4>1, <4>2
    <3>9. QED
      BY <3>1, <3>7, <3>8, <1>0, <1>1, Bigger
  <2>7. ASSUME NEW j \in Ids, NEW r \in Ids, BaselineChooses(j, r) PROVE EdgesOK'
    BY <2>7, <1>0 DEF BaselineChooses, EdgesOK, rows, splitting, metas, ghosts, RowsOK
  <2>8. ASSUME NEW j \in Ids, BaselineBlocks(j) PROVE EdgesOK'
    <3>1. choice[j] \in 1..made /\ j \in 1..made /\ made' = made
      BY <2>8, <1>0, <1>1 DEF BaselineBlocks, MemosOK, Ids
    <3>2. {<<j, choice[j]>>} \in SUBSET Pairs
      BY <3>1, <1>1 DEF Pairs
    <3>3. edge' \in Graphs /\ Edges(edge') = Edges(edge) \union {<<j, choice[j]>>}
      BY <2>8, <3>2, <1>0, WithEdges DEF BaselineBlocks, Edits, EdgesOK, Provenance
    <3>4. QED
      BY <3>1, <3>3, <1>0, <1>1 DEF EdgesOK
  <2>9. ASSUME NEW j \in Ids, NEW D \in SUBSET Ids, CreatesChild(j, D) PROVE EdgesOK'
    <3>1. made' = made + 1 /\ made + 1 \in Ids
      BY <2>9, <1>0, LogsPairs DEF CreatesChild
    <3>2. D \subseteq 1..made
      BY <2>9, <1>0 DEF CreatesChild, MemosOK
    <3>3. {made + 1} \X D \in SUBSET Pairs /\ \A p \in {made + 1} \X D : p[1] <= made + 1 /\ p[2] <= made + 1
      <4>2. \A d \in D : d <= made + 1
        BY <3>2, <1>1
      <4>3. \A d \in {made + 1} : d <= made + 1
        BY <1>1
      <4>4. {made + 1} \in SUBSET Ids /\ D \in SUBSET Ids
        BY <3>1, <3>2, <1>1
      <4>5. QED
        BY <4>2, <4>3, <4>4, ProductBelow, PairSets
    <3>4. edge' \in Graphs /\ Edges(edge') = Edges(edge) \union ({made + 1} \X D)
      BY <2>9, <3>3, <1>0, WithEdges DEF CreatesChild, Edits, EdgesOK, Provenance
    <3>5. QED
      BY <3>1, <3>3, <3>4, <1>0, <1>1, Bigger
  <2>10. ASSUME NEW j \in Ids, Hands(j) PROVE EdgesOK'
    <3> DEFINE f == FannedOut(j, kids[j])
    <3>1. kids[j] \in SUBSET Ids /\ (\A k \in kids[j] : k <= made) /\ made' = made
      BY <2>10, <1>0, <1>1 DEF Hands, MemosOK
    <3>2. f \in Graphs /\ \A p \in Edges(f) :
              p \in Edges(edge) \/ (p[2] \in kids[j] /\ <<p[1], j>> \in Edges(edge))
      BY <3>1, <1>0, FannedOutEdges DEF EdgesOK
    <3> HIDE DEF f
    <3>3. edge' = edge \/ edge' = Minimized(f)
      BY <2>10 DEF Hands, Repoints, f
    <3>4. \A p \in Edges(f) : p[1] <= made /\ p[2] <= made
      BY <3>1, <3>2, <1>0 DEF EdgesOK
    <3>5. Minimized(f) \in Graphs /\ Edges(Minimized(f)) \subseteq Edges(f)
      BY <3>2, MinimizedEdges
    <3>6. QED
      BY <3>1, <3>3, <3>4, <3>5, <1>0 DEF EdgesOK
  <2>11. ASSUME NEW j \in Ids, Supersedes(j) PROVE EdgesOK'
    BY <2>11, <1>0 DEF Supersedes, EdgesOK, rows, splitting, metas, ghosts, RowsOK
  <2>12. ASSUME NEW j \in Ids, Dies(j) PROVE EdgesOK'
    BY <2>12, <1>0 DEF Dies, EdgesOK, rows, splitting, metas, ghosts, RowsOK
  <2>13. ASSUME NEW j \in Ids, RepointsOrphans(j) PROVE EdgesOK'
    <3> DEFINE f == FannedOut(j, parts[j])
    <3>1. parts[j] \in SUBSET Ids /\ (\A k \in parts[j] : k <= made) /\ made' = made
      BY <2>13, <1>0, <1>1 DEF RepointsOrphans, MemosOK
    <3>2. f \in Graphs /\ \A p \in Edges(f) :
              p \in Edges(edge) \/ (p[2] \in parts[j] /\ <<p[1], j>> \in Edges(edge))
      BY <3>1, <1>0, FannedOutEdges DEF EdgesOK
    <3> HIDE DEF f
    <3>3. edge' = edge \/ edge' = Minimized(f)
      BY <2>13 DEF RepointsOrphans, Repoints, f
    <3>4. \A p \in Edges(f) : p[1] <= made /\ p[2] <= made
      BY <3>1, <3>2, <1>0 DEF EdgesOK
    <3>5. Minimized(f) \in Graphs /\ Edges(Minimized(f)) \subseteq Edges(f)
      BY <3>2, MinimizedEdges
    <3>6. QED
      BY <3>1, <3>3, <3>4, <3>5, <1>0 DEF EdgesOK
  <2>14. ASSUME NEW j \in Ids, Claims(j) PROVE EdgesOK'
    BY <2>14, <1>0 DEF Claims, EdgesOK, rows, splitting, metas, ghosts, RowsOK
  <2>15. ASSUME NEW j \in Ids, Ends(j) PROVE EdgesOK'
    BY <2>15, <1>0 DEF Ends, EdgesOK, rows, splitting, metas, ghosts, RowsOK
  <2>16. ASSUME NEW j \in Ids, Cancels(j) PROVE EdgesOK'
    BY <2>16, <1>0 DEF Cancels, EdgesOK, rows, splitting, metas, ghosts, RowsOK
  <2>17. ASSUME NEW j \in Ids, Revives(j) PROVE EdgesOK'
    BY <2>17, <1>0 DEF Revives, EdgesOK, rows, splitting, metas, ghosts, RowsOK
  <2>18. ASSUME NEW j \in Ids, BlocksDependent(j) PROVE EdgesOK'
    BY <2>18, <1>0 DEF BlocksDependent, EdgesOK, rows, splitting, metas, ghosts, RowsOK
  <2>19. ASSUME NEW j \in Ids, Resolves(j) PROVE EdgesOK'
    BY <2>19, <1>0 DEF Resolves, EdgesOK, rows, splitting, metas, ghosts, RowsOK
  <2>20. ASSUME Reconciles PROVE EdgesOK'
    <3>1. edge' \in Graphs /\ Edges(edge') \subseteq Edges(edge) /\ made' = made
      BY <2>20, <1>0, MinimizedEdges DEF Reconciles, EdgesOK
    <3>2. QED
      BY <3>1, <1>0 DEF EdgesOK
  <2>21. ASSUME NEW p \in Pairs, Repairs(p) PROVE EdgesOK'
    <3>1. edge' \in Graphs /\ Edges(edge') \subseteq Edges(edge) /\ made' = made
      BY <2>21, <1>0, WithoutEdges DEF Repairs, Edits, EdgesOK
    <3>2. QED
      BY <3>1, <1>0 DEF EdgesOK
  <2>22. ASSUME EndsScan PROVE EdgesOK'
    BY <2>22, <1>0 DEF EndsScan, EdgesOK, rows, splitting, metas, ghosts, RowsOK
  <2>23. ASSUME UNCHANGED graphVars PROVE EdgesOK'
    BY <2>23, <1>0, <1>1
       DEF graphVars, EdgesOK, rows, splitting, metas, ghosts
  <2>24. QED
    BY <1>0, <2>1, <2>2, <2>3, <2>4, <2>5, <2>6, <2>7, <2>8, <2>9, <2>10, <2>11, <2>12, <2>13, <2>14, <2>15, <2>16, <2>17, <2>18, <2>19, <2>20, <2>21, <2>22, <2>23
       DEF GraphNext

LEMMA GraphTypeStep == GraphTypeOK /\ [GraphNext]_graphVars => GraphTypeOK'
<1> SUFFICES ASSUME GraphTypeOK, [GraphNext]_graphVars PROVE GraphTypeOK'
  OBVIOUS
<1>1. RowsOK' /\ EdgesOK' /\ MemosOK' /\ LogsOK'
  BY RowsStep, EdgesStep, MemosStep, LogsStep
<1>2. QED
  BY <1>1 DEF GraphTypeOK, RowsOK, EdgesOK, MemosOK, LogsOK, Edges, Graphs

\* Jobs, edges and memos have their types in every reachable state.
THEOREM GraphTypeCorrect == GraphSpec => []GraphTypeOK
  BY GraphTypeInit, GraphTypeStep, PTL DEF GraphSpec

-----------------------------------------------------------------------------
(* No cycle *)

LEMMA AcyclicStep == GraphTypeOK /\ GraphAcyclic /\ [GraphNext]_graphVars => GraphAcyclic'
<1> SUFFICES ASSUME GraphTypeOK, GraphAcyclic, [GraphNext]_graphVars PROVE GraphAcyclic'
  OBVIOUS
<1>0. [GraphNext]_graphVars /\ RowsOK /\ EdgesOK /\ MemosOK /\ LogsOK /\ GraphAcyclic
  BY TypeParts
<1>1. /\ made \in Nat /\ 1..made \subseteq Ids /\ Ids \subseteq Nat /\ MaxJobs \in Nat
      /\ Pairs = Ids \X Ids
  BY <1>0, Numbered DEF RowsOK
<1>2. QED
  <2>1. ASSUME NEW D \in SUBSET Ids, Creates(D) PROVE GraphAcyclic'
    <3>1. made' = made + 1 /\ made + 1 \in Ids
      BY <2>1, <1>0, LogsPairs DEF Creates
    <3>2. D \subseteq 1..made
      BY <2>1, <1>0 DEF Creates, MemosOK
    <3>3. {made + 1} \X D \in SUBSET Pairs /\ D \subseteq Ids \ {made + 1}
      BY <3>1, <3>2, <1>1, PairSets
    <3>4. Edges(edge') = Edges(edge) \union ({made + 1} \X D) /\ oddities' = oddities
      BY <2>1, <3>3, <1>0, WithEdges DEF Creates, Edits, EdgesOK, Provenance
    <3>5. \A k \in Ids : <<k, made + 1>> \notin Edges(edge)
      BY <1>0, <1>1 DEF EdgesOK
    <3>6. ASSUME Acyclic(Edges(edge)) PROVE Acyclic(Edges(edge) \union ({made + 1} \X D))
      <4>1. made + 1 \in Ids /\ D \in SUBSET (Ids \ {made + 1})
        BY <3>1, <3>3
      <4>2. QED
        BY <4>1, <3>5, <3>6, NewSource
    <3>7. QED
      BY <3>4, <3>6, <1>0 DEF GraphAcyclic
  <2>2. ASSUME SomeWave PROVE GraphAcyclic'
    <3>1. PICK n, old, pos, declared :
              n \in 1..3 /\ old \in Few(1..made, 1) /\ CreatesWave(n, old, declared, pos)
      BY <2>2 DEF SomeWave
    <3> DEFINE e == Minimized(Proposed(declared, pos))
               N == made + 1..made + n
    <3>2. e \in Graphs
      BY ProposedEdges, MinimizedEdges
    <3>3. \A p \in Edges(e) : p[1] \in N /\ p[2] \in N => p[2] < p[1]
      BY <3>1 DEF CreatesWave
    <3>4. edge' = [p \in Pairs |-> IF p[1] \in N THEN e[p] ELSE edge[p]]
      BY <3>1 DEF CreatesWave
    <3>5. "raced" \in oddities => "raced" \in oddities'
      BY <3>1 DEF CreatesWave
    <3>6. n \in Nat /\ made + n <= MaxJobs
      BY <3>1 DEF CreatesWave, Room
    <3>7. N \in SUBSET Ids
      BY <3>6, <1>1 DEF Ids
    <3> HIDE DEF e
    <3>8. Edges(edge') \in SUBSET Pairs
      BY DEF Edges
    <3>9. \A p \in Edges(edge') : p[1] \notin N => p \in Edges(edge) /\ p[2] \notin N
      <4> SUFFICES ASSUME NEW p \in Edges(edge'), p[1] \notin N PROVE p \in Edges(edge) /\ p[2] \notin N
        OBVIOUS
      <4>1. p \in Edges(edge)
        BY <3>4 DEF Edges
      <4>2. p[2] <= made /\ p[2] \in Nat
        BY <4>1, <1>0, <1>1 DEF EdgesOK, Edges
      <4>3. QED
        BY <4>1, <4>2, <3>6, <1>1
    <3>10. \A p \in Edges(edge') : p[1] \in N /\ p[2] \in N => p[2] < p[1]
      BY <3>3, <3>4 DEF Edges
    <3> HIDE DEF N
    <3>11. Acyclic(Edges(edge)) => Acyclic(Edges(edge'))
      BY <3>7, <3>8, <3>9, <3>10, NewWave
    <3>12. QED
      BY <3>5, <3>11, <1>0 DEF GraphAcyclic
  <2>3. ASSUME NEW a \in Ids, NEW b \in Ids, Adds(a, b) PROVE GraphAcyclic'
    <3>1. {<<a, b>>} \in SUBSET Pairs
      BY DEF Pairs
    <3>2. Edges(edge') = Edges(edge) \union {<<a, b>>}
      BY <2>3, <3>1, <1>0, WithEdges DEF Adds, Edits, EdgesOK, Provenance
    <3>3. QED
      BY <2>3, <3>2 DEF Adds, GraphAcyclic
  <2>4. ASSUME NEW a \in Ids, NEW b \in Ids, Removes(a, b) PROVE GraphAcyclic'
    <3>1. {<<a, b>>} \in SUBSET Pairs
      BY DEF Pairs
    <3>2. Edges(edge') \subseteq Edges(edge) /\ ("raced" \in oddities => "raced" \in oddities')
      BY <2>4, <3>1, <1>0, WithoutEdges DEF Removes, Edits, EdgesOK
    <3>3. QED
      BY <3>2, <1>0, FewerEdges DEF GraphAcyclic
  <2>5. ASSUME NEW j \in Ids, NEW D \in SUBSET Ids, FixesForward(j, D) PROVE GraphAcyclic'
    <3>1. made' = made + 1 /\ made + 1 \in Ids
      BY <2>5, <1>0, LogsPairs DEF FixesForward
    <3>2. D \subseteq 1..made
      <4>1. ASSUME NEW d \in D PROVE d \in 1..made
        <5>1. d \in Ids /\ edge[<<d, j>>] # "none"
          BY <2>5 DEF FixesForward
        <5>2. <<d, j>> \in Edges(edge)
          BY <5>1, <1>1 DEF Edges
        <5>3. d <= made
          BY <5>2, <1>0 DEF EdgesOK
        <5>4. QED
          BY <5>1, <5>3, <1>1 DEF Ids
      <4>2. QED
        BY <4>1
    <3>3. D \in SUBSET (Ids \ {made + 1})
      BY <3>1, <3>2, <1>1
    <3>4. Edges(edge') \subseteq Edges(edge) \union (D \X {made + 1})
      BY <2>5, <3>1, <1>0 DEF FixesForward, Edges, Pairs
    <3>5. \A k \in Ids : <<made + 1, k>> \notin Edges(edge)
      BY <1>0, <1>1 DEF EdgesOK
    <3>6. ASSUME Acyclic(Edges(edge)) PROVE Acyclic(Edges(edge'))
      <4>1. made + 1 \in Ids
        BY <3>1
      <4>2. Acyclic(Edges(edge) \union (D \X {made + 1}))
        BY <4>1, <3>3, <3>5, <3>6, NewSink
      <4>3. QED
        BY <4>2, <3>4, FewerEdges
    <3>7. "raced" \in oddities => "raced" \in oddities'
      BY <2>5 DEF FixesForward
    <3>8. QED
      BY <3>6, <3>7, <1>0 DEF GraphAcyclic
  <2>6. ASSUME NEW j \in Ids, NEW D \in SUBSET Ids, Remediates(j, D) PROVE GraphAcyclic'
    <3> DEFINE e == With(With(edge, {made + 1} \X D, "auto"), {<<j, made + 1>>}, "semantic")
    <3>1. made + 1 \in Ids /\ D \in SUBSET Ids /\ {made + 1} \in SUBSET Ids
      BY <2>6, <1>0, LogsPairs DEF Remediates, Surveyed
    <3>2. {made + 1} \X D \in SUBSET Pairs /\ {<<j, made + 1>>} \in SUBSET Pairs
      BY <3>1, PairSets DEF Pairs
    <3>3. e \in Graphs
      BY <3>2, <1>0, WithEdges DEF EdgesOK, Provenance
    <3> HIDE DEF e
    <3>4. Acyclic(Edges(e)) /\ edge' = Minimized(e) /\ oddities' = oddities
      BY <2>6 DEF Remediates, Surveyed, e
    <3>5. QED
      BY <3>3, <3>4, MinimizedEdges, FewerEdges DEF GraphAcyclic
  <2>7. ASSUME NEW j \in Ids, NEW r \in Ids, BaselineChooses(j, r) PROVE GraphAcyclic'
    BY <2>7, <1>0 DEF BaselineChooses, GraphAcyclic, rows, splitting, metas, ghosts
  <2>8. ASSUME NEW j \in Ids, BaselineBlocks(j) PROVE GraphAcyclic'
    <3>1. Acyclic(Edges(edge')) \/ "raced" \in oddities'
      BY <2>8 DEF BaselineBlocks, Edits
    <3>2. QED
      BY <3>1 DEF GraphAcyclic
  <2>9. ASSUME NEW j \in Ids, NEW D \in SUBSET Ids, CreatesChild(j, D) PROVE GraphAcyclic'
    <3>1. made' = made + 1 /\ made + 1 \in Ids
      BY <2>9, <1>0, LogsPairs DEF CreatesChild
    <3>2. D \subseteq 1..made
      BY <2>9, <1>0 DEF CreatesChild, MemosOK
    <3>3. {made + 1} \X D \in SUBSET Pairs /\ D \subseteq Ids \ {made + 1}
      BY <3>1, <3>2, <1>1, PairSets
    <3>4. Edges(edge') = Edges(edge) \union ({made + 1} \X D) /\ oddities' = oddities
      BY <2>9, <3>3, <1>0, WithEdges DEF CreatesChild, Edits, EdgesOK, Provenance
    <3>5. \A k \in Ids : <<k, made + 1>> \notin Edges(edge)
      BY <1>0, <1>1 DEF EdgesOK
    <3>6. ASSUME Acyclic(Edges(edge)) PROVE Acyclic(Edges(edge) \union ({made + 1} \X D))
      <4>1. made + 1 \in Ids /\ D \in SUBSET (Ids \ {made + 1})
        BY <3>1, <3>3
      <4>2. QED
        BY <4>1, <3>5, <3>6, NewSource
    <3>7. QED
      BY <3>4, <3>6, <1>0 DEF GraphAcyclic
  <2>10. ASSUME NEW j \in Ids, Hands(j) PROVE GraphAcyclic'
    <3> DEFINE f == FannedOut(j, kids[j])
    <3>1. kids[j] \in SUBSET Ids
      BY <1>0, <1>1 DEF MemosOK
    <3>2. f \in Graphs
      BY <3>1, <1>0, FannedOutEdges DEF EdgesOK
    <3> HIDE DEF f
    <3>3. Acyclic(Edges(f)) /\ (edge' = edge \/ edge' = Minimized(f)) /\ oddities' = oddities
      BY <2>10 DEF Hands, Repoints, f
    <3>4. QED
      BY <3>2, <3>3, <1>0, MinimizedEdges, FewerEdges DEF GraphAcyclic
  <2>11. ASSUME NEW j \in Ids, Supersedes(j) PROVE GraphAcyclic'
    BY <2>11, <1>0 DEF Supersedes, GraphAcyclic, rows, splitting, metas, ghosts
  <2>12. ASSUME NEW j \in Ids, Dies(j) PROVE GraphAcyclic'
    BY <2>12, <1>0 DEF Dies, GraphAcyclic, rows, splitting, metas, ghosts
  <2>13. ASSUME NEW j \in Ids, RepointsOrphans(j) PROVE GraphAcyclic'
    <3> DEFINE f == FannedOut(j, parts[j])
    <3>1. parts[j] \in SUBSET Ids
      BY <1>0, <1>1 DEF MemosOK
    <3>2. f \in Graphs
      BY <3>1, <1>0, FannedOutEdges DEF EdgesOK
    <3> HIDE DEF f
    <3>3. Acyclic(Edges(f)) /\ (edge' = edge \/ edge' = Minimized(f)) /\ oddities' = oddities
      BY <2>13 DEF RepointsOrphans, Repoints, f
    <3>4. QED
      BY <3>2, <3>3, <1>0, MinimizedEdges, FewerEdges DEF GraphAcyclic
  <2>14. ASSUME NEW j \in Ids, Claims(j) PROVE GraphAcyclic'
    BY <2>14, <1>0 DEF Claims, GraphAcyclic, rows, splitting, metas, ghosts
  <2>15. ASSUME NEW j \in Ids, Ends(j) PROVE GraphAcyclic'
    BY <2>15, <1>0 DEF Ends, GraphAcyclic, rows, splitting, metas, ghosts
  <2>16. ASSUME NEW j \in Ids, Cancels(j) PROVE GraphAcyclic'
    BY <2>16, <1>0 DEF Cancels, GraphAcyclic, rows, splitting, metas, ghosts
  <2>17. ASSUME NEW j \in Ids, Revives(j) PROVE GraphAcyclic'
    BY <2>17, <1>0 DEF Revives, GraphAcyclic, rows, splitting, metas, ghosts
  <2>18. ASSUME NEW j \in Ids, BlocksDependent(j) PROVE GraphAcyclic'
    BY <2>18, <1>0 DEF BlocksDependent, GraphAcyclic, rows, splitting, metas, ghosts
  <2>19. ASSUME NEW j \in Ids, Resolves(j) PROVE GraphAcyclic'
    BY <2>19, <1>0 DEF Resolves, GraphAcyclic, rows, splitting, metas, ghosts
  <2>20. ASSUME Reconciles PROVE GraphAcyclic'
    <3>1. Edges(edge') \subseteq Edges(edge) /\ ("raced" \in oddities => "raced" \in oddities')
      BY <2>20, <1>0, MinimizedEdges DEF Reconciles, Edits, EdgesOK, ghosts
    <3>2. QED
      BY <3>1, <1>0, FewerEdges DEF GraphAcyclic
  <2>21. ASSUME NEW p \in Pairs, Repairs(p) PROVE GraphAcyclic'
    <3>1. Edges(edge') \subseteq Edges(edge) /\ ("raced" \in oddities => "raced" \in oddities')
      BY <2>21, <1>0, WithoutEdges DEF Repairs, Edits, EdgesOK
    <3>2. QED
      BY <3>1, <1>0, FewerEdges DEF GraphAcyclic
  <2>22. ASSUME EndsScan PROVE GraphAcyclic'
    BY <2>22, <1>0 DEF EndsScan, GraphAcyclic, rows, splitting, metas, ghosts
  <2>23. ASSUME UNCHANGED graphVars PROVE GraphAcyclic'
    BY <2>23, <1>0, <1>1
       DEF graphVars, GraphAcyclic, rows, splitting, metas, ghosts
  <2>24. QED
    BY <1>0, <2>1, <2>2, <2>3, <2>4, <2>5, <2>6, <2>7, <2>8, <2>9, <2>10, <2>11, <2>12, <2>13, <2>14, <2>15, <2>16, <2>17, <2>18, <2>19, <2>20, <2>21, <2>22, <2>23
       DEF GraphNext

LEMMA AcyclicInit == GraphInit => GraphAcyclic
  BY DEF GraphInit, GraphAcyclic, Acyclic, Stuck, Edges

\* The dependency graph has no cycle until the baseline gate has closed one.
THEOREM GraphStaysAcyclic == GraphSpec => []GraphAcyclic
  BY GraphTypeInit, GraphTypeStep, AcyclicInit, AcyclicStep, PTL DEF GraphSpec

-----------------------------------------------------------------------------
(* Paths *)

\* What is reached over some edges is reached over more.
LEMMA ReachesMore ==
    ASSUME NEW F, NEW E \in SUBSET F, NEW a, NEW b, Reaches(E, a, b)
    PROVE  Reaches(F, a, b)
  BY DEF Reaches

\* An edge leads where it points.
LEMMA ReachesDirect ==
    ASSUME NEW E, NEW a, NEW b, <<a, b>> \in E
    PROVE  Reaches(E, a, b)
<1> SUFFICES ASSUME NEW S \in SUBSET Ids, \A p \in E : p[1] \in S \union {a} => p[2] \in S
             PROVE  b \in S
  BY DEF Reaches
<1>1. <<a, b>>[1] \in S \union {a} => <<a, b>>[2] \in S
  OBVIOUS
<1>2. QED
  BY <1>1

\* Two paths make one.
LEMMA ReachesFurther ==
    ASSUME NEW E, NEW a, NEW b, NEW c, Reaches(E, a, b), Reaches(E, b, c)
    PROVE  Reaches(E, a, c)
<1> SUFFICES ASSUME NEW S \in SUBSET Ids, \A p \in E : p[1] \in S \union {a} => p[2] \in S
             PROVE  c \in S
  BY DEF Reaches
<1>1. b \in S
  BY DEF Reaches
<1>2. \A p \in E : p[1] \in S \union {b} => p[2] \in S
  BY <1>1
<1>3. QED
  BY <1>2 DEF Reaches

\* A path begins with an edge.
LEMMA ReachesFirst ==
    ASSUME NEW E \in SUBSET Pairs, NEW a \in Ids, NEW b \in Ids, Reaches(E, a, b)
    PROVE  \E k \in Ids : <<a, k>> \in E /\ (k = b \/ Reaches(E, k, b))
<1> SUFFICES ASSUME \A k \in Ids : <<a, k>> \in E => k # b /\ ~Reaches(E, k, b)
             PROVE  FALSE
  OBVIOUS
<1> DEFINE S == {k \in Ids : k # b /\ ~Reaches(E, k, b)}
<1>1. ASSUME NEW p \in E, p[1] \in S \union {a} PROVE p[2] \in S
  <2>1. p = <<p[1], p[2]>> /\ p[2] \in Ids
    BY DEF Pairs
  <2>2. CASE p[1] = a
    BY <2>1, <2>2
  <2>3. CASE p[1] \in S
    <3>1. Reaches(E, p[1], p[2])
      BY <2>1, ReachesDirect
    <3>2. p[2] # b /\ ~Reaches(E, p[2], b)
      BY <2>3, <3>1, ReachesFurther
    <3>3. QED
      BY <2>1, <3>2
  <2>4. QED
    BY <1>1, <2>2, <2>3
<1>2. S \in SUBSET Ids /\ b \notin S
  OBVIOUS
<1>3. QED
  BY <1>1, <1>2 DEF Reaches

\* Where every edge of one graph is a path in another, so is every path.
LEMMA ReachesThrough ==
    ASSUME NEW E, NEW F, \A p \in E : Reaches(F, p[1], p[2]),
           NEW a, NEW b, Reaches(E, a, b)
    PROVE  Reaches(F, a, b)
<1> SUFFICES ASSUME NEW S \in SUBSET Ids, \A p \in F : p[1] \in S \union {a} => p[2] \in S
             PROVE  b \in S
  BY DEF Reaches
<1>1. ASSUME NEW p \in E, p[1] \in S \union {a} PROVE p[2] \in S
  <2>1. \A q \in F : q[1] \in S \union {p[1]} => q[2] \in S
    BY <1>1
  <2>2. Reaches(F, p[1], p[2])
    OBVIOUS
  <2>3. QED
    BY <2>1, <2>2 DEF Reaches
<1>2. QED
  BY <1>1 DEF Reaches

\* In an acyclic graph no job reaches itself.
LEMMA ReachesNotBack ==
    ASSUME NEW E \in SUBSET Pairs, NEW a \in Ids, Acyclic(E)
    PROVE  ~Reaches(E, a, a)
<1> SUFFICES ASSUME Reaches(E, a, a) PROVE FALSE
  OBVIOUS
<1> DEFINE S == {k \in Ids : Reaches(E, k, a) /\ Reaches(E, a, k)}
<1>1. ASSUME NEW j \in S PROVE \E k \in S : <<j, k>> \in E
  <2>1. PICK k \in Ids : <<j, k>> \in E /\ (k = a \/ Reaches(E, k, a))
    BY ReachesFirst
  <2>2. Reaches(E, j, k)
    BY <2>1, ReachesDirect
  <2>3. Reaches(E, a, k)
    BY <2>2, ReachesFurther
  <2>4. QED
    BY <2>1, <2>3
<1>2. S # {} /\ S \in SUBSET Ids
  OBVIOUS
<1>3. QED
  BY <1>1, <1>2 DEF Acyclic, Stuck

-----------------------------------------------------------------------------
(* How much lies below a job in an acyclic graph *)

Below(E, a) == {k \in Ids : Reaches(E, a, k)}

Height(E, a) == Cardinality(Below(E, a))

\* There are finitely many jobs below a job.
LEMMA HeightType ==
    ASSUME NEW E, NEW a
    PROVE  Height(E, a) \in Nat /\ Height(E, a) <= MaxJobs /\ IsFiniteSet(Below(E, a))
<1>0. MaxJobs \in Nat /\ 1 \in Int /\ MaxJobs \in Int
  BY GraphAssumption
<1>a. IsFiniteSet(1..MaxJobs) /\ Cardinality(1..MaxJobs) = IF 1 > MaxJobs THEN 0 ELSE MaxJobs - 1 + 1
  BY <1>0, FS_Interval
<1>1. IsFiniteSet(Ids) /\ Cardinality(Ids) = MaxJobs /\ MaxJobs \in Nat
  BY <1>0, <1>a DEF Ids
<1>2. Below(E, a) \in SUBSET Ids
  BY DEF Below
<1>3. QED
  BY <1>1, <1>2, FS_Subset, FS_CardinalityType DEF Height

\* Along a path in an acyclic graph there are fewer jobs below.
LEMMA HeightFalls ==
    ASSUME NEW E \in SUBSET Pairs, Acyclic(E), NEW a \in Ids, NEW b \in Ids, Reaches(E, a, b)
    PROVE  Height(E, b) < Height(E, a)
<1>1. Below(E, b) \in SUBSET Below(E, a)
  BY ReachesFurther DEF Below
<1>2. b \in Below(E, a) /\ b \notin Below(E, b)
  BY ReachesNotBack DEF Below
<1>3. Height(E, b) <= Height(E, a) /\ Height(E, b) # Height(E, a)
  BY <1>1, <1>2, HeightType, FS_Subset DEF Height
<1>4. QED
  BY <1>3, HeightType

\* Within C there is a job above c for which no other one waits.
LEMMA TopAbove ==
    ASSUME NEW E \in SUBSET Pairs, Acyclic(E), NEW C \in SUBSET Ids, NEW c \in C
    PROVE  \E t \in C : /\ t = c \/ Reaches(Among(E, C), t, c)
                        /\ \A k \in C : <<k, t>> \notin E
<1> DEFINE T == {t \in C : t = c \/ Reaches(Among(E, C), t, c)}
           H == {MaxJobs - Height(E, t) : t \in T}
<1>1. H \in SUBSET Nat /\ H # {}
  BY HeightType, GraphAssumption
<1>2. PICK x \in H : \A y \in H : ~(y < x)
  BY <1>1, SetHasMinimum
<1>3. PICK t \in T : x = MaxJobs - Height(E, t)
  BY <1>2
<1>4. ASSUME NEW k \in C, <<k, t>> \in E PROVE FALSE
  <2>1. <<k, t>> \in Among(E, C)
    BY <1>4 DEF Among
  <2>2. Reaches(Among(E, C), k, t)
    BY <2>1, ReachesDirect
  <2>3. k \in T
    BY <2>2, ReachesFurther
  <2>4. Reaches(E, k, t)
    BY <1>4, ReachesDirect
  <2>5. k \in Ids /\ t \in Ids
    OBVIOUS
  <2>6. Height(E, t) < Height(E, k)
    BY <2>4, <2>5, HeightFalls
  <2>7. MaxJobs - Height(E, k) \in H
    BY <2>3
  <2>8. QED
    BY <1>2, <1>3, <2>6, <2>7, HeightType, GraphAssumption
<1>5. QED
  BY <1>4
-----------------------------------------------------------------------------
(* Minimizing keeps what is reached *)

Reduced(e) == [p \in Pairs |-> IF e[p] = "auto" /\ Redundant(e, p) THEN "none" ELSE e[p]]

\* An edge that is left out is replaced by a path of edges each of which spans less.
LEMMA ReducedReaches ==
    ASSUME NEW e \in Graphs, Acyclic(Edges(e))
    PROVE  \A p \in Edges(e) : Reaches(Edges(Reduced(e)), p[1], p[2])
<1> DEFINE E == Edges(e)
           F == Edges(Reduced(e))
           Bad == {p \in E : ~Reaches(F, p[1], p[2])}
           span(p) == Height(E, p[1]) - Height(E, p[2])
           Spans == {span(p) : p \in Bad}
<1>1. E \in SUBSET Pairs
  BY DEF Edges
<1> HIDE DEF E
<1>2. ASSUME NEW p \in E
      PROVE  /\ p[1] \in Ids /\ p[2] \in Ids /\ p = <<p[1], p[2]>>
             /\ Reaches(E, p[1], p[2]) /\ span(p) \in Nat
  <2>1. p[1] \in Ids /\ p[2] \in Ids /\ p = <<p[1], p[2]>>
    BY <1>1 DEF Pairs
  <2>2. Reaches(E, p[1], p[2])
    BY <2>1, ReachesDirect
  <2>3. Height(E, p[2]) < Height(E, p[1])
    BY <1>1, <2>1, <2>2, HeightFalls DEF E
  <2>4. QED
    BY <2>1, <2>2, <2>3, HeightType
<1> SUFFICES ASSUME Bad # {} PROVE FALSE
  BY DEF E
<1>3. PICK s \in Spans : \A y \in Spans : ~(y < s)
  <2>1. Spans \in SUBSET Nat /\ Spans # {}
    BY <1>2
  <2>2. QED
    BY <2>1, SetHasMinimum
<1>4. PICK p \in Bad : s = span(p)
  BY <1>3
<1> DEFINE x == p[1]
           y == p[2]
<1>5. x \in Ids /\ y \in Ids /\ p = <<x, y>> /\ p \in E /\ ~Reaches(F, x, y)
  BY <1>2, <1>4
<1>6. ASSUME NEW q \in E, span(q) < span(p) PROVE Reaches(F, q[1], q[2])
  BY <1>3, <1>4, <1>6
<1>7. PICK m \in Ids \ {y} : <<x, m>> \in E /\ Reaches(E, m, y)
  <2>1. p \notin F
    BY <1>5, ReachesDirect
  <2>2. p \in Pairs /\ Reduced(e)[p] = "none" /\ e[p] # "none"
    BY <2>1, <1>5 DEF E, Edges, Reduced
  <2>3. Redundant(e, p)
    BY <2>2 DEF Reduced
  <2>4. QED
    BY <2>3 DEF Redundant, E
<1> HIDE DEF F, Bad, Spans
<1>8. Reaches(F, x, m) /\ Reaches(E, x, m)
  <2>1. Height(E, y) < Height(E, m)
    BY <1>1, <1>5, <1>7, HeightFalls DEF E
  <2>2. span(<<x, m>>) < span(p)
    BY <2>1, HeightType
  <2>3. QED
    BY <2>2, <1>2, <1>6, <1>7
<1>9. ASSUME NEW S \in SUBSET Ids, \A q \in F : q[1] \in S \union {x} => q[2] \in S
      PROVE  y \in S
  <2> DEFINE T == {v \in Ids : \/ v \in S /\ Reaches(E, x, v)
                               \/ v # y /\ ~Reaches(E, v, y)}
  <2>1. m \in S
    BY <1>8, <1>9 DEF Reaches
  <2>2. ASSUME NEW q \in E, q[1] \in T \union {m} PROVE q[2] \in T
    <3> DEFINE u == q[1]
               v == q[2]
    <3>1. u \in Ids /\ v \in Ids /\ q = <<u, v>> /\ Reaches(E, u, v)
      BY <1>2
    <3>2. CASE v # y /\ ~Reaches(E, v, y)
      BY <3>1, <3>2
    <3>3. CASE v = y \/ Reaches(E, v, y)
      <4>1. Reaches(E, u, y) /\ u # y
        <5>1. Reaches(E, u, y)
          BY <3>1, <3>3, ReachesFurther
        <5>2. QED
          BY <5>1, <1>1, <1>5, ReachesNotBack DEF E
      <4>2. u \in S /\ Reaches(E, x, u)
        BY <4>1, <2>1, <2>2, <1>8
      <4>3. Height(E, u) < Height(E, x)
        BY <4>2, <3>1, <1>1, <1>5, HeightFalls DEF E
      <4>4. Height(E, y) <= Height(E, v)
        <5>1. CASE v = y
          BY <5>1, HeightType
        <5>2. CASE Reaches(E, v, y)
          <6>1. Height(E, y) < Height(E, v)
            BY <5>2, <3>1, <1>1, <1>5, HeightFalls DEF E
          <6>2. QED
            BY <6>1, HeightType
        <5>3. QED
          BY <3>3, <5>1, <5>2
      <4>5. span(q) < span(p)
        BY <4>3, <4>4, HeightType
      <4>6. Reaches(F, u, v)
        BY <4>5, <1>6
      <4>7. v \in S
        <5>1. \A r \in F : r[1] \in S \union {u} => r[2] \in S
          BY <1>9, <4>2
        <5>2. QED
          BY <5>1, <4>6 DEF Reaches
      <4>8. Reaches(E, x, v)
        BY <4>2, <3>1, ReachesFurther
      <4>9. QED
        BY <4>7, <4>8, <3>1
    <3>4. QED
      BY <3>2, <3>3
  <2>3. T \in SUBSET Ids
    OBVIOUS
  <2>4. y \in T
    BY <2>2, <2>3, <1>7 DEF Reaches
  <2>5. QED
    BY <2>4
<1>10. Reaches(F, x, y)
  BY <1>9 DEF Reaches
<1>11. QED
  BY <1>5, <1>10

\* Nothing is left out only because its jobs are disjoint.
Tight(e) == \A p \in Pairs : e[p] = "auto" => ~Disjoint(p)

\* collision.py promises it of minimize_auto_dependencies: what is reached stays so.
LEMMA MinimizedReaches ==
    ASSUME NEW e \in Graphs, Acyclic(Edges(e)), Tight(e)
    PROVE  \A a, b : Reaches(Edges(e), a, b) => Reaches(Edges(Minimized(e)), a, b)
<1>1. Overlapping(e) = e
  BY DEF Overlapping, Tight, Graphs
<1>2. Minimized(e) = Reduced(e)
  BY <1>1 DEF Minimized, Reduced
<1>3. QED
  BY <1>2, ReducedReaches, ReachesThrough

\* No auto edge is left between jobs known to be disjoint.
LEMMA MinimizedTight ==
    ASSUME NEW e \in Graphs
    PROVE  Tight(Minimized(e)) /\ Tight(Overlapping(e))
<1>1. Tight(Overlapping(e))
  BY DEF Tight, Overlapping
<1>2. QED
  BY <1>1 DEF Tight, Minimized
-----------------------------------------------------------------------------
(* What is owed is reached *)

\* A job that is asked for and not done can be reached, at a time, from who waits for it.
OwedReached == \A p \in owed : status[p[2]] = "done" \/ Reaches(Edges(edge), p[1], p[2])

\* A job that has been claimed, is being split or was: what it waits for is done.
Through(j) == status[j] \in {"running", "done"} \/ kids[j] # {} \/ j \in split

DepsDone == \A p \in Edges(edge) : Through(p[1]) => status[p[2]] = "done"

\* An edge to the parent and the edges to its children that replace it.
LEMMA FannedOutKeeps ==
    ASSUME edge \in Graphs, Tight(edge), NEW j \in Ids, NEW C \in SUBSET Ids
    PROVE  /\ \A q \in Edges(edge) : q[2] # j => q \in Edges(Overlapping(FannedOut(j, C)))
           /\ \A x \in Ids, t \in Terminal(C) :
                 /\ t # j /\ edge[<<x, j>>] # "none"
                 /\ edge[<<x, j>>] = "auto" => ~Disjoint(<<x, t>>)
                 => <<x, t>> \in Edges(Overlapping(FannedOut(j, C)))
<1> DEFINE f == FannedOut(j, C)
<1>0. \A u, v \in Provenance \ {"none"} :
         Stronger(u, v) # "none" /\ (Stronger(u, v) = "auto" => u = "auto" /\ v = "auto")
  BY DEF Stronger, Provenance
<1>1. \A q \in Pairs : q[1] \in Ids /\ <<q[1], j>> \in Pairs /\ edge[q] \in Provenance /\ edge[<<q[1], j>>] \in Provenance
  BY DEF Pairs, Graphs
<1>2. \A q \in Pairs : f[q] # "none" /\ (f[q] = "auto" => ~Disjoint(q)) => q \in Edges(Overlapping(f))
  BY DEF Overlapping, Edges
<1>3. ASSUME NEW q \in Edges(edge), q[2] # j PROVE q \in Edges(Overlapping(f))
  <2>1. q \in Pairs /\ edge[q] # "none" /\ (edge[q] = "auto" => ~Disjoint(q))
    BY DEF Edges, Tight
  <2>2. f[q] # "none" /\ (f[q] = "auto" => edge[q] = "auto")
    <3>1. CASE q[2] \in Terminal(C) /\ edge[<<q[1], j>>] # "none"
      <4>1. f[q] = Stronger(edge[q], edge[<<q[1], j>>])
        BY <1>3, <2>1, <3>1 DEF FannedOut
      <4>2. QED
        BY <4>1, <1>0, <1>1, <2>1, <3>1
    <3>2. CASE ~(q[2] \in Terminal(C) /\ edge[<<q[1], j>>] # "none")
      <4>1. f[q] = edge[q]
        BY <1>3, <2>1, <3>2 DEF FannedOut
      <4>2. QED
        BY <4>1, <2>1
    <3>3. QED
      BY <3>1, <3>2
  <2>3. QED
    BY <1>2, <2>1, <2>2
<1>4. ASSUME NEW x \in Ids, NEW t \in Terminal(C), t # j, edge[<<x, j>>] # "none",
             edge[<<x, j>>] = "auto" => ~Disjoint(<<x, t>>)
      PROVE  <<x, t>> \in Edges(Overlapping(f))
  <2>1. <<x, t>> \in Pairs /\ edge[<<x, t>>] \in Provenance /\ edge[<<x, j>>] \in Provenance
    BY <1>1 DEF Pairs, Terminal
  <2>2. f[<<x, t>>] = IF edge[<<x, t>>] = "none" THEN edge[<<x, j>>]
                      ELSE Stronger(edge[<<x, t>>], edge[<<x, j>>])
    BY <1>4, <2>1 DEF FannedOut
  <2>3. f[<<x, t>>] # "none" /\ (f[<<x, t>>] = "auto" => edge[<<x, j>>] = "auto")
    BY <1>0, <1>4, <2>1, <2>2
  <2>4. QED
    BY <1>2, <1>4, <2>1, <2>3
<1>5. QED
  BY <1>3, <1>4

\* Who waited for a split job reaches all its children: the topmost lead to the others.
LEMMA RepointsKeeps ==
    ASSUME edge \in Graphs, owed \in SUBSET Pairs, Acyclic(Edges(edge)), Tight(edge),
           DepsDone, OwedReached, NEW j \in Ids, NEW C \in SUBSET Ids, j \notin C,
           \A p \in Edges(edge) : p[1] = j => status[p[2]] = "done",
           Repoints(j, C), status' = status
    PROVE  /\ Tight(edge') /\ OwedReached'
           /\ \A p \in Edges(edge') : p \in Edges(edge) \/ <<p[1], j>> \in Edges(edge)
<1> DEFINE f == FannedOut(j, C)
           o == Overlapping(f)
<1>1. f \in Graphs /\ \A p \in Edges(f) : p \in Edges(edge) \/ <<p[1], j>> \in Edges(edge)
  BY FannedOutEdges
<1>2. Acyclic(Edges(f))
  BY DEF Repoints
<1>3. /\ \A q \in Edges(edge) : q[2] # j => q \in Edges(o)
      /\ \A x \in Ids, t \in Terminal(C) :
            /\ t # j /\ edge[<<x, j>>] # "none"
            /\ edge[<<x, j>>] = "auto" => ~Disjoint(<<x, t>>)
            => <<x, t>> \in Edges(o)
  BY FannedOutKeeps
<1>4. CASE Dependents(j) = {}
  <2>1. edge' = edge /\ owed' \subseteq owed
    BY <1>4 DEF Repoints
  <2>2. QED
    BY <2>1 DEF OwedReached
<1>5. CASE Dependents(j) # {}
  <2>1. edge' = Minimized(f)
    BY <1>5 DEF Repoints
  <2>2. o \in Graphs /\ Edges(o) \subseteq Edges(f)
    BY <1>1 DEF Overlapping, Graphs, Edges, Provenance
  <2>3. Acyclic(Edges(o)) /\ edge' = Reduced(o)
    BY <1>2, <2>1, <2>2, FewerEdges DEF Minimized, Reduced
  <2>4. \A a, b : Reaches(Edges(o), a, b) => Reaches(Edges(edge'), a, b)
    BY <2>2, <2>3, ReducedReaches, ReachesThrough
  <2>5. Tight(edge') /\ Edges(edge') \subseteq Edges(f)
    BY <1>1, <2>1, MinimizedTight, MinimizedEdges
  <2> HIDE DEF o, f
  <2>6. ASSUME NEW p \in owed, p[2] # j, status[p[2]] # "done"
        PROVE  Reaches(Edges(o), p[1], p[2])
    <3>1. Reaches(Edges(edge), p[1], p[2])
      BY <2>6 DEF OwedReached
    <3> SUFFICES ASSUME NEW S \in SUBSET Ids, \A q \in Edges(o) : q[1] \in S \union {p[1]} => q[2] \in S
                 PROVE  p[2] \in S
      BY DEF Reaches
    <3> DEFINE T == S \union {j} \union {k \in Ids : status[k] = "done"}
    <3>2. ASSUME NEW q \in Edges(edge), q[1] \in T \union {p[1]} PROVE q[2] \in T
      <4>1. q[2] \in Ids
        BY DEF Edges, Pairs
      <4>2. CASE q[1] = j \/ status[q[1]] = "done"
        BY <4>1, <4>2 DEF DepsDone, Through
      <4>3. CASE q[1] \in S \union {p[1]} /\ q[2] # j
        BY <4>3, <1>3
      <4>4. QED
        BY <3>2, <4>2, <4>3
    <3>3. T \in SUBSET Ids
      OBVIOUS
    <3>4. p[2] \in T
      BY <3>1, <3>2, <3>3 DEF Reaches
    <3>5. QED
      BY <3>4, <2>6
  <2>7. ASSUME NEW x \in Dependents(j), NEW c \in C,
               edge[<<x, j>>] = "auto" => \A k \in C : ~Disjoint(<<x, k>>)
        PROVE  Reaches(Edges(o), x, c)
    <3>1. Edges(edge) \in SUBSET Pairs
      BY DEF Edges
    <3>2. PICK t \in C : /\ t = c \/ Reaches(Among(Edges(edge), C), t, c)
                         /\ \A k \in C : <<k, t>> \notin Edges(edge)
      BY <3>1, TopAbove
    <3>3. t \in Terminal(C)
      BY <3>2 DEF Terminal, Edges, Pairs
    <3>4. <<x, t>> \in Edges(o)
      BY <3>3, <2>7, <1>3 DEF Dependents
    <3>5. Among(Edges(edge), C) \in SUBSET Edges(o)
      BY <1>3 DEF Among
    <3>6. Reaches(Edges(o), x, t)
      BY <3>4, ReachesDirect
    <3>7. t = c \/ Reaches(Edges(o), t, c)
      BY <3>2, <3>5, ReachesMore
    <3>8. QED
      BY <3>6, <3>7, ReachesFurther
  <2>8. \A p \in owed' : \/ p \in owed /\ p[2] # j
                         \/ \E x \in Dependents(j), c \in C :
                               /\ p = <<x, c>>
                               /\ edge[<<x, j>>] = "auto" => \A k \in C : ~Disjoint(<<x, k>>)
    BY DEF Repoints
  <2>9. OwedReached'
    <3> SUFFICES ASSUME NEW p \in owed', status'[p[2]] # "done" PROVE Reaches(Edges(edge'), p[1], p[2])
      BY DEF OwedReached
    <3>1. Reaches(Edges(o), p[1], p[2])
      <4>1. CASE p \in owed /\ p[2] # j
        BY <4>1, <2>6
      <4>2. ASSUME NEW x \in Dependents(j), NEW c \in C, p = <<x, c>>,
                   edge[<<x, j>>] = "auto" => \A k \in C : ~Disjoint(<<x, k>>)
            PROVE  Reaches(Edges(o), p[1], p[2])
        BY <4>2, <2>7
      <4>3. QED
        BY <2>8, <4>1, <4>2
    <3>2. QED
      BY <3>1, <2>4
  <2>10. QED
    BY <2>5, <2>9, <1>1 DEF f
<1>6. QED
  BY <1>4, <1>5

\* A split job stays cancelled and one that is being split is not over; the gate
\* chooses for neither.
Marked ==
    /\ resolved = {}
    /\ \A j \in split : status[j] = "cancelled"
    /\ \A j \in Ids : kids[j] # {} => status[j] \in {"running", "cancelled"} /\ j \notin split
    /\ \A j \in Ids : choice[j] # 0 => status[j] \in {"running", "cancelled"} /\ kids[j] = {} /\ j \notin split
    /\ \A j \in Ids : j \notin kids[j] /\ j \notin parts[j]

Kept == Tight(edge) /\ DepsDone /\ OwedReached /\ Marked

OrderInv == oddities = {} => Kept

\* Jobs that are done stay done, and of the edges of jobs that are through none is new.
LEMMA DepsStayDone ==
    ASSUME DepsDone, \A k \in Ids : status[k] = "done" => status'[k] = "done",
           \A p \in Edges(edge') : Through(p[1])' =>
               \/ p \in Edges(edge) /\ Through(p[1])
               \/ status[p[2]] = "done"
    PROVE  DepsDone'
<1>1. \A p \in Edges(edge') : p[2] \in Ids
  BY DEF Edges, Pairs
<1>2. QED
  BY <1>1 DEF DepsDone

\* Nothing is owed anew.
LEMMA OwedStays ==
    ASSUME OwedReached, owed \in SUBSET Pairs, edge' = edge, owed' = owed,
           \A k \in Ids : status[k] = "done" => status'[k] = "done"
    PROVE  OwedReached'
<1>1. \A p \in owed : p[2] \in Ids
  BY DEF Pairs
<1>2. QED
  BY <1>1 DEF OwedReached

\* Edges that a user asks for.
LEMMA OwedGrows ==
    ASSUME OwedReached, Tight(edge), edge \in Graphs, owed \in SUBSET Pairs, NEW A \in SUBSET Pairs,
           Edits(With(edge, A, "user"), {}),
           \A k \in Ids : status[k] = "done" => status'[k] = "done"
    PROVE  OwedReached' /\ Tight(edge') /\ Edges(edge') = Edges(edge) \union A
<1>1. edge' \in Graphs /\ Edges(edge') = Edges(edge) \union A
  BY WithEdges DEF Edits, Provenance
<1>2. \A u \in Provenance : Stronger(u, "user") = "user"
  BY DEF Stronger, Provenance
<1>3. \A p \in Pairs : edge'[p] = "auto" => edge[p] = "auto"
  BY <1>2 DEF Edits, With, Graphs
<1>4. \A p \in owed' : p[2] \in Ids /\ (p \in owed \/ (p \in Edges(edge') /\ p = <<p[1], p[2]>>))
  BY DEF Edits, Owes, Edges, Pairs
<1>5. ASSUME NEW p \in owed', status'[p[2]] # "done" PROVE Reaches(Edges(edge'), p[1], p[2])
  <2>1. CASE p \in owed
    <3>1. Reaches(Edges(edge), p[1], p[2])
      BY <1>4, <1>5, <2>1 DEF OwedReached
    <3>2. Edges(edge) \in SUBSET Edges(edge')
      BY <1>1
    <3>3. QED
      BY <3>1, <3>2, ReachesMore
  <2>2. CASE p \in Edges(edge') /\ p = <<p[1], p[2]>>
    BY <2>2, ReachesDirect
  <2>3. QED
    BY <1>4, <2>1, <2>2
<1>6. QED
  BY <1>1, <1>3, <1>5 DEF OwedReached, Tight

\* Each step keeps it, in a history without the oddities.
LEMMA OrderStep == GraphTypeOK /\ GraphAcyclic /\ OrderInv /\ [GraphNext]_graphVars => OrderInv'
<1> SUFFICES ASSUME GraphTypeOK, GraphAcyclic, OrderInv, [GraphNext]_graphVars, oddities' = {} PROVE Kept'
  BY DEF OrderInv
<1>0. [GraphNext]_graphVars /\ RowsOK /\ EdgesOK /\ MemosOK /\ LogsOK
  BY TypeParts
<1>1. /\ made \in Nat /\ 1..made \subseteq Ids /\ Ids \subseteq Nat /\ MaxJobs \in Nat
      /\ Pairs = Ids \X Ids
  BY <1>0, Numbered DEF RowsOK
<1>2. oddities = {} => Tight(edge) /\ DepsDone /\ OwedReached /\ Marked /\ Acyclic(Edges(edge))
  BY DEF OrderInv, Kept, GraphAcyclic
<1>3. edge \in Graphs /\ owed \in SUBSET Pairs
  BY <1>0 DEF EdgesOK, LogsOK
<1>4. \A p \in Edges(edge) : p[1] \in Ids /\ p[2] \in Ids
  BY DEF Edges, Pairs
<1>5. QED
  <2>1. ASSUME NEW D \in SUBSET Ids, Creates(D) PROVE Kept'
    <3>1. PICK n \in Ids : oddities = {} /\ n = made + 1
      BY <2>1, <1>0, LogsPairs DEF Creates
    <3>2. status[n] = "absent" /\ \A k \in Ids : status'[k] = IF k = n THEN "pending" ELSE status[k]
      BY <2>1, <1>0, <1>1, <3>1 DEF Creates, RowsOK
    <3>3. D \in SUBSET Ids /\ {n} \X D \in SUBSET Pairs
      BY <2>1, <1>0, <1>1, <3>1, PairSets DEF Creates, MemosOK
    <3>4. Edits(With(edge, {n} \X D, "user"), {})
      BY <2>1, <3>1 DEF Creates
    <3>5. OwedReached' /\ Tight(edge') /\ Edges(edge') = Edges(edge) \union ({n} \X D)
      BY <1>2, <1>3, <3>1, <3>2, <3>3, <3>4, OwedGrows
    <3>6. n \notin split /\ kids[n] = {}
      BY <1>2, <3>1, <3>2 DEF Marked
    <3>7. UNCHANGED <<split, kids>> /\ ~Through(n)' /\ \A k \in Ids \ {n} : Through(k)' => Through(k)
      <4>1. UNCHANGED <<split, kids, parts, resolved, choice>>
        BY <2>1 DEF Creates, splitting
      <4>2. QED
        BY <3>2, <3>6, <4>1 DEF Through
    <3>8. DepsDone'
      <4>1. \A p \in {n} \X D : p[1] = n
        OBVIOUS
      <4>2. \A p \in Edges(edge') : Through(p[1])' => p \in Edges(edge) /\ Through(p[1])
        BY <1>4, <3>5, <3>6, <3>7, <4>1
      <4>3. QED
        BY <1>2, <3>1, <3>2, <4>2, DepsStayDone
    <3>9. Marked'
      BY <2>1, <1>0, <1>1, <1>2, <3>1, <3>2, <3>6, <3>7 DEF Creates, RowsOK, MemosOK, Marked, splitting
    <3>10. QED
      BY <3>5, <3>8, <3>9 DEF Kept
  <2>2. ASSUME SomeWave PROVE Kept'
    <3>1. PICK n, old, pos, declared :
              /\ n \in 1..3 /\ old \in Few(1..made, 1) /\ CreatesWave(n, old, declared, pos)
              /\ declared \in Few(((made + 1..made + n) \union old) \X ((made + 1..made + n) \union old), MaxDeclared)
              /\ pos \in Orders((made + 1..made + n) \union old)
      BY <2>2 DEF SomeWave
    <3> DEFINE N == made + 1..made + n
               ask == Proposed(declared, pos)
               e == Minimized(ask)
    <3>2. oddities = {} /\ old = {}
      BY <3>1 DEF CreatesWave
    <3>3. n \in Nat /\ made + n <= MaxJobs /\ N \in SUBSET Ids
      BY <3>1, <1>1 DEF CreatesWave, Room, Ids
    <3>4. DOMAIN pos = N /\ declared \subseteq N \X N
      BY <3>1, <3>2, FewOfPairs DEF Orders
    <3>5. ask \in Graphs /\ e \in Graphs /\ Acyclic(Edges(ask))
      BY <3>1, ProposedEdges, MinimizedEdges DEF CreatesWave
    <3>6. Tight(ask)
      BY DEF Tight, Proposed, Disjoint
    <3>7. \A p \in Edges(ask) : p = <<p[1], p[2]>> /\ p[1] \in N /\ p[2] \in N
      BY <3>4 DEF Edges, Proposed, Pairs
    <3> HIDE DEF ask, e
    <3>8. Tight(e) /\ Edges(e) \subseteq Edges(ask)
      BY <3>5, MinimizedTight, MinimizedEdges DEF e
    <3>9. \A a, b : Reaches(Edges(ask), a, b) => Reaches(Edges(e), a, b)
      BY <3>5, <3>6, MinimizedReaches DEF e
    <3>10. edge' = [p \in Pairs |-> IF p[1] \in N THEN e[p] ELSE edge[p]] /\ owed' = owed \union {p \in Edges(ask) : p[1] \in N}
      BY <3>1 DEF CreatesWave, e, ask
    <3>11. UNCHANGED <<resolved, split, kids, parts, choice>> /\ \A k \in Ids : status'[k] = IF k \in N THEN "pending" ELSE status[k]
      BY <3>1 DEF CreatesWave, splitting
    <3>12. \A k \in N : k > made /\ k \in Ids /\ status[k] = "absent"
      BY <1>0, <1>1, <3>3 DEF RowsOK
    <3>13. \A p \in Edges(edge) : p[1] \notin N /\ p[2] \notin N
      BY <1>0, <1>1, <1>4, <3>3, <3>12 DEF EdgesOK
    <3> HIDE DEF N
    <3>14. Edges(edge') = Edges(edge) \union Edges(e)
      BY <3>7, <3>8, <3>10, <3>13 DEF Edges
    <3>15. Tight(edge')
      BY <1>2, <3>2, <3>8, <3>10 DEF Tight
    <3>16. OwedReached'
      <4>1. \A p \in owed : p[2] \in Ids
        BY <1>3 DEF Pairs
      <4>2. ASSUME NEW p \in owed, status'[p[2]] # "done" PROVE Reaches(Edges(edge'), p[1], p[2])
        <5>1. status[p[2]] # "done"
          BY <3>11, <3>12, <4>1, <4>2
        <5>2. Reaches(Edges(edge), p[1], p[2])
          BY <1>2, <3>2, <5>1 DEF OwedReached
        <5>3. Edges(edge) \in SUBSET Edges(edge')
          BY <3>14
        <5>4. QED
          BY <5>2, <5>3, ReachesMore
      <4>3. ASSUME NEW p \in Edges(ask) PROVE Reaches(Edges(edge'), p[1], p[2])
        <5>1. Reaches(Edges(ask), p[1], p[2])
          BY <3>7, ReachesDirect
        <5>2. Edges(e) \in SUBSET Edges(edge')
          BY <3>14
        <5>3. QED
          BY <3>9, <5>1, <5>2, ReachesMore
      <4>4. QED
        BY <3>10, <4>2, <4>3 DEF OwedReached
    <3>17. \A k \in N : k \notin split /\ kids[k] = {}
      BY <1>0, <1>1, <1>2, <3>2, <3>12 DEF RowsOK, MemosOK, Marked
    <3>18. (\A k \in N : ~Through(k)') /\ (\A k \in Ids : Through(k)' => Through(k))
      BY <3>11, <3>12, <3>17 DEF Through
    <3>19. DepsDone'
      <4>1. \A p \in Edges(edge') : Through(p[1])' => p \in Edges(edge) /\ Through(p[1])
        BY <1>4, <3>7, <3>8, <3>14, <3>18
      <4>2. QED
        BY <1>2, <3>2, <3>11, <3>12, <4>1, DepsStayDone
    <3>20. Marked'
      <4>1. \A k \in Ids : choice[k] # 0 \/ kids[k] # {} \/ k \in split => status'[k] = status[k] /\ k \notin N
        BY <1>2, <3>2, <3>11, <3>12 DEF Marked
      <4>2. split \subseteq Ids
        BY <1>0, <1>1 DEF RowsOK
      <4>3. QED
        BY <1>2, <3>2, <3>11, <4>1, <4>2 DEF Marked
    <3>21. QED
      BY <3>15, <3>16, <3>19, <3>20 DEF Kept
  <2>3. ASSUME NEW a \in Ids, NEW b \in Ids, Adds(a, b) PROVE Kept'
    <3>1. oddities = {} /\ status[a] \notin {"running", "done"} /\ a \notin split /\ kids[a] = {}
      BY <2>3 DEF Adds, Waits
    <3>2. {<<a, b>>} \in SUBSET Pairs /\ Edits(With(edge, {<<a, b>>}, "user"), {})
      BY <2>3 DEF Adds, Pairs
    <3>3. UNCHANGED <<status, resolved, split, kids, parts, choice>>
      BY <2>3 DEF Adds, rows, splitting
    <3>4. OwedReached' /\ Tight(edge') /\ Edges(edge') = Edges(edge) \union {<<a, b>>}
      BY <1>2, <1>3, <3>1, <3>2, <3>3, OwedGrows
    <3>5. ~Through(a)' /\ \A k \in Ids : Through(k)' => Through(k)
      BY <3>1, <3>3 DEF Through
    <3>6. DepsDone'
      <4>1. \A p \in Edges(edge') : Through(p[1])' => p \in Edges(edge) /\ Through(p[1])
        BY <1>4, <3>4, <3>5
      <4>2. QED
        BY <1>2, <3>1, <3>3, <4>1, DepsStayDone
    <3>7. Marked'
      BY <1>2, <3>1, <3>3 DEF Marked
    <3>8. QED
      BY <3>4, <3>6, <3>7 DEF Kept
  <2>4. ASSUME NEW a \in Ids, NEW b \in Ids, Removes(a, b) PROVE Kept'
    BY <2>4 DEF Removes
  <2>5. ASSUME NEW j \in Ids, NEW D \in SUBSET Ids, FixesForward(j, D) PROVE Kept'
    BY <2>5 DEF FixesForward
  <2>6. ASSUME NEW j \in Ids, NEW D \in SUBSET Ids, Remediates(j, D) PROVE Kept'
    <3>0. PICK n \in Ids : n = made + 1
      BY <2>6, <1>0, <1>1, LogsPairs DEF Remediates
    <3> DEFINE A == {n} \X D
               d == With(edge, A, "auto")
               e == With(d, {<<j, n>>}, "semantic")
    <3>1. D \in SUBSET Ids /\ status[j] = "failed" /\ j # n
      BY <2>6, <3>0, <1>0, <1>1, LogsPairs DEF Remediates, RowsOK
    <3>2. A \in SUBSET Pairs /\ {<<j, n>>} \in SUBSET Pairs
      BY <3>1, PairSets DEF Pairs
    <3>3. /\ d \in Graphs /\ Edges(d) = Edges(edge) \union A
          /\ e \in Graphs /\ Edges(e) = Edges(edge) \union A \union {<<j, n>>}
      <4>1. d \in Graphs /\ Edges(d) = Edges(edge) \union A
        BY <3>2, <1>3, WithEdges DEF Provenance
      <4>2. e \in Graphs /\ Edges(e) = Edges(d) \union {<<j, n>>}
        BY <3>2, <4>1, WithEdges DEF Provenance
      <4>3. QED
        BY <4>1, <4>2
    <3>4. oddities = {} /\ edge' = Minimized(e) /\ Acyclic(Edges(e))
      BY <2>6, <3>0 DEF Remediates
    <3>5. UNCHANGED <<resolved, split, kids, parts, choice>> /\ owed' = owed \union A \union {<<j, n>>}
      BY <2>6, <3>0 DEF Remediates, splitting
    <3>6. status[n] = "absent" /\ \A k \in Ids : status'[k] = IF k = n THEN "pending" ELSE status[k]
      BY <2>6, <1>0, <1>1, <3>0, <3>1 DEF Remediates, RowsOK
    <3>7. Tight(e)
      <4>1. \A k \in D : ~Disjoint(<<n, k>>)
        BY <2>6, <3>0 DEF Remediates, Surveyed, Disjoint
      <4>2. \A u \in Provenance : /\ Stronger(u, "auto") = "auto" => u \in {"auto", "none"}
                                  /\ Stronger(u, "semantic") # "auto"
        BY DEF Stronger, Provenance
      <4>3. \A p \in Pairs : d[p] = "auto" => edge[p] = "auto" \/ p \in A
        BY DEF With
      <4>4. \A p \in Pairs : e[p] = "auto" => d[p] = "auto"
        BY <3>3, <4>2 DEF With, Graphs
      <4>5. \A p \in A : \E k \in D : p = <<n, k>>
        OBVIOUS
      <4>6. QED
        BY <1>2, <3>4, <4>1, <4>3, <4>4, <4>5 DEF Tight
    <3> HIDE DEF A, d, e
    <3>8. Tight(edge') /\ Edges(edge') \subseteq Edges(e)
      BY <3>3, <3>4, MinimizedTight, MinimizedEdges
    <3>9. \A a, b : Reaches(Edges(e), a, b) => Reaches(Edges(edge'), a, b)
      BY <3>3, <3>4, <3>7, MinimizedReaches
    <3>10. OwedReached'
      <4>1. \A p \in owed : p[2] \in Ids
        BY <1>3 DEF Pairs
      <4>2. ASSUME NEW p \in owed, status'[p[2]] # "done" PROVE Reaches(Edges(e), p[1], p[2])
        <5>1. Reaches(Edges(edge), p[1], p[2])
          BY <1>2, <3>4, <3>6, <4>1, <4>2 DEF OwedReached
        <5>2. Edges(edge) \in SUBSET Edges(e)
          BY <3>3
        <5>3. QED
          BY <5>1, <5>2, ReachesMore
      <4>3. ASSUME NEW p \in A \union {<<j, n>>} PROVE Reaches(Edges(e), p[1], p[2])
        <5>1. p = <<p[1], p[2]>> /\ p \in Edges(e)
          BY <3>2, <3>3 DEF Pairs
        <5>2. QED
          BY <5>1, ReachesDirect
      <4>4. QED
        BY <3>5, <3>9, <4>2, <4>3 DEF OwedReached
    <3>11. ~Through(n)' /\ ~Through(j)' /\ \A k \in Ids : Through(k)' => Through(k)
      BY <1>0, <1>1, <1>2, <3>1, <3>4, <3>5, <3>6 DEF Through, Marked, RowsOK, MemosOK
    <3>12. DepsDone'
      <4>1. \A p \in A \union {<<j, n>>} : p[1] \in {n, j}
        BY DEF A
      <4>2. \A p \in Edges(edge') : Through(p[1])' => p \in Edges(edge) /\ Through(p[1])
        BY <1>4, <3>3, <3>8, <3>11, <4>1
      <4>3. QED
        BY <1>2, <3>4, <3>6, <4>2, DepsStayDone
    <3>13. Marked'
      BY <1>0, <1>1, <1>2, <3>1, <3>4, <3>5, <3>6 DEF Marked, RowsOK, MemosOK
    <3>14. QED
      BY <3>8, <3>10, <3>12, <3>13 DEF Kept
  <2>7. ASSUME NEW j \in Ids, NEW r \in Ids, BaselineChooses(j, r) PROVE Kept'
    <3>1. oddities = {} /\ edge' = edge /\ owed' = owed
      BY <2>7 DEF BaselineChooses, ghosts
    <3>2. \A k \in Ids : status[k] = "done" => status'[k] = "done"
      BY <2>7, <1>0, <3>1, <1>2 DEF BaselineChooses, RowsOK, Active, Marked, rows
    <3>3. \A k \in Ids : Through(k)' => Through(k)
      BY <2>7, <1>0, <3>1, <1>2 DEF BaselineChooses, RowsOK, MemosOK, Active, Marked, Through, rows, splitting
    <3>4. DepsDone'
      BY <1>2, <1>4, <3>1, <3>2, <3>3, DepsStayDone
    <3>5. OwedReached' /\ Tight(edge')
      BY <1>2, <1>3, <3>1, <3>2, OwedStays
    <3>6. Marked'
      BY <2>7, <1>0, <1>2, <3>1 DEF BaselineChooses, RowsOK, MemosOK, Active, Marked, rows, splitting
    <3>7. QED
      BY <3>4, <3>5, <3>6 DEF Kept
  <2>8. ASSUME NEW j \in Ids, BaselineBlocks(j) PROVE Kept'
    <3>1. oddities = {}
      BY <2>8 DEF BaselineBlocks
    <3>2. status[j] \in {"running", "cancelled"} /\ kids[j] = {} /\ j \notin split
      BY <2>8, <1>2, <3>1 DEF BaselineBlocks, Marked
    <3>3. \A k \in Ids : status'[k] = IF k = j THEN "pending" ELSE status[k]
      BY <2>8, <1>0 DEF BaselineBlocks, RowsOK
    <3>4. UNCHANGED <<resolved, split, kids, parts>> /\ \A k \in Ids : choice'[k] = IF k = j THEN 0 ELSE choice[k]
      BY <2>8, <1>0 DEF BaselineBlocks, splitting, MemosOK
    <3>5. choice[j] \in Ids /\ {<<j, choice[j]>>} \in SUBSET Pairs
      BY <2>8, <1>0, <1>1 DEF BaselineBlocks, MemosOK, RowsOK
    <3>6. Edits(With(edge, {<<j, choice[j]>>}, "user"), {})
      BY <2>8 DEF BaselineBlocks
    <3>7. OwedReached' /\ Tight(edge') /\ Edges(edge') = Edges(edge) \union {<<j, choice[j]>>}
      BY <1>2, <1>3, <3>1, <3>2, <3>3, <3>5, <3>6, OwedGrows
    <3>8. ~Through(j)' /\ \A k \in Ids : Through(k)' => Through(k)
      BY <3>2, <3>3, <3>4 DEF Through
    <3>9. DepsDone'
      <4>1. \A p \in Edges(edge') : Through(p[1])' => p \in Edges(edge) /\ Through(p[1])
        BY <1>4, <3>7, <3>8
      <4>2. QED
        BY <1>2, <3>1, <3>2, <3>3, <4>1, DepsStayDone
    <3>10. Marked'
      <4>1. split \subseteq Ids
        BY <1>0, <1>1 DEF RowsOK
      <4>2. QED
        BY <1>2, <3>1, <3>2, <3>3, <3>4, <4>1 DEF Marked
    <3>11. QED
      BY <3>7, <3>9, <3>10 DEF Kept
  <2>9. ASSUME NEW j \in Ids, NEW D \in SUBSET Ids, CreatesChild(j, D) PROVE Kept'
    <3>1. PICK n \in Ids : oddities = {} /\ n = made + 1
      BY <2>9, <1>0, LogsPairs DEF CreatesChild
    <3>2. status[n] = "absent" /\ \A k \in Ids : status'[k] = IF k = n THEN "pending" ELSE status[k]
      BY <2>9, <1>0, <1>1, <3>1 DEF CreatesChild, RowsOK
    <3>3. D \in SUBSET Ids /\ {n} \X D \in SUBSET Pairs
      BY <2>9, <1>0, <1>1, <3>1, PairSets DEF CreatesChild, MemosOK
    <3>4. Edits(With(edge, {n} \X D, "user"), {})
      BY <2>9, <3>1 DEF CreatesChild
    <3>5. OwedReached' /\ Tight(edge') /\ Edges(edge') = Edges(edge) \union ({n} \X D)
      BY <1>2, <1>3, <3>1, <3>2, <3>3, <3>4, OwedGrows
    <3>6. n \notin split /\ kids[n] = {}
      BY <1>2, <3>1, <3>2 DEF Marked
    <3>7. ~Through(n)' /\ \A k \in Ids \ {n} : Through(k)' => Through(k)
      <4>1. split' = split /\ j # n /\ status[j] = "running"
        BY <2>9, <3>2 DEF CreatesChild
      <4>2. \A k \in Ids : kids'[k] = IF k = j THEN kids[k] \union {n} ELSE kids[k]
        BY <2>9, <1>0, <3>1 DEF CreatesChild, MemosOK
      <4>3. QED
        BY <3>2, <3>6, <4>1, <4>2 DEF Through
    <3>8. DepsDone'
      <4>1. \A p \in {n} \X D : p[1] = n
        OBVIOUS
      <4>2. \A p \in Edges(edge') : Through(p[1])' => p \in Edges(edge) /\ Through(p[1])
        BY <1>4, <3>5, <3>6, <3>7, <4>1
      <4>3. QED
        BY <1>2, <3>1, <3>2, <4>2, DepsStayDone
    <3>9. Marked'
      BY <2>9, <1>0, <1>1, <1>2, <3>1, <3>2, <3>6 DEF CreatesChild, RowsOK, MemosOK, Marked, splitting
    <3>10. QED
      BY <3>5, <3>8, <3>9 DEF Kept
  <2>10. ASSUME NEW j \in Ids, Hands(j) PROVE Kept'
    <3>1. oddities = {} /\ status' = status
      BY <2>10 DEF Hands, rows
    <3>2. kids[j] \in SUBSET Ids /\ j \notin kids[j] /\ Through(j) /\ status[j] # "done"
      BY <2>10, <1>0, <1>1, <1>2, <3>1 DEF Hands, MemosOK, Marked, Through
    <3>3. \A p \in Edges(edge) : p[1] = j => status[p[2]] = "done"
      BY <1>2, <3>1, <3>2 DEF DepsDone
    <3>4. Repoints(j, kids[j])
      BY <2>10 DEF Hands
    <3>5. /\ Tight(edge') /\ OwedReached'
          /\ \A p \in Edges(edge') : p \in Edges(edge) \/ <<p[1], j>> \in Edges(edge)
      BY <1>2, <1>3, <3>1, <3>2, <3>3, <3>4, RepointsKeeps
    <3>6. \A k \in Ids : Through(k)' => Through(k)
      BY <2>10 DEF Hands, Through, rows, splitting
    <3>7. \A p \in Edges(edge') : Through(p[1]) => <<p[1], j>> \notin Edges(edge)
      BY <1>2, <3>1, <3>2 DEF DepsDone
    <3>8. DepsDone'
      <4>1. \A p \in Edges(edge') : p[1] \in Ids
        BY DEF Edges, Pairs
      <4>2. \A p \in Edges(edge') : Through(p[1])' => p \in Edges(edge) /\ Through(p[1])
        BY <3>5, <3>6, <3>7, <4>1
      <4>3. QED
        BY <1>2, <3>1, <4>2, DepsStayDone
    <3>9. Marked'
      BY <2>10, <1>0, <1>2, <3>1, <3>2 DEF Hands, Marked, MemosOK, rows, splitting
    <3>10. QED
      BY <3>5, <3>8, <3>9 DEF Kept
  <2>11. ASSUME NEW j \in Ids, Supersedes(j) PROVE Kept'
    <3>1. oddities = {} /\ edge' = edge /\ owed' = owed
      BY <2>11 DEF Supersedes, ghosts
    <3>2. \A k \in Ids : status[k] = "done" => status'[k] = "done"
      BY <2>11, <1>0, <3>1, <1>2 DEF Supersedes, RowsOK, Active, Marked, rows
    <3>3. \A k \in Ids : Through(k)' => Through(k)
      BY <2>11, <1>0, <3>1, <1>2 DEF Supersedes, RowsOK, MemosOK, Active, Marked, Through, rows, splitting
    <3>4. DepsDone'
      BY <1>2, <1>4, <3>1, <3>2, <3>3, DepsStayDone
    <3>5. OwedReached' /\ Tight(edge')
      BY <1>2, <1>3, <3>1, <3>2, OwedStays
    <3>6. Marked'
      BY <2>11, <1>0, <1>2, <3>1 DEF Supersedes, RowsOK, MemosOK, Active, Marked, rows, splitting
    <3>7. QED
      BY <3>4, <3>5, <3>6 DEF Kept
  <2>12. ASSUME NEW j \in Ids, Dies(j) PROVE Kept'
    <3>1. oddities = {} /\ edge' = edge /\ owed' = owed
      BY <2>12 DEF Dies, ghosts
    <3>2. \A k \in Ids : status[k] = "done" => status'[k] = "done"
      BY <2>12, <1>0, <3>1, <1>2 DEF Dies, RowsOK, Active, Marked, rows
    <3>3. \A k \in Ids : Through(k)' => Through(k)
      BY <2>12, <1>0, <3>1, <1>2 DEF Dies, RowsOK, MemosOK, Active, Marked, Through, rows, splitting
    <3>4. DepsDone'
      BY <1>2, <1>4, <3>1, <3>2, <3>3, DepsStayDone
    <3>5. OwedReached' /\ Tight(edge')
      BY <1>2, <1>3, <3>1, <3>2, OwedStays
    <3>6. Marked'
      BY <2>12, <1>0, <1>2, <3>1 DEF Dies, RowsOK, MemosOK, Active, Marked, rows, splitting
    <3>7. QED
      BY <3>4, <3>5, <3>6 DEF Kept
  <2>13. ASSUME NEW j \in Ids, RepointsOrphans(j) PROVE Kept'
    <3>1. oddities = {} /\ status' = status
      BY <2>13 DEF RepointsOrphans, rows
    <3>2. parts[j] \in SUBSET Ids /\ j \notin parts[j] /\ Through(j) /\ status[j] # "done"
      BY <2>13, <1>0, <1>1, <1>2, <3>1 DEF RepointsOrphans, MemosOK, Marked, Through
    <3>3. \A p \in Edges(edge) : p[1] = j => status[p[2]] = "done"
      BY <1>2, <3>1, <3>2 DEF DepsDone
    <3>4. Repoints(j, parts[j])
      BY <2>13 DEF RepointsOrphans
    <3>5. /\ Tight(edge') /\ OwedReached'
          /\ \A p \in Edges(edge') : p \in Edges(edge) \/ <<p[1], j>> \in Edges(edge)
      BY <1>2, <1>3, <3>1, <3>2, <3>3, <3>4, RepointsKeeps
    <3>6. \A k \in Ids : Through(k)' => Through(k)
      BY <2>13 DEF RepointsOrphans, Through, rows, splitting
    <3>7. \A p \in Edges(edge') : Through(p[1]) => <<p[1], j>> \notin Edges(edge)
      BY <1>2, <3>1, <3>2 DEF DepsDone
    <3>8. DepsDone'
      <4>1. \A p \in Edges(edge') : p[1] \in Ids
        BY DEF Edges, Pairs
      <4>2. \A p \in Edges(edge') : Through(p[1])' => p \in Edges(edge) /\ Through(p[1])
        BY <3>5, <3>6, <3>7, <4>1
      <4>3. QED
        BY <1>2, <3>1, <4>2, DepsStayDone
    <3>9. Marked'
      BY <2>13, <1>0, <1>2, <3>1, <3>2 DEF RepointsOrphans, Marked, MemosOK, rows, splitting
    <3>10. QED
      BY <3>5, <3>8, <3>9 DEF Kept
  <2>14. ASSUME NEW j \in Ids, Claims(j) PROVE Kept'
    <3>1. oddities = {} /\ edge' = edge /\ owed' = owed
      BY <2>14 DEF Claims, ghosts
    <3>2. \A k \in Ids : status[k] = "done" => status'[k] = "done"
      BY <2>14, <1>0, <3>1, <1>2 DEF Claims, RowsOK, Active, Marked, rows
    <3>3. \A p \in Edges(edge) : Through(p[1])' => Through(p[1]) \/ status[p[2]] = "done"
      <4>1. \A k \in Ids \ {j} : Through(k)' => Through(k)
        BY <2>14, <1>0, <3>1 DEF Claims, RowsOK, Through, splitting
      <4>2. \A p \in Edges(edge) : p = <<p[1], p[2]>> /\ edge[p] # "none"
        BY DEF Edges, Pairs
      <4>3. \A p \in Edges(edge) : p[1] = j => status[p[2]] = "done"
        BY <2>14, <1>2, <1>4, <3>1, <4>2 DEF Claims, Settled, Marked
      <4>4. QED
        BY <1>4, <4>1, <4>3
    <3>4. DepsDone'
      BY <1>2, <1>4, <3>1, <3>2, <3>3, DepsStayDone
    <3>5. OwedReached' /\ Tight(edge')
      BY <1>2, <1>3, <3>1, <3>2, OwedStays
    <3>6. Marked'
      BY <2>14, <1>0, <1>2, <3>1 DEF Claims, RowsOK, MemosOK, Active, Marked, rows, splitting
    <3>7. QED
      BY <3>4, <3>5, <3>6 DEF Kept
  <2>15. ASSUME NEW j \in Ids, Ends(j) PROVE Kept'
    <3>1. oddities = {} /\ edge' = edge /\ owed' = owed
      BY <2>15 DEF Ends, ghosts
    <3>2. \A k \in Ids : status[k] = "done" => status'[k] = "done"
      BY <2>15, <1>0, <3>1, <1>2 DEF Ends, RowsOK, Active, Marked, rows
    <3>3. \A k \in Ids : Through(k)' => Through(k)
      BY <2>15, <1>0, <3>1, <1>2 DEF Ends, RowsOK, MemosOK, Active, Marked, Through, rows, splitting
    <3>4. DepsDone'
      BY <1>2, <1>4, <3>1, <3>2, <3>3, DepsStayDone
    <3>5. OwedReached' /\ Tight(edge')
      BY <1>2, <1>3, <3>1, <3>2, OwedStays
    <3>6. Marked'
      <4>1. split \subseteq Ids
        BY <1>0, <1>1 DEF RowsOK
      <4>2. kids[j] = {} /\ choice[j] = 0 /\ j \notin split
        BY <2>15, <1>2, <3>1 DEF Ends, Marked
      <4>3. \A k \in Ids \ {j} : status'[k] = status[k]
        BY <2>15, <1>0 DEF Ends, RowsOK
      <4>4. UNCHANGED <<resolved, split, kids, parts, choice>>
        BY <2>15 DEF Ends, splitting
      <4>5. QED
        BY <1>2, <3>1, <4>1, <4>2, <4>3, <4>4 DEF Marked
    <3>7. QED
      BY <3>4, <3>5, <3>6 DEF Kept
  <2>16. ASSUME NEW j \in Ids, Cancels(j) PROVE Kept'
    <3>1. oddities = {} /\ edge' = edge /\ owed' = owed
      BY <2>16 DEF Cancels, ghosts
    <3>2. \A k \in Ids : status[k] = "done" => status'[k] = "done"
      BY <2>16, <1>0, <3>1, <1>2 DEF Cancels, RowsOK, Active, Marked, rows
    <3>3. \A k \in Ids : Through(k)' => Through(k)
      BY <2>16, <1>0, <3>1, <1>2 DEF Cancels, RowsOK, MemosOK, Active, Marked, Through, rows, splitting
    <3>4. DepsDone'
      BY <1>2, <1>4, <3>1, <3>2, <3>3, DepsStayDone
    <3>5. OwedReached' /\ Tight(edge')
      BY <1>2, <1>3, <3>1, <3>2, OwedStays
    <3>6. Marked'
      BY <2>16, <1>0, <1>2, <3>1 DEF Cancels, RowsOK, MemosOK, Active, Marked, rows, splitting
    <3>7. QED
      BY <3>4, <3>5, <3>6 DEF Kept
  <2>17. ASSUME NEW j \in Ids, Revives(j) PROVE Kept'
    <3>1. oddities = {} /\ edge' = edge /\ owed' = owed /\ j \notin split
      BY <2>17 DEF Revives
    <3>2. \A k \in Ids : status[k] = "done" => status'[k] = "done"
      BY <2>17, <1>0, <3>1, <1>2 DEF Revives, RowsOK, Active, Marked, rows
    <3>3. \A k \in Ids : Through(k)' => Through(k)
      BY <2>17, <1>0, <3>1, <1>2 DEF Revives, RowsOK, MemosOK, Active, Marked, Through, rows, splitting
    <3>4. DepsDone'
      BY <1>2, <1>4, <3>1, <3>2, <3>3, DepsStayDone
    <3>5. OwedReached' /\ Tight(edge')
      BY <1>2, <1>3, <3>1, <3>2, OwedStays
    <3>6. Marked'
      BY <2>17, <1>0, <1>2, <3>1 DEF Revives, RowsOK, MemosOK, Active, Marked, rows, splitting
    <3>7. QED
      BY <3>4, <3>5, <3>6 DEF Kept
  <2>18. ASSUME NEW j \in Ids, BlocksDependent(j) PROVE Kept'
    <3>1. oddities = {} /\ edge' = edge /\ owed' = owed
      BY <2>18 DEF BlocksDependent, ghosts
    <3>2. \A k \in Ids : status[k] = "done" => status'[k] = "done"
      BY <2>18, <1>0, <3>1, <1>2 DEF BlocksDependent, RowsOK, Active, Marked, rows
    <3>3. \A k \in Ids : Through(k)' => Through(k)
      BY <2>18, <1>0, <3>1, <1>2 DEF BlocksDependent, RowsOK, MemosOK, Active, Marked, Through, rows, splitting
    <3>4. DepsDone'
      BY <1>2, <1>4, <3>1, <3>2, <3>3, DepsStayDone
    <3>5. OwedReached' /\ Tight(edge')
      BY <1>2, <1>3, <3>1, <3>2, OwedStays
    <3>6. Marked'
      BY <2>18, <1>0, <1>2, <3>1 DEF BlocksDependent, RowsOK, MemosOK, Active, Marked, rows, splitting
    <3>7. QED
      BY <3>4, <3>5, <3>6 DEF Kept
  <2>19. ASSUME NEW j \in Ids, Resolves(j) PROVE Kept'
    BY <2>19 DEF Resolves
  <2>20. ASSUME Reconciles PROVE Kept'
    <3>1. oddities = {} /\ edge' = Minimized(edge) /\ UNCHANGED <<status, resolved, split, kids, parts, choice, owed>>
      BY <2>20 DEF Reconciles, rows, splitting, ghosts
    <3>2. Tight(edge') /\ Edges(edge') \subseteq Edges(edge)
      BY <1>3, <3>1, MinimizedTight, MinimizedEdges
    <3>3. \A a, b : Reaches(Edges(edge), a, b) => Reaches(Edges(edge'), a, b)
      BY <1>2, <1>3, <3>1, MinimizedReaches
    <3>4. OwedReached'
      BY <1>2, <3>1, <3>3 DEF OwedReached
    <3>5. DepsDone' /\ Marked'
      BY <1>2, <3>1, <3>2 DEF DepsDone, Through, Marked
    <3>6. QED
      BY <3>2, <3>4, <3>5 DEF Kept
  <2>21. ASSUME NEW p \in Pairs, Repairs(p) PROVE Kept'
    BY <2>21 DEF Repairs
  <2>22. ASSUME EndsScan PROVE Kept'
    <3>1. oddities = {} /\ edge' = edge /\ owed' = owed
      BY <2>22 DEF EndsScan, ghosts
    <3>2. \A k \in Ids : status[k] = "done" => status'[k] = "done"
      BY <2>22, <1>0, <3>1, <1>2 DEF EndsScan, RowsOK, Active, Marked, rows
    <3>3. \A k \in Ids : Through(k)' => Through(k)
      BY <2>22, <1>0, <3>1, <1>2 DEF EndsScan, RowsOK, MemosOK, Active, Marked, Through, rows, splitting
    <3>4. DepsDone'
      BY <1>2, <1>4, <3>1, <3>2, <3>3, DepsStayDone
    <3>5. OwedReached' /\ Tight(edge')
      BY <1>2, <1>3, <3>1, <3>2, OwedStays
    <3>6. Marked'
      BY <2>22, <1>0, <1>2, <3>1 DEF EndsScan, RowsOK, MemosOK, Active, Marked, rows, splitting
    <3>7. QED
      BY <3>4, <3>5, <3>6 DEF Kept
  <2>23. ASSUME UNCHANGED graphVars PROVE Kept'
    BY <2>23, <1>2 DEF graphVars, rows, splitting, ghosts, Kept, Tight, DepsDone, OwedReached, Marked, Through
  <2>24. QED
    BY <1>0, <2>1, <2>2, <2>3, <2>4, <2>5, <2>6, <2>7, <2>8, <2>9, <2>10, <2>11, <2>12, <2>13, <2>14, <2>15, <2>16, <2>17, <2>18, <2>19, <2>20, <2>21, <2>22, <2>23
       DEF GraphNext

\* There is nothing to wait for at first.
LEMMA OrderInit == GraphInit => OrderInv
  BY DEF GraphInit, OrderInv, Kept, Tight, DepsDone, OwedReached, Marked, Edges

\* No other action makes a job run.
LEMMA OnlyClaims ==
    ASSUME RowsOK, [GraphNext]_graphVars, NEW j \in Ids, status[j] = "pending", status'[j] = "running"
    PROVE  Claims(j)
<1>1. ASSUME NEW D \in SUBSET Ids, Creates(D) PROVE FALSE
  BY <1>1 DEF Creates, RowsOK
<1>2. ~SomeWave
  <2>1. ASSUME NEW n, NEW old, NEW declared, NEW pos, CreatesWave(n, old, declared, pos) PROVE FALSE
    <3>1. status' = [k \in Ids |-> IF k \in made + 1..made + n THEN "pending" ELSE status[k]]
      BY <2>1 DEF CreatesWave
    <3>2. status'[j] \in {"pending", status[j]}
      BY <3>1
    <3>3. QED
      BY <3>2
  <2>2. QED
    BY <2>1 DEF SomeWave
<1>3. ASSUME NEW a \in Ids, NEW b \in Ids, Adds(a, b) \/ Removes(a, b) PROVE FALSE
  BY <1>3 DEF Adds, Removes, rows
<1>4. ASSUME NEW i \in Ids, NEW D \in SUBSET Ids, FixesForward(i, D) \/ Remediates(i, D) \/ CreatesChild(i, D) PROVE FALSE
  BY <1>4 DEF FixesForward, Remediates, CreatesChild, RowsOK
<1>5. ASSUME NEW i \in Ids, NEW r \in Ids, BaselineChooses(i, r) PROVE FALSE
  BY <1>5 DEF BaselineChooses, rows
<1>6. ASSUME NEW i \in Ids, Hands(i) \/ RepointsOrphans(i) \/ Resolves(i) PROVE FALSE
  BY <1>6 DEF Hands, RepointsOrphans, Resolves, rows
<1>7. ASSUME NEW i \in Ids, BaselineBlocks(i) \/ Supersedes(i) \/ Dies(i) \/ Ends(i) PROVE FALSE
  BY <1>7 DEF BaselineBlocks, Supersedes, Dies, Ends, RowsOK
<1>8. ASSUME NEW i \in Ids, Cancels(i) \/ Revives(i) \/ BlocksDependent(i) PROVE FALSE
  BY <1>8 DEF Cancels, Revives, BlocksDependent, RowsOK
<1>9. ASSUME NEW i \in Ids, Claims(i) PROVE i = j
  BY <1>9 DEF Claims, RowsOK
<1>10. ~Reconciles /\ ~EndsScan /\ \A p \in Pairs : ~Repairs(p)
  BY DEF Reconciles, EndsScan, Repairs, rows
<1>11. status' # status
  OBVIOUS
<1>12. GraphNext
  BY <1>11 DEF graphVars, rows
<1>13. QED
  BY <1>1, <1>2, <1>3, <1>4, <1>5, <1>6, <1>7, <1>8, <1>9, <1>10, <1>12 DEF GraphNext

\* A job is claimed only: what it is owed is reached over jobs that are done.
LEMMA ClaimInOrder ==
    ASSUME GraphTypeOK, OrderInv, [GraphNext]_graphVars, oddities' = {},
           NEW j \in Ids, status[j] = "pending", status'[j] = "running",
           NEW b \in Ids, <<j, b>> \in owed
    PROVE  Settled(b)
<1>0. [GraphNext]_graphVars /\ RowsOK /\ EdgesOK /\ MemosOK /\ LogsOK
  BY TypeParts
<1>1. Claims(j)
  BY <1>0, OnlyClaims
<1>2. oddities = {}
  BY <1>1 DEF Claims, ghosts
<1>3. DepsDone /\ OwedReached /\ resolved = {}
  BY <1>2 DEF OrderInv, Kept, Marked
<1>4. CASE Reaches(Edges(edge), j, b)
  <2> DEFINE S == {k \in Ids : status[k] = "done"}
  <2>1. ASSUME NEW p \in Edges(edge), p[1] \in S \union {j} PROVE p[2] \in S
    <3>1. p[2] \in Ids /\ p = <<p[1], p[2]>> /\ edge[p] # "none"
      BY DEF Edges, Pairs
    <3>2. CASE p[1] = j
      BY <1>1, <1>3, <3>1, <3>2 DEF Claims, Settled
    <3>3. CASE p[1] \in S
      BY <1>3, <3>1, <3>3 DEF DepsDone, Through
    <3>4. QED
      BY <2>1, <3>2, <3>3
  <2>2. S \in SUBSET Ids
    OBVIOUS
  <2>3. b \in S
    BY <1>4, <2>1, <2>2 DEF Reaches
  <2>4. QED
    BY <2>3 DEF Settled
<1>5. status[b] = "done" \/ Reaches(Edges(edge), j, b)
  BY <1>3 DEF OwedReached
<1>6. QED
  BY <1>4, <1>5 DEF Settled

\* A job is not claimed before what it was asked to wait for is done, however often
\* edges were left out as redundant and jobs were split in between.
THEOREM OrderIsKept == GraphSpec => OrderKept
<1> DEFINE I == GraphTypeOK /\ GraphAcyclic /\ OrderInv
<1>1. GraphInit => I
  BY GraphTypeInit, AcyclicInit, OrderInit
<1>2. I /\ [GraphNext]_graphVars => I'
  BY GraphTypeStep, AcyclicStep, OrderStep
<1>3. I /\ [GraphNext]_graphVars =>
        [oddities' = {} =>
          \A j \in Ids : status[j] = "pending" /\ status'[j] = "running" =>
            \A b \in Ids : <<j, b>> \in owed => Settled(b)]_graphVars
  BY ClaimInOrder
<1>4. QED
  BY <1>1, <1>2, <1>3, PTL DEF GraphSpec, OrderKept

-----------------------------------------------------------------------------
(* Functions that are defined by recursion *)

\* f[n] is F, n times.
Iterates(f, X, F, base, N) ==
    /\ f \in [0..N -> X] /\ f[0] = base
    /\ \A n \in 1..N : f[n] = F[f[n - 1]]

\* A step that is iterated gives a function on 0..N.
LEMMA Iterated ==
    ASSUME NEW X, NEW F \in [X -> X], NEW base \in X, NEW N \in Nat
    PROVE  \E f : Iterates(f, X, F, base, N)
<1> DEFINE Good(f, n) == f[0] = base /\ \A m \in 1..n : f[m] = F[f[m - 1]]
           Some(n) == \E f \in [0..n -> X] : Good(f, n)
           T == {n \in Nat : Some(n)}
<1>1. Some(0)
  <2>1. [m \in 0..0 |-> base] \in [0..0 -> X] /\ Good([m \in 0..0 |-> base], 0)
    OBVIOUS
  <2>2. QED
    BY <2>1
<1>2. ASSUME NEW n \in Nat, Some(n) PROVE Some(n + 1)
  <2>1. PICK f \in [0..n -> X] : Good(f, n)
    BY <1>2
  <2> DEFINE g == [m \in 0..(n + 1) |-> IF m = n + 1 THEN F[f[n]] ELSE f[m]]
  <2>2. g \in [0..(n + 1) -> X]
    OBVIOUS
  <2>3. g[0] = base
    BY <2>1
  <2>4. ASSUME NEW m \in 1..(n + 1) PROVE g[m] = F[g[m - 1]]
    <3>1. CASE m = n + 1
      BY <3>1
    <3>2. CASE m # n + 1
      <4>1. m \in 1..n /\ m - 1 \in 0..n /\ m \in 0..(n + 1) /\ m - 1 \in 0..(n + 1) /\ m - 1 # n + 1
        BY <3>2
      <4>2. g[m] = f[m] /\ g[m - 1] = f[m - 1]
        BY <3>2, <4>1
      <4>3. QED
        BY <4>1, <4>2, <2>1
    <3>3. QED
      BY <3>1, <3>2
  <2>5. Good(g, n + 1)
    BY <2>3, <2>4
  <2>6. QED
    BY <2>2, <2>5
<1> HIDE DEF Some
<1>3. 0 \in T /\ \A n \in Nat : n \in T => n + 1 \in T
  BY <1>1, <1>2
<1>4. N \in T
  BY <1>3, EveryNumber
<1>5. QED
  BY <1>4 DEF Some, Iterates

\* f[s] is what folding F over s gives, the elements in the order of CHOOSE.
Folds(f, S, X, F, base) ==
    /\ f \in [SUBSET S -> X]
    /\ \A s \in SUBSET S :
          f[s] = IF s = {} THEN base
                 ELSE F[<<CHOOSE x \in s : TRUE, f[s \ {CHOOSE x \in s : TRUE}]>>]

\* So does a fold over the subsets of a finite set.
LEMMA Folded ==
    ASSUME NEW S, IsFiniteSet(S), NEW X, NEW F \in [S \X X -> X], NEW base \in X
    PROVE  \E f : Folds(f, S, X, F, base)
<1> DEFINE First(s) == CHOOSE x \in s : TRUE
           Small(n) == {s \in SUBSET S : Cardinality(s) <= n}
           Good(f, n) == \A s \in Small(n) :
                            f[s] = IF s = {} THEN base ELSE F[<<First(s), f[s \ {First(s)}]>>]
           Some(n) == \E f \in [Small(n) -> X] : Good(f, n)
           T == {n \in Nat : Some(n)}
<1>a. \A s \in SUBSET S : /\ IsFiniteSet(s) /\ Cardinality(s) \in Nat
                          /\ Cardinality(s) <= Cardinality(S)
                          /\ Cardinality(s) = 0 <=> s = {}
  BY FS_Subset, FS_CardinalityType, FS_EmptySet
<1>b. ASSUME NEW s \in SUBSET S, s # {}
      PROVE  /\ First(s) \in s /\ s \ {First(s)} \in SUBSET S
             /\ Cardinality(s \ {First(s)}) = Cardinality(s) - 1
  BY <1>a, <1>b, FS_RemoveElement
<1> HIDE DEF First
<1>1. Some(0)
  <2>1. Small(0) = {{}}
    BY <1>a
  <2>2. [s \in Small(0) |-> base] \in [Small(0) -> X] /\ Good([s \in Small(0) |-> base], 0)
    BY <2>1
  <2>3. QED
    BY <2>2
<1>2. ASSUME NEW n \in Nat, Some(n) PROVE Some(n + 1)
  <2>1. PICK f \in [Small(n) -> X] : Good(f, n)
    BY <1>2
  <2> DEFINE g == [s \in Small(n + 1) |->
                     IF s = {} THEN base ELSE F[<<First(s), f[s \ {First(s)}]>>]]
  <2>2. \A s \in Small(n + 1) : s # {} => s \ {First(s)} \in Small(n) /\ First(s) \in S
    BY <1>a, <1>b
  <2>3. g \in [Small(n + 1) -> X]
    BY <2>2
  <2>4. Small(n) \subseteq Small(n + 1)
    BY <1>a
  <2>5. \A s \in Small(n) : g[s] = f[s]
    BY <2>1, <2>4
  <2>6. ASSUME NEW s \in Small(n + 1), s # {}
        PROVE  g[s] = F[<<First(s), g[s \ {First(s)}]>>]
    <3>1. g[s \ {First(s)}] = f[s \ {First(s)}]
      BY <2>2, <2>5, <2>6
    <3>2. g[s] = F[<<First(s), f[s \ {First(s)}]>>]
      BY <2>6
    <3>3. QED
      BY <3>1, <3>2
  <2>7. Good(g, n + 1)
    BY <2>6
  <2>8. QED
    BY <2>3, <2>7
<1>3. 0 \in T /\ \A n \in Nat : n \in T => n + 1 \in T
  <2> HIDE DEF Some
  <2>1. QED
    BY <1>1, <1>2
<1>4. Cardinality(S) \in Nat /\ Small(Cardinality(S)) = SUBSET S
  BY <1>a
<1>5. Some(Cardinality(S))
  <2> HIDE DEF Some
  <2>1. Cardinality(S) \in T
    BY <1>3, <1>4, EveryNumber
  <2>2. QED
    BY <2>1
<1>6. PICK f \in [SUBSET S -> X] :
           \A s \in SUBSET S :
              f[s] = IF s = {} THEN base ELSE F[<<First(s), f[s \ {First(s)}]>>]
  BY <1>4, <1>5
<1>7. QED
  BY <1>6 DEF First, Folds

-----------------------------------------------------------------------------
(* Kahn's algorithm *)

\* What is ordered after each round.
LEMMA OrderedStep ==
    ASSUME NEW G, IsFiniteSet(G), NEW pred \in [G -> SUBSET G]
    PROVE  /\ Cardinality(G) \in Nat
           /\ Ordered(G, pred) \in [0..Cardinality(G) -> SUBSET G]
           /\ Ordered(G, pred)[0] = {}
           /\ \A n \in 1..Cardinality(G) :
                 Ordered(G, pred)[n] = Ordered(G, pred)[n - 1]
                     \union {s \in G : pred[s] \subseteq Ordered(G, pred)[n - 1]}
<1> DEFINE N == Cardinality(G)
           Next(D) == D \union {s \in G : pred[s] \subseteq D}
           F == [D \in SUBSET G |-> Next(D)]
           Is(h) == h = [n \in 0..N |-> IF n = 0 THEN {} ELSE Next(h[n - 1])]
           after == Ordered(G, pred)
<1>1. N \in Nat
  BY FS_CardinalityType
<1>2. PICK f : Iterates(f, SUBSET G, F, {}, N)
  <2>a. \A D \in SUBSET G : Next(D) \in SUBSET G
    OBVIOUS
  <2>1. F \in [SUBSET G -> SUBSET G] /\ {} \in SUBSET G
    <3> HIDE DEF Next
    <3>1. QED
      BY <2>a
  <2> HIDE DEF F, N
  <2>2. QED
    BY <1>1, <2>1, Iterated
<1>b. f \in [0..N -> SUBSET G] /\ f[0] = {} /\ \A n \in 1..N : f[n] = F[f[n - 1]]
  BY <1>2 DEF Iterates
<1>3. Is(f)
  <2> SUFFICES ASSUME NEW n \in 0..N PROVE f[n] = IF n = 0 THEN {} ELSE Next(f[n - 1])
    BY <1>b
  <2>1. CASE n = 0
    BY <1>b, <2>1
  <2>2. CASE n # 0
    <3>1. n \in 1..N /\ n - 1 \in 0..N
      BY <1>1, <2>2
    <3>2. QED
      BY <1>b, <2>2, <3>1
  <2>3. QED
    BY <2>1, <2>2
<1>4. Is(after)
  BY <1>3 DEF Ordered
<1> HIDE DEF after
<1>5. after[0] = {} /\ \A n \in 1..N : after[n] = Next(after[n - 1])
  <2> HIDE DEF Next, N
  <2>1. 0 \in 0..N /\ \A n \in 1..N : n \in 0..N /\ n # 0
    BY <1>1
  <2>2. QED
    BY <1>4, <2>1
<1> DEFINE T == {n \in Nat : n <= N => after[n] \in SUBSET G}
<1>6. 0 \in T /\ \A n \in Nat : n \in T => n + 1 \in T
  <2>1. 0 \in T
    BY <1>5
  <2>2. ASSUME NEW n \in Nat, n \in T, n + 1 <= N PROVE after[n + 1] \in SUBSET G
    <3>1. n + 1 \in 1..N /\ n <= N /\ (n + 1) - 1 = n
      BY <1>1, <2>2
    <3>2. QED
      BY <1>5, <2>2, <3>1
  <2>3. QED
    BY <2>1, <2>2
<1>7. after \in [0..N -> SUBSET G]
  <2>1. \A n \in 0..N : after[n] \in SUBSET G
    <3>1. Nat \subseteq T
      <4> HIDE DEF T
      <4>1. QED
        BY <1>6, EveryNumber
    <3>2. QED
      BY <1>1, <3>1
  <2>2. DOMAIN after = 0..N /\ after = [n \in DOMAIN after |-> after[n]]
    BY <1>4
  <2>3. QED
    BY <2>1, <2>2
<1>8. QED
  BY <1>1, <1>5, <1>7 DEF after

\* What is ordered stays ordered.
LEMMA OrderedGrows ==
    ASSUME NEW G, IsFiniteSet(G), NEW pred \in [G -> SUBSET G],
           NEW m \in 0..Cardinality(G), NEW n \in 0..Cardinality(G), m <= n
    PROVE  Ordered(G, pred)[m] \subseteq Ordered(G, pred)[n]
<1> DEFINE N == Cardinality(G)
           after == Ordered(G, pred)
           T == {k \in Nat : m + k <= N => after[m] \subseteq after[m + k]}
<1>1. /\ N \in Nat
      /\ \A k \in 1..N : after[k - 1] \subseteq after[k]
  BY OrderedStep
<1> HIDE DEF after, N
<1>2. 0 \in T
  BY DEF N
<1>3. ASSUME NEW k \in Nat, k \in T, m + (k + 1) <= N
      PROVE  after[m] \subseteq after[m + (k + 1)]
  <2>1. m \in Nat /\ m + (k + 1) \in 1..N /\ (m + (k + 1)) - 1 = m + k /\ m + k <= N
    BY <1>1, <1>3 DEF N
  <2>2. QED
    BY <1>1, <1>3, <2>1
<1>4. Nat \subseteq T
  <2>1. 0 \in T /\ \A k \in Nat : k \in T => k + 1 \in T
    BY <1>2, <1>3
  <2> HIDE DEF T
  <2>2. QED
    BY <2>1, EveryNumber
<1>5. n - m \in Nat /\ m + (n - m) = n /\ n <= N
  BY <1>1 DEF N
<1>6. QED
  BY <1>4, <1>5 DEF after

\* Kahn's algorithm orders everything if no set of stories waits for itself.
LEMMA SortsOut ==
    ASSUME NEW G, IsFiniteSet(G), NEW pred \in [G -> SUBSET G],
           \A X \in SUBSET G : X # {} => \E s \in X : pred[s] \cap X = {}
    PROVE  Sortable(G, pred)
<1> DEFINE N == Cardinality(G)
           after == Ordered(G, pred)
           T == {n \in Nat : n <= N => after[n] = G \/ n <= Cardinality(after[n])}
<1>1. /\ N \in Nat /\ after \in [0..N -> SUBSET G] /\ after[0] = {}
      /\ \A n \in 1..N : after[n] = after[n - 1] \union {s \in G : pred[s] \subseteq after[n - 1]}
  BY OrderedStep
<1>2. \A D \in SUBSET G : IsFiniteSet(D) /\ Cardinality(D) \in Nat /\ Cardinality(D) <= N
                          /\ (Cardinality(D) = N => D = G)
  BY FS_Subset, FS_CardinalityType
<1> HIDE DEF after, N
<1>3. 0 \in T
  BY <1>1, FS_EmptySet
<1>4. ASSUME NEW n \in Nat, n \in T, n + 1 <= N
      PROVE  after[n + 1] = G \/ n + 1 <= Cardinality(after[n + 1])
  <2>1. n + 1 \in 1..N /\ (n + 1) - 1 = n /\ n \in 0..N /\ n + 1 \in 0..N
    BY <1>1, <1>4
  <2>2. after[n + 1] = after[n] \union {s \in G : pred[s] \subseteq after[n]}
    BY <1>1, <2>1
  <2>3. after[n] \in SUBSET G /\ after[n + 1] \in SUBSET G
    BY <1>1, <2>1
  <2>4. CASE after[n] = G
    BY <2>2, <2>4
  <2>5. CASE after[n] # G
    <3>1. G \ after[n] \in SUBSET G /\ G \ after[n] # {}
      BY <2>3, <2>5
    <3>2. PICK s \in G \ after[n] : pred[s] \cap (G \ after[n]) = {}
      BY <3>1
    <3>3. after[n] \union {s} \in SUBSET after[n + 1]
      BY <2>2, <3>2
    <3>4. Cardinality(after[n] \union {s}) = Cardinality(after[n]) + 1
      BY <1>2, <2>3, <3>2, FS_AddElement
    <3>5. Cardinality(after[n] \union {s}) <= Cardinality(after[n + 1])
      BY <1>2, <2>3, <3>3, FS_Subset
    <3>6. n <= Cardinality(after[n])
      BY <1>4, <2>5, <2>1
    <3>7. Cardinality(after[n]) \in Nat /\ Cardinality(after[n + 1]) \in Nat
      BY <1>2, <2>3
    <3>8. QED
      BY <3>4, <3>5, <3>6, <3>7
  <2>6. QED
    BY <2>4, <2>5
<1>5. Nat \subseteq T
  <2>1. 0 \in T /\ \A n \in Nat : n \in T => n + 1 \in T
    BY <1>3, <1>4
  <2> HIDE DEF T
  <2>2. QED
    BY <2>1, EveryNumber
<1>6. after[N] = G \/ N <= Cardinality(after[N])
  BY <1>1, <1>5
<1>7. after[N] = G
  <2>1. after[N] \in SUBSET G
    BY <1>1
  <2>2. QED
    BY <1>1, <1>2, <1>6, <2>1
<1>8. QED
  BY <1>7 DEF Sortable, after, N

\* A round for each, and what pred says comes in an earlier one.
Falls(G, pred, round) ==
    /\ round \in [G -> 1..Cardinality(G)]
    /\ \A s \in G : \A q \in pred[s] : round[q] < round[s]

\* Then a story comes in a later round than what it waits for.
LEMMA RoundsFall ==
    ASSUME NEW G, IsFiniteSet(G), NEW pred \in [G -> SUBSET G], Sortable(G, pred)
    PROVE  Falls(G, pred, Rounds(G, pred))
<1> DEFINE N == Cardinality(G)
           after == Ordered(G, pred)
           In(s) == {n \in 0..N : s \in after[n]}
           round == Rounds(G, pred)
<1>1. /\ N \in Nat /\ after \in [0..N -> SUBSET G] /\ after[0] = {}
      /\ \A n \in 1..N : after[n] = after[n - 1] \union {s \in G : pred[s] \subseteq after[n - 1]}
  BY OrderedStep
<1>2. after[N] = G
  BY DEF Sortable
<1>3. round = [s \in G |-> Min(In(s))]
  BY DEF Rounds
<1> HIDE DEF after, N, round
<1>4. ASSUME NEW s \in G
      PROVE  /\ round[s] \in 1..N /\ s \in after[round[s]] /\ s \notin after[round[s] - 1]
             /\ \A n \in 0..N : s \in after[n] => round[s] <= n
  <2>1. In(s) \in SUBSET Nat /\ N \in In(s)
    BY <1>1, <1>2
  <2> HIDE DEF In
  <2>2. \E x \in In(s) : \A y \in In(s) : x <= y
    <3>1. PICK x \in In(s) : \A y \in In(s) : ~(y < x)
      BY <2>1, SetHasMinimum
    <3>2. \A y \in In(s) : x \in Nat /\ y \in Nat
      BY <2>1
    <3>3. QED
      BY <3>1, <3>2
  <2>3. Min(In(s)) \in In(s) /\ \A y \in In(s) : Min(In(s)) <= y
    BY <2>2 DEF Min
  <2>4. round[s] \in In(s) /\ \A y \in In(s) : round[s] <= y
    BY <1>3, <2>3
  <2>5. round[s] \in 0..N /\ s \in after[round[s]] /\ \A n \in 0..N : s \in after[n] => round[s] <= n
    BY <2>4 DEF In
  <2>6. round[s] # 0
    BY <1>1, <2>5
  <2>7. round[s] \in 1..N /\ round[s] - 1 \in 0..N /\ ~(round[s] <= round[s] - 1)
    BY <1>1, <2>5, <2>6
  <2>8. QED
    BY <2>5, <2>7
<1>5. ASSUME NEW s \in G, NEW q \in pred[s] PROVE round[q] < round[s]
  <2>1. round[s] \in 1..N /\ round[s] - 1 \in 0..N /\ q \in G
    BY <1>1, <1>4
  <2>2. pred[s] \subseteq after[round[s] - 1]
    BY <1>1, <1>4, <2>1
  <2>3. round[q] <= round[s] - 1 /\ round[q] \in 1..N
    BY <1>4, <2>1, <2>2
  <2>4. QED
    BY <1>1, <2>1, <2>3
<1>6. QED
  BY <1>3, <1>4, <1>5 DEF Falls, round, N

-----------------------------------------------------------------------------
(* What a story waits for, however long the way *)

\* One doubling of the ways, and all of them.
Further(G, W) == [s \in G |-> W[s] \union UNION {W[q] : q \in W[s]}]

Reached(w, G, pred) ==
    /\ w \in [0..Cardinality(G) -> [G -> SUBSET G]] /\ w[0] = pred
    /\ \A n \in 1..Cardinality(G) : w[n] = Further(G, w[n - 1])

\* What Awaited computes, doubling by doubling.
LEMMA AwaitedStep ==
    ASSUME NEW G, IsFiniteSet(G), NEW pred \in [G -> SUBSET G], NEW c,
           c.predecessors = pred, DOMAIN c.round = G
    PROVE  \E w : Reached(w, G, pred) /\ Awaited(c) = w[Cardinality(G)]
<1> DEFINE N == Cardinality(G)
           X == [G -> SUBSET G]
           F == [W \in X |-> Further(G, W)]
           Is(h) == h = [n \in 0..N |->
                           IF n = 0 THEN c.predecessors
                           ELSE [s \in DOMAIN c.round |->
                                   h[n - 1][s] \union UNION {h[n - 1][q] : q \in h[n - 1][s]}]]
           w == CHOOSE h : Is(h)
<1>1. N \in Nat
  BY FS_CardinalityType
<1>2. \A W \in X : Further(G, W) \in X
  <2> SUFFICES ASSUME NEW W \in X, NEW s \in G
               PROVE  W[s] \union UNION {W[q] : q \in W[s]} \in SUBSET G
    BY DEF Further
  <2>1. W[s] \in SUBSET G /\ \A q \in W[s] : W[q] \in SUBSET G
    OBVIOUS
  <2>2. QED
    BY <2>1
<1>3. \A h : Is(h) <=> h = [n \in 0..N |-> IF n = 0 THEN pred ELSE Further(G, h[n - 1])]
  BY DEF Further
<1>4. PICK f : Iterates(f, X, F, pred, N)
  <2>1. F \in [X -> X] /\ pred \in X
    <3>1. pred \in X
      OBVIOUS
    <3> HIDE DEF X
    <3>2. QED
      BY <1>2, <3>1
  <2> HIDE DEF F, N, X
  <2>2. QED
    BY <1>1, <2>1, Iterated
<1>5. f \in [0..N -> X] /\ f[0] = pred /\ \A n \in 1..N : f[n] = F[f[n - 1]]
  BY <1>4 DEF Iterates
<1>6. f = [n \in 0..N |-> IF n = 0 THEN pred ELSE Further(G, f[n - 1])]
  <2> HIDE DEF X, N
  <2> SUFFICES ASSUME NEW n \in 0..N
               PROVE  f[n] = IF n = 0 THEN pred ELSE Further(G, f[n - 1])
    BY <1>5
  <2>1. CASE n = 0
    BY <1>5, <2>1
  <2>2. CASE n # 0
    <3>1. n \in 1..N /\ n - 1 \in 0..N
      BY <1>1, <2>2
    <3>2. QED
      BY <1>5, <2>2, <3>1
  <2>3. QED
    BY <2>1, <2>2
<1>7. w = [n \in 0..N |-> IF n = 0 THEN pred ELSE Further(G, w[n - 1])]
  <2>1. Is(f)
    <3> HIDE DEF Is
    <3>1. QED
      BY <1>3, <1>6
  <2>2. Is(w)
    <3> HIDE DEF Is
    <3>1. QED
      BY <2>1
  <2> HIDE DEF Is, w
  <2>3. QED
    BY <1>3, <2>2
<1>8. Awaited(c) = w[N]
  BY DEF Awaited
<1> HIDE DEF w, X, N, Is
<1>9. w[0] = pred /\ \A n \in 1..N : w[n] = Further(G, w[n - 1])
  <2>1. 0 \in 0..N /\ \A n \in 1..N : n \in 0..N /\ n # 0
    BY <1>1
  <2>2. QED
    BY <1>7, <2>1
<1> DEFINE T == {n \in Nat : n <= N => w[n] \in X}
<1>10. 0 \in T /\ \A n \in Nat : n \in T => n + 1 \in T
  <2>1. 0 \in T
    BY <1>9 DEF X
  <2>2. ASSUME NEW n \in Nat, n \in T, n + 1 <= N PROVE w[n + 1] \in X
    <3>1. n + 1 \in 1..N /\ n <= N /\ (n + 1) - 1 = n
      BY <1>1, <2>2
    <3>2. QED
      BY <1>2, <1>9, <2>2, <3>1
  <2>3. QED
    BY <2>1, <2>2
<1>11. w \in [0..N -> X]
  <2>1. Nat \subseteq T
    <3> HIDE DEF T
    <3>1. QED
      BY <1>10, EveryNumber
  <2>2. \A n \in 0..N : w[n] \in X
    BY <1>1, <2>1
  <2>3. DOMAIN w = 0..N /\ w = [n \in DOMAIN w |-> w[n]]
    BY <1>7
  <2>4. QED
    BY <2>2, <2>3
<1>12. QED
  BY <1>8, <1>9, <1>11 DEF Reached, X, N

\* What is reached stays reached.
LEMMA ReachedGrows ==
    ASSUME NEW G, IsFiniteSet(G), NEW pred, NEW w, Reached(w, G, pred),
           NEW m \in 0..Cardinality(G), NEW n \in 0..Cardinality(G), m <= n
    PROVE  \A s \in G : w[m][s] \subseteq w[n][s]
<1> DEFINE N == Cardinality(G)
           Grown(V, W) == \A s \in G : V[s] \subseteq W[s]
           T == {k \in Nat : m + k <= N => Grown(w[m], w[m + k])}
<1>1. N \in Nat
  BY FS_CardinalityType
<1>2. \A k \in 1..N : Grown(w[k - 1], w[k])
  <2>1. \A W : Grown(W, Further(G, W))
    BY DEF Further
  <2>2. \A k \in 1..N : w[k] = Further(G, w[k - 1])
    BY DEF Reached
  <2> HIDE DEF Grown, N
  <2>3. QED
    BY <2>1, <2>2
<1>3. \A U, V, W : Grown(U, V) /\ Grown(V, W) => Grown(U, W)
  OBVIOUS
<1>4. Grown(w[m], w[m])
  OBVIOUS
<1> HIDE DEF N, Grown
<1>5. 0 \in T
  BY <1>4 DEF N
<1>6. ASSUME NEW k \in Nat, k \in T, m + (k + 1) <= N
      PROVE  Grown(w[m], w[m + (k + 1)])
  <2>1. m \in Nat /\ m + (k + 1) \in 1..N /\ (m + (k + 1)) - 1 = m + k /\ m + k <= N
    BY <1>1, <1>6 DEF N
  <2>2. Grown(w[m + k], w[m + (k + 1)])
    BY <1>2, <2>1
  <2>3. QED
    BY <1>3, <1>6, <2>1, <2>2
<1>7. Nat \subseteq T
  <2>1. 0 \in T /\ \A k \in Nat : k \in T => k + 1 \in T
    BY <1>5, <1>6
  <2> HIDE DEF T
  <2>2. QED
    BY <2>1, EveryNumber
<1>8. n - m \in Nat /\ m + (n - m) = n /\ n <= N
  BY <1>1 DEF N
<1>9. Grown(w[m], w[n])
  BY <1>7, <1>8
<1>10. QED
  BY <1>9 DEF Grown

\* The first step of the way is a direct one.
LEMMA FirstStep ==
    ASSUME NEW G, IsFiniteSet(G), NEW pred, NEW w, Reached(w, G, pred),
           NEW n \in 0..Cardinality(G), NEW s \in G, NEW r \in w[n][s]
    PROVE  r \in pred[s] \/ \E q \in pred[s] : q \in G /\ r \in w[n][q]
<1> DEFINE N == Cardinality(G)
           Has(k) == \A a \in G : \A b \in w[k][a] :
                        b \in pred[a] \/ \E q \in pred[a] : q \in G /\ b \in w[k][q]
           T == {k \in Nat : k <= N => Has(k)}
<1>1. N \in Nat
  BY FS_CardinalityType
<1>2. /\ \A k \in 0..N : \A a \in G : w[k][a] \in SUBSET G
      /\ w[0] = pred
      /\ \A k \in 1..N : \A a \in G :
            w[k][a] = w[k - 1][a] \union UNION {w[k - 1][q] : q \in w[k - 1][a]}
  BY DEF Reached, Further
<1> HIDE DEF N
<1>3. Has(0)
  BY <1>2
<1>4. ASSUME NEW k \in Nat, k + 1 <= N, Has(k) PROVE Has(k + 1)
  <2>1. k \in 0..N /\ k + 1 \in 0..N /\ k + 1 \in 1..N /\ (k + 1) - 1 = k /\ k <= k + 1
    BY <1>1, <1>4
  <2>2. \A a \in G : w[k][a] \subseteq w[k + 1][a]
    BY <2>1, ReachedGrows DEF N
  <2> SUFFICES ASSUME NEW a \in G, NEW b \in w[k + 1][a]
               PROVE  b \in pred[a] \/ \E q \in pred[a] : q \in G /\ b \in w[k + 1][q]
    OBVIOUS
  <2>3. b \in w[k][a] \/ \E q \in w[k][a] : b \in w[k][q]
    BY <1>2, <2>1
  <2>4. CASE b \in w[k][a]
    BY <1>4, <2>2, <2>4
  <2>5. ASSUME NEW q \in w[k][a], b \in w[k][q]
        PROVE  b \in pred[a] \/ \E x \in pred[a] : x \in G /\ b \in w[k + 1][x]
    <3>1. q \in G
      BY <1>2, <2>1
    <3>2. CASE q \in pred[a]
      BY <2>2, <2>5, <3>1, <3>2
    <3>3. CASE \E x \in pred[a] : x \in G /\ q \in w[k][x]
      <4>1. PICK x \in pred[a] : x \in G /\ q \in w[k][x]
        BY <3>3
      <4>2. b \in w[k + 1][x]
        BY <1>2, <2>1, <2>5, <4>1
      <4>3. QED
        BY <4>1, <4>2
    <3>4. QED
      BY <1>4, <3>2, <3>3
  <2>6. QED
    BY <2>3, <2>4, <2>5
<1>5. Nat \subseteq T
  <2>1. 0 \in T /\ \A k \in Nat : k \in T => k + 1 \in T
    <3> HIDE DEF Has
    <3>1. QED
      BY <1>1, <1>3, <1>4
  <2> HIDE DEF T
  <2>2. QED
    BY <2>1, EveryNumber
<1>6. n \in Nat /\ n <= N
  BY <1>1 DEF N
<1>7. Has(n)
  BY <1>5, <1>6
<1>8. QED
  BY <1>7

\* Every step of the way comes in an earlier round.
LEMMA ReachedFalls ==
    ASSUME NEW G, IsFiniteSet(G), NEW pred \in [G -> SUBSET G], NEW round, Falls(G, pred, round),
           NEW w, Reached(w, G, pred),
           NEW n \in 0..Cardinality(G), NEW s \in G, NEW r \in w[n][s]
    PROVE  r \in G /\ round[r] < round[s]
<1> DEFINE N == Cardinality(G)
           Has(k) == \A a \in G : \A b \in w[k][a] : b \in G /\ round[b] < round[a]
           T == {k \in Nat : k <= N => Has(k)}
<1>1. N \in Nat /\ \A a \in G : round[a] \in Nat
  BY FS_CardinalityType DEF Falls
<1>2. /\ w[0] = pred
      /\ \A k \in 1..N : \A a \in G :
            w[k][a] = w[k - 1][a] \union UNION {w[k - 1][q] : q \in w[k - 1][a]}
  BY DEF Reached, Further
<1> HIDE DEF N
<1>3. Has(0)
  BY <1>2 DEF Falls
<1>4. ASSUME NEW k \in Nat, k + 1 <= N, Has(k) PROVE Has(k + 1)
  <2>1. k + 1 \in 1..N /\ (k + 1) - 1 = k
    BY <1>1, <1>4
  <2> SUFFICES ASSUME NEW a \in G, NEW b \in w[k + 1][a] PROVE b \in G /\ round[b] < round[a]
    OBVIOUS
  <2>2. b \in w[k][a] \/ \E q \in w[k][a] : b \in w[k][q]
    BY <1>2, <2>1
  <2>3. CASE b \in w[k][a]
    BY <1>4, <2>3
  <2>4. CASE \E q \in w[k][a] : b \in w[k][q]
    <3>1. PICK q \in w[k][a] : b \in w[k][q]
      BY <2>4
    <3>2. q \in G /\ b \in G /\ round[q] < round[a] /\ round[b] < round[q]
      BY <1>4, <3>1
    <3>3. QED
      BY <1>1, <3>2
  <2>5. QED
    BY <2>2, <2>3, <2>4
<1>5. Nat \subseteq T
  <2>1. 0 \in T /\ \A k \in Nat : k \in T => k + 1 \in T
    <3> HIDE DEF Has
    <3>1. QED
      BY <1>1, <1>3, <1>4
  <2> HIDE DEF T
  <2>2. QED
    BY <2>1, EveryNumber
<1>6. n \in Nat /\ n <= N
  BY <1>1 DEF N
<1>7. Has(n)
  BY <1>5, <1>6
<1>8. QED
  BY <1>7

\* A way that falls n + 1 rounds is found after n doublings.
LEMMA ReachedSoon ==
    ASSUME NEW G, IsFiniteSet(G), NEW pred \in [G -> SUBSET G], NEW round, Falls(G, pred, round),
           NEW w, Reached(w, G, pred),
           NEW m \in 0..Cardinality(G), NEW n \in 0..Cardinality(G),
           NEW s \in G, NEW r \in w[m][s], round[s] - round[r] <= n + 1
    PROVE  r \in w[n][s]
<1> DEFINE N == Cardinality(G)
           Has(k) == \A a \in G : \A b \in w[m][a] :
                        round[a] - round[b] <= k + 1 => b \in w[k][a]
           T == {k \in Nat : k <= N => Has(k)}
<1>1. N \in Nat /\ \A a \in G : round[a] \in Nat
  BY FS_CardinalityType DEF Falls
<1>2. \A a \in G : \A b \in w[m][a] : b \in G /\ round[b] < round[a]
  BY ReachedFalls
<1>3. \A a \in G : \A b \in w[m][a] :
         b \in pred[a] \/ \E q \in pred[a] : q \in G /\ b \in w[m][q]
  BY FirstStep
<1>4. \A a \in G : \A q \in pred[a] : q \in G /\ round[q] < round[a]
  BY DEF Falls
<1>5. w[0] = pred
  BY DEF Reached
<1>6. \A k \in 0..N : \A a \in G : pred[a] \subseteq w[k][a]
  <2> SUFFICES ASSUME NEW k \in 0..N PROVE \A a \in G : pred[a] \subseteq w[k][a]
    OBVIOUS
  <2>1. 0 \in 0..N /\ 0 <= k
    BY <1>1
  <2>2. QED
    BY <1>5, <2>1, ReachedGrows
<1>7. \A k \in 1..N : \A a \in G :
            w[k][a] = w[k - 1][a] \union UNION {w[k - 1][q] : q \in w[k - 1][a]}
  BY DEF Reached, Further
<1> HIDE DEF N
<1>8. Has(0)
  <2> SUFFICES ASSUME NEW a \in G, NEW b \in w[m][a], round[a] - round[b] <= 1
               PROVE  b \in pred[a]
    BY <1>5
  <2> SUFFICES ASSUME NEW q \in pred[a], q \in G, b \in w[m][q] PROVE FALSE
    BY <1>3
  <2>1. round[b] < round[q] /\ round[q] < round[a] /\ b \in G
    BY <1>2, <1>4
  <2>2. QED
    BY <1>1, <2>1
<1>9. ASSUME NEW k \in Nat, k + 1 <= N, Has(k) PROVE Has(k + 1)
  <2>1. k \in 0..N /\ k + 1 \in 0..N /\ k + 1 \in 1..N /\ (k + 1) - 1 = k
    BY <1>1, <1>9
  <2> SUFFICES ASSUME NEW a \in G, NEW b \in w[m][a], round[a] - round[b] <= (k + 1) + 1
               PROVE  b \in w[k + 1][a]
    OBVIOUS
  <2>2. CASE b \in pred[a]
    BY <1>6, <2>1, <2>2
  <2>3. CASE \E q \in pred[a] : q \in G /\ b \in w[m][q]
    <3>1. PICK q \in pred[a] : q \in G /\ b \in w[m][q]
      BY <2>3
    <3>2. round[q] < round[a] /\ b \in G
      BY <1>2, <1>4
    <3>3. round[q] - round[b] <= k + 1
      BY <1>1, <3>1, <3>2
    <3>4. b \in w[k][q] /\ q \in w[k][a]
      BY <1>6, <1>9, <2>1, <3>1, <3>3
    <3>5. QED
      BY <1>7, <2>1, <3>4
  <2>4. QED
    BY <1>3, <2>2, <2>3
<1>10. Nat \subseteq T
  <2>1. 0 \in T /\ \A k \in Nat : k \in T => k + 1 \in T
    <3> HIDE DEF Has
    <3>1. QED
      BY <1>1, <1>8, <1>9
  <2> HIDE DEF T
  <2>2. QED
    BY <2>1, EveryNumber
<1>11. n \in Nat /\ n <= N
  BY <1>1 DEF N
<1>12. Has(n)
  BY <1>10, <1>11
<1>13. QED
  BY <1>12

\* awaited holds what pred says, is transitive, and falls from round to round.
Closes(G, pred, round, awaited) ==
    /\ awaited \in [G -> SUBSET G]
    /\ \A s \in G : pred[s] \subseteq awaited[s]
    /\ \A s \in G : \A q \in awaited[s] : awaited[q] \subseteq awaited[s]
    /\ \A s \in G : \A q \in awaited[s] : round[q] < round[s]

\* That is what Awaited is of a component: the doublings do not stop too early.
LEMMA AwaitedCloses ==
    ASSUME NEW G, IsFiniteSet(G), NEW pred \in [G -> SUBSET G], NEW c, Falls(G, pred, c.round),
           c.predecessors = pred
    PROVE  Closes(G, pred, c.round, Awaited(c))
<1> DEFINE N == Cardinality(G)
           round == c.round
           awaited == Awaited(c)
<1>1. N \in Nat /\ \A a \in G : round[a] \in 1..N
  BY FS_CardinalityType DEF Falls
<1>2. PICK w : Reached(w, G, pred) /\ awaited = w[N]
  <2>1. DOMAIN c.round = G
    BY DEF Falls
  <2>2. QED
    BY <2>1, AwaitedStep
<1>3. w \in [0..N -> [G -> SUBSET G]] /\ w[0] = pred
      /\ \A k \in 1..N : \A a \in G :
            w[k][a] = w[k - 1][a] \union UNION {w[k - 1][q] : q \in w[k - 1][a]}
  BY <1>2 DEF Reached, Further
<1>4. N \in 0..N /\ 0 \in 0..N /\ 0 <= N
  BY <1>1
<1> HIDE DEF N, round, awaited
<1>5. awaited \in [G -> SUBSET G]
  BY <1>2, <1>3, <1>4
<1>6. \A s \in G : pred[s] \subseteq awaited[s]
  BY <1>2, <1>3, <1>4, ReachedGrows DEF N
<1>7. \A s \in G : \A q \in awaited[s] : q \in G /\ round[q] < round[s]
  BY <1>2, <1>4, ReachedFalls DEF N, round
<1>8. ASSUME NEW s \in G, NEW q \in awaited[s], NEW r \in awaited[q] PROVE r \in awaited[s]
  <2>1. q \in G
    BY <1>7
  <2>2. N # 0
    BY <1>1
  <2>3. N - 1 \in 0..N /\ N \in 1..N
    BY <1>1, <2>2
  <2>4. ASSUME NEW a \in G, NEW b \in awaited[a] PROVE b \in w[N - 1][a]
    <3>1. b \in G /\ round[a] \in 1..N /\ round[b] \in 1..N
      BY <1>1, <1>7, <2>4
    <3>2. round[a] - round[b] <= (N - 1) + 1
      BY <1>1, <3>1
    <3>3. QED
      BY <1>2, <1>4, <2>3, <2>4, <3>2, ReachedSoon DEF N, round
  <2>5. q \in w[N - 1][s] /\ r \in w[N - 1][q]
    BY <2>1, <2>4
  <2>6. QED
    BY <1>2, <1>3, <2>3, <2>5
<1>9. QED
  BY <1>5, <1>6, <1>7, <1>8 DEF Closes, round, awaited

\* Whatever somebody waits for, a terminal story waits for.
LEMMA TerminalsCover ==
    ASSUME NEW G, IsFiniteSet(G), NEW pred \in [G -> SUBSET G], NEW round, Falls(G, pred, round),
           NEW awaited, Closes(G, pred, round, awaited), NEW s \in G
    PROVE  \/ s \in G \ UNION {pred[a] : a \in G}
           \/ \E t \in G \ UNION {pred[a] : a \in G} : s \in awaited[t]
<1> DEFINE N == Cardinality(G)
           X == {x \in G : x = s \/ s \in awaited[x]}
           H == {N - round[x] : x \in X}
<1>1. N \in Nat /\ \A a \in G : round[a] \in 1..N
  BY FS_CardinalityType DEF Falls
<1>2. H \in SUBSET Nat /\ H # {}
  BY <1>1
<1>3. PICK t \in X : \A x \in X : ~(N - round[x] < N - round[t])
  <2>1. PICK h \in H : \A y \in H : ~(y < h)
    BY <1>2, SetHasMinimum
  <2>2. QED
    BY <2>1
<1>4. \A x \in X : round[x] <= round[t]
  BY <1>1, <1>3
<1>5. ASSUME NEW a \in G, t \in pred[a] PROVE FALSE
  <2>1. t \in awaited[a] /\ round[t] < round[a]
    BY <1>5 DEF Closes
  <2>2. s \in awaited[a]
    BY <2>1 DEF Closes
  <2>3. a \in X
    BY <2>2
  <2>4. round[a] \in Nat /\ round[t] \in Nat
    BY <1>1
  <2>5. QED
    BY <1>4, <2>1, <2>3, <2>4
<1>6. t \in G \ UNION {pred[a] : a \in G}
  BY <1>5
<1>7. QED
  BY <1>6

-----------------------------------------------------------------------------
(* The order of a component *)

\* What the planner, or a saved plan that was cut into batches, gives to the split.
GoodPlan(p) ==
    /\ StoryIds(p) \in SUBSET Nat /\ IsFiniteSet(StoryIds(p))
    /\ p.place \in [StoryIds(p) -> Nat]
    /\ \A s, t \in StoryIds(p) : p.place[s] = p.place[t] => s = t
    /\ p.deps \in [StoryIds(p) -> SUBSET StoryIds(p)]
    /\ \A s \in StoryIds(p) : s \notin p.deps[s]

\* Both orders are between the stories of the component.
LEMMA PredecessorsType ==
    ASSUME NEW p, NEW G
    PROVE  Predecessors(p, G) \in [G -> SUBSET G]
  BY DEF Predecessors

LEMMA ChainType ==
    ASSUME NEW G
    PROVE  Chain(G) \in [G -> SUBSET G]
  BY DEF Chain

\* The chain by id orders every set of stories.
LEMMA ChainSorts ==
    ASSUME NEW G \in SUBSET Nat, IsFiniteSet(G)
    PROVE  Sortable(G, Chain(G))
<1>1. ASSUME NEW X \in SUBSET G, X # {} PROVE \E s \in X : Chain(G)[s] \cap X = {}
  <2>1. PICK s \in X : \A y \in X : ~(y < s)
    BY <1>1, SetHasMinimum
  <2>2. QED
    BY <2>1 DEF Chain
<1>2. QED
  BY <1>1, ChainType, SortsOut

\* In it, every story waits for all those before it.
LEMMA ChainInOrder ==
    ASSUME NEW G \in SUBSET Nat, NEW round, NEW awaited, Closes(G, Chain(G), round, awaited),
           NEW a \in G, NEW b \in G, a < b
    PROVE  a \in awaited[b]
<1> DEFINE Late == {x \in G : a < x /\ a \notin awaited[x]}
<1> SUFFICES ASSUME Late # {} PROVE FALSE
  OBVIOUS
<1>1. PICK x \in Late : \A y \in Late : ~(y < x)
  BY SetHasMinimum
<1> DEFINE Gap == {x - y : y \in {z \in G : z < x}}
<1>2. Gap \in SUBSET Nat /\ Gap # {}
  <2>1. a \in {z \in G : z < x}
    OBVIOUS
  <2>2. \A y \in {z \in G : z < x} : x - y \in Nat
    OBVIOUS
  <2>3. QED
    BY <2>1, <2>2
<1>3. PICK q \in G : q < x /\ \A y \in G : y < x => ~(x - y < x - q)
  <2>1. PICK h \in Gap : \A y \in Gap : ~(y < h)
    BY <1>2, SetHasMinimum
  <2>2. QED
    BY <2>1
<1>4. \A y \in G : y < x => y <= q
  BY <1>3
<1>5. q \in Chain(G)[x]
  BY <1>3, <1>4 DEF Chain
<1>6. q \in awaited[x]
  BY <1>5 DEF Closes
<1>7. a <= q
  BY <1>4
<1>8. q # a
  BY <1>6
<1>9. a < q
  BY <1>7, <1>8
<1>10. a \in awaited[q]
  BY <1>1, <1>3, <1>9
<1>11. QED
  BY <1>6, <1>10 DEF Closes

\* The dependencies of a plan that keeps the contract, and the order of the list
\* between stories that share files, can be kept together.
LEMMA ContractSorts ==
    ASSUME NEW p, GoodPlan(p), Contracted(p), NEW G \in SUBSET StoryIds(p)
    PROVE  Sortable(G, Predecessors(p, G))
<1>1. IsFiniteSet(G)
  BY FS_Subset DEF GoodPlan
<1>2. ASSUME NEW X \in SUBSET G, X # {}
      PROVE  \E s \in X : Predecessors(p, G)[s] \cap X = {}
  <2> DEFINE P == {p.place[s] : s \in X}
  <2>1. P \in SUBSET Nat /\ P # {}
    BY <1>2 DEF GoodPlan
  <2>2. PICK h \in P : \A y \in P : ~(y < h)
    BY <2>1, SetHasMinimum
  <2>3. PICK s \in X : \A y \in X : ~(p.place[y] < p.place[s])
    BY <2>2
  <2>4. ASSUME NEW q \in Predecessors(p, G)[s], q \in X PROVE FALSE
    <3>1. Declares(p, s, q) \/ Listed(p, q, s)
      BY DEF Predecessors
    <3>2. Listed(p, q, s)
      BY <3>1 DEF Contracted, Declares
    <3>3. QED
      BY <2>3, <2>4, <3>2 DEF Listed
  <2>5. QED
    BY <2>4
<1>3. QED
  BY <1>1, <1>2, PredecessorsType, SortsOut

\* What the split says of one component.
InOrder(p, G, c) ==
    /\ DOMAIN c.round = G
    /\ Closes(G, c.predecessors, c.round, Awaited(c))
    /\ \A s \in G : s \in c.terminal \union UNION {Awaited(c)[t] : t \in c.terminal}
    /\ \A a, b \in G :
          a # b /\ Shares(p, a, b) => a \in Awaited(c)[b] \/ b \in Awaited(c)[a]

\* The jobs of a component can run in their rounds, and those that write one
\* file run one after the other.
LEMMA ComponentInOrder ==
    ASSUME NEW p, GoodPlan(p), NEW G \in SUBSET StoryIds(p)
    PROVE  /\ InOrder(p, G, Component(p, G))
           /\ Contracted(p) => Component(p, G).predecessors = Predecessors(p, G)
<1> DEFINE direct == Predecessors(p, G)
           pred == IF Sortable(G, direct) THEN direct ELSE Chain(G)
           c == Component(p, G)
           awaited == Awaited(c)
<1>1. G \in SUBSET Nat /\ IsFiniteSet(G)
  BY FS_Subset DEF GoodPlan
<1>2. pred \in [G -> SUBSET G] /\ Sortable(G, pred)
  BY <1>1, PredecessorsType, ChainType, ChainSorts
<1>3. /\ c.predecessors = pred /\ c.round = Rounds(G, pred)
      /\ c.terminal = G \ UNION {pred[s] : s \in G}
  BY DEF Component
<1> HIDE DEF pred, c
<1>4. Falls(G, pred, c.round)
  <2>1. Falls(G, pred, Rounds(G, pred))
    BY <1>1, <1>2, RoundsFall
  <2>2. QED
    BY <1>3, <2>1
<1>5. Closes(G, pred, c.round, awaited)
  BY <1>1, <1>2, <1>3, <1>4, AwaitedCloses
<1> HIDE DEF awaited
<1>6. \A s \in G : s \in c.terminal \/ \E t \in c.terminal : s \in awaited[t]
  <2> DEFINE round == c.round
  <2>1. Falls(G, pred, round) /\ Closes(G, pred, round, awaited)
    BY <1>4, <1>5
  <2> HIDE DEF round
  <2>2. \A s \in G : \/ s \in G \ UNION {pred[a] : a \in G}
                     \/ \E t \in G \ UNION {pred[a] : a \in G} : s \in awaited[t]
    BY <1>1, <1>2, <2>1, TerminalsCover
  <2>3. QED
    BY <1>3, <2>2
<1>7. ASSUME NEW a \in G, NEW b \in G, a # b, Shares(p, a, b)
      PROVE  a \in awaited[b] \/ b \in awaited[a]
  <2>1. CASE pred = direct
    <3>1. a \in direct[b] \/ b \in direct[a]
      <4>1. Listed(p, a, b) \/ Listed(p, b, a)
        <5>1. p.place[a] \in Nat /\ p.place[b] \in Nat /\ p.place[a] # p.place[b]
          BY <1>7 DEF GoodPlan
        <5>2. QED
          BY <5>1 DEF Listed
      <4>2. Shares(p, b, a)
        BY <1>7 DEF Shares
      <4>3. QED
        BY <1>7, <4>1, <4>2 DEF Predecessors
    <3>2. QED
      BY <1>5, <2>1, <3>1 DEF Closes
  <2>2. CASE pred = Chain(G)
    <3>1. a < b \/ b < a
      BY <1>1, <1>7
    <3>2. Closes(G, Chain(G), c.round, awaited)
      BY <1>5, <2>2
    <3>3. QED
      BY <1>1, <3>1, <3>2, ChainInOrder
  <2>3. QED
    BY <2>1, <2>2 DEF pred
<1>8. DOMAIN c.round = G
  BY <1>4 DEF Falls
<1>9. InOrder(p, G, c)
  BY <1>3, <1>5, <1>6, <1>7, <1>8 DEF InOrder, awaited
<1>10. Contracted(p) => c.predecessors = direct
  BY <1>3, ContractSorts DEF pred
<1>11. QED
  BY <1>9, <1>10 DEF c

-----------------------------------------------------------------------------
(* Components *)

\* Sets that do not meet and together are S.
Partition(Q, S) ==
    /\ Q \in SUBSET SUBSET S /\ UNION Q = S
    /\ \A g, h \in Q : g # h => g \cap h = {}

\* Uniting the groups an edge touches leaves a partition, in which the ends of the
\* edge, and everything that was together, are together.
LEMMA UnitedGroups ==
    ASSUME NEW S, NEW Q, Partition(Q, S), NEW e \in SUBSET S, e # {}
    PROVE  /\ Partition(United(e, Q), S)
           /\ \E g \in United(e, Q) : e \subseteq g
           /\ \A h \in Q : \E g \in United(e, Q) : h \subseteq g
<1> DEFINE touched == {g \in Q : g \cap e # {}}
           new == (Q \ touched) \union {UNION touched}
<1>1. United(e, Q) = new
  BY DEF United
<1>2. e \subseteq UNION touched
  <2> SUFFICES ASSUME NEW x \in e PROVE \E g \in touched : x \in g
    OBVIOUS
  <2>1. PICK g \in Q : x \in g
    BY DEF Partition
  <2>2. QED
    BY <2>1
<1>3. new \in SUBSET SUBSET S
  BY DEF Partition
<1>4. UNION new = S
  <2>1. ASSUME NEW x \in S PROVE \E g \in new : x \in g
    <3>1. PICK g \in Q : x \in g
      BY DEF Partition
    <3>2. CASE g \in touched
      BY <3>1, <3>2
    <3>3. CASE g \notin touched
      BY <3>1, <3>3
    <3>4. QED
      BY <3>2, <3>3
  <2>2. QED
    BY <1>3, <2>1
<1>5. ASSUME NEW g \in new, NEW h \in new, g # h PROVE g \cap h = {}
  <2>1. \A k \in Q \ touched : k \cap UNION touched = {}
    BY DEF Partition
  <2>2. \A k, l \in Q \ touched : k # l => k \cap l = {}
    BY DEF Partition
  <2> HIDE DEF touched
  <2>3. QED
    BY <1>5, <2>1, <2>2
<1>6. \A h \in Q : \E g \in new : h \subseteq g
  <2> SUFFICES ASSUME NEW h \in Q PROVE \E g \in new : h \subseteq g
    OBVIOUS
  <2>1. CASE h \in touched
    BY <2>1
  <2>2. CASE h \notin touched
    BY <2>2
  <2>3. QED
    BY <2>1, <2>2
<1>7. Partition(new, S)
  BY <1>3, <1>4, <1>5 DEF Partition
<1>8. QED
  BY <1>1, <1>2, <1>6, <1>7

\* The pairs Groups folds over.
LinkEdges(p) ==
    {e \in SUBSET StoryIds(p) : \E a, b \in e : e = {a, b} /\ Linked(p, a, b)}

\* Folding over the pairs gives the groups: what is linked is together.
LEMMA GroupsPartition ==
    ASSUME NEW p, IsFiniteSet(StoryIds(p))
    PROVE  /\ Partition(Groups(p), StoryIds(p))
           /\ \A a, b \in StoryIds(p) :
                 Linked(p, a, b) => \E g \in Groups(p) : a \in g /\ b \in g
<1> DEFINE S == StoryIds(p)
           E == LinkEdges(p)
           X == SUBSET SUBSET S
           base == {{s} : s \in S}
           First(t) == CHOOSE x \in t : TRUE
           Is(h) == h = [t \in SUBSET E |-> IF t = {} THEN base
                                            ELSE United(First(t), h[t \ {First(t)}])]
           F == [d \in E \X X |-> United(d[1], d[2])]
           iter == CHOOSE h : Is(h)
<1>1. IsFiniteSet(E) /\ E \in SUBSET SUBSET S
  <2>1. IsFiniteSet(SUBSET S)
    BY FS_SUBSET
  <2>2. QED
    BY <2>1, FS_Subset DEF LinkEdges
<1>2. Groups(p) = iter[E]
  BY DEF Groups, FoldSet, MapThenFoldSet, LinkEdges
<1>3. F \in [E \X X -> X] /\ base \in X
  <2>1. \A e \in E : \A Q \in X : United(e, Q) \in X
    BY DEF United
  <2>2. base \in X
    OBVIOUS
  <2> HIDE DEF E, X
  <2>3. QED
    BY <2>1, <2>2
<1>4. \A t \in SUBSET E : t # {} => First(t) \in t /\ First(t) \in E /\ t \ {First(t)} \in SUBSET E
  OBVIOUS
<1>5. PICK f : Folds(f, E, X, F, base)
  <2> HIDE DEF E, X, F, base
  <2>1. QED
    BY <1>1, <1>3, Folded
<1> HIDE DEF E, X, S, base
<1>6. Is(f)
  <2>1. /\ f \in [SUBSET E -> X]
        /\ \A t \in SUBSET E : f[t] = IF t = {} THEN base ELSE F[<<First(t), f[t \ {First(t)}]>>]
    BY <1>5 DEF Folds
  <2> HIDE DEF First
  <2>2. \A t \in SUBSET E : t # {} =>
           F[<<First(t), f[t \ {First(t)}]>>] = United(First(t), f[t \ {First(t)}])
    BY <1>4, <2>1
  <2> HIDE DEF F
  <2>3. QED
    BY <2>1, <2>2
<1>7. Is(iter)
  <2> HIDE DEF Is
  <2>1. QED
    BY <1>6
<1> HIDE DEF iter, First
<1>8. \A t \in SUBSET E : iter[t] = IF t = {} THEN base ELSE United(First(t), iter[t \ {First(t)}])
  BY <1>7
<1> DEFINE Good(t) == /\ Partition(iter[t], S)
                      /\ \A e \in t : \E g \in iter[t] : e \subseteq g
           T == {n \in Nat : \A t \in SUBSET E : Cardinality(t) <= n => Good(t)}
<1>9. \A t \in SUBSET E : /\ IsFiniteSet(t) /\ Cardinality(t) \in Nat
                          /\ Cardinality(t) = 0 <=> t = {}
  BY <1>1, FS_Subset, FS_CardinalityType, FS_EmptySet
<1>10. Good({})
  <2>1. iter[{}] = base
    BY <1>8
  <2>2. Partition(base, S)
    BY DEF Partition, base
  <2>3. QED
    BY <2>1, <2>2
<1>11. ASSUME NEW n \in Nat, \A t \in SUBSET E : Cardinality(t) <= n => Good(t),
              NEW t \in SUBSET E, Cardinality(t) <= n + 1
       PROVE  Good(t)
  <2>1. CASE t = {}
    BY <1>10, <2>1
  <2>2. CASE t # {}
    <3> DEFINE x == First(t)
               u == t \ {x}
    <3>1. x \in t /\ x \in E /\ u \in SUBSET E /\ Cardinality(u) = Cardinality(t) - 1
      BY <1>4, <1>9, <2>2, FS_RemoveElement
    <3>2. Good(u)
      <4> HIDE DEF Good, u
      <4>1. Cardinality(u) <= n
        BY <1>9, <1>11, <3>1
      <4>2. QED
        BY <1>11, <3>1, <4>1
    <3>3. iter[t] = United(x, iter[u])
      BY <1>8, <2>2
    <3>4. x \in SUBSET S /\ x # {}
      BY <1>1, <3>1 DEF E, LinkEdges, S
    <3> HIDE DEF x
    <3>5. /\ Partition(United(x, iter[u]), S)
          /\ \E g \in United(x, iter[u]) : x \subseteq g
          /\ \A h \in iter[u] : \E g \in United(x, iter[u]) : h \subseteq g
      <4> DEFINE Q == iter[u]
      <4>1. Partition(Q, S)
        BY <3>2
      <4> HIDE DEF Q
      <4>2. /\ Partition(United(x, Q), S)
            /\ \E g \in United(x, Q) : x \subseteq g
            /\ \A h \in Q : \E g \in United(x, Q) : h \subseteq g
        BY <3>4, <4>1, UnitedGroups
      <4>3. QED
        BY <4>2 DEF Q
    <3>6. ASSUME NEW e \in t PROVE \E g \in iter[t] : e \subseteq g
      <4>1. CASE e = x
        BY <3>3, <3>5, <4>1
      <4>2. CASE e # x
        <5>1. PICK h \in iter[u] : e \subseteq h
          BY <3>2, <4>2
        <5>2. PICK g \in United(x, iter[u]) : h \subseteq g
          BY <3>5
        <5>3. QED
          BY <3>3, <5>1, <5>2
      <4>3. QED
        BY <4>1, <4>2
    <3>7. QED
      BY <3>3, <3>5, <3>6
  <2>3. QED
    BY <2>1, <2>2
<1>12. Good(E)
  <2> HIDE DEF Good
  <2>1. 0 \in T
    BY <1>9, <1>10
  <2>2. \A n \in Nat : n \in T => n + 1 \in T
    BY <1>11
  <2>3. Nat \subseteq T
    <3> HIDE DEF T
    <3>1. QED
      BY <2>1, <2>2, EveryNumber
  <2>4. Cardinality(E) \in Nat /\ E \in SUBSET E
    BY <1>9
  <2>5. QED
    BY <2>3, <2>4
<1>13. ASSUME NEW a \in S, NEW b \in S, Linked(p, a, b)
       PROVE  \E g \in Groups(p) : a \in g /\ b \in g
  <2>1. {a, b} \in E
    BY <1>13 DEF E, LinkEdges, S
  <2>2. PICK g \in iter[E] : {a, b} \subseteq g
    BY <1>12, <2>1
  <2>3. QED
    BY <1>2, <2>2
<1>14. QED
  BY <1>2, <1>12, <1>13 DEF S

-----------------------------------------------------------------------------
(* The split of a plan *)

\* What is linked is in one group, and no story is in two.
LEMMA OneGroup ==
    ASSUME NEW p, GoodPlan(p), NEW G \in Groups(p), NEW a \in G, NEW b \in StoryIds(p),
           Linked(p, a, b)
    PROVE  b \in G
<1>1. IsFiniteSet(StoryIds(p))
  BY DEF GoodPlan
<1>2. Partition(Groups(p), StoryIds(p))
      /\ \A x, y \in StoryIds(p) :
            Linked(p, x, y) => \E g \in Groups(p) : x \in g /\ y \in g
  BY <1>1, GroupsPartition
<1>3. a \in StoryIds(p)
  BY <1>2 DEF Partition
<1>4. PICK g \in Groups(p) : a \in g /\ b \in g
  BY <1>2, <1>3
<1>5. g = G
  BY <1>2, <1>4 DEF Partition
<1>6. QED
  BY <1>4, <1>5

\* Every story is in a component, whose jobs are in order.
LEMMA ComponentsInOrder ==
    ASSUME NEW p, GoodPlan(p)
    PROVE  /\ \A c \in Components(p) : \E G \in Groups(p) :
                 /\ G \in SUBSET StoryIds(p) /\ c = Component(p, G) /\ InOrder(p, G, c)
                 /\ Contracted(p) => c.predecessors = Predecessors(p, G)
           /\ \A s \in StoryIds(p) : \E c \in Components(p) : s \in DOMAIN c.round
<1>1. IsFiniteSet(StoryIds(p))
  BY DEF GoodPlan
<1>2. Partition(Groups(p), StoryIds(p))
  BY <1>1, GroupsPartition
<1>3. \A G \in Groups(p) :
         /\ G \in SUBSET StoryIds(p) /\ InOrder(p, G, Component(p, G))
         /\ Contracted(p) => Component(p, G).predecessors = Predecessors(p, G)
  BY <1>2, ComponentInOrder DEF Partition
<1>4. \A c : c \in Components(p) <=> \E G \in Groups(p) : c = Component(p, G)
  BY DEF Components
<1>5. ASSUME NEW s \in StoryIds(p) PROVE \E c \in Components(p) : s \in DOMAIN c.round
  <2>1. PICK G \in Groups(p) : s \in G
    BY <1>2 DEF Partition
  <2>2. s \in DOMAIN Component(p, G).round
    BY <1>3, <2>1 DEF InOrder
  <2>3. QED
    BY <1>4, <2>2
<1>6. QED
  BY <1>3, <1>4, <1>5

\* The split of a plan loses no story, its jobs can be created in their order,
\* and those that write one file run one after the other.
LEMMA SplitIsSerial ==
    ASSUME NEW p, GoodPlan(p)
    PROVE  Serial(p, Components(p))
<1> DEFINE C == Components(p)
           S == StoryIds(p)
<1>1. /\ \A c \in C : \E G \in Groups(p) : G \in SUBSET S /\ c = Component(p, G) /\ InOrder(p, G, c)
      /\ \A s \in S : \E c \in C : s \in DOMAIN c.round
  BY ComponentsInOrder
<1>2. Partition(Groups(p), S)
  BY GroupsPartition DEF GoodPlan
<1> HIDE DEF C
<1>3. UNION {DOMAIN c.round : c \in C} = S
  BY <1>1 DEF InOrder
<1>4. ASSUME NEW c \in C, NEW d \in C, c # d, NEW a \in DOMAIN c.round, NEW b \in DOMAIN d.round
      PROVE  a # b /\ ~Shares(p, a, b)
  <2>1. PICK G \in Groups(p) : G \in SUBSET S /\ c = Component(p, G) /\ InOrder(p, G, c)
    BY <1>1
  <2>2. PICK H \in Groups(p) : H \in SUBSET S /\ d = Component(p, H) /\ InOrder(p, H, d)
    BY <1>1
  <2>3. G # H /\ a \in G /\ b \in H
    BY <1>4, <2>1, <2>2 DEF InOrder
  <2>4. b \notin G
    BY <1>2, <2>3 DEF Partition
  <2>5. ~Linked(p, a, b)
    BY <2>2, <2>3, <2>4, OneGroup
  <2>6. QED
    BY <2>3, <2>4, <2>5 DEF Linked
<1>5. ASSUME NEW c \in C
      PROVE  /\ \A s \in DOMAIN c.round :
                   /\ \A q \in Awaited(c)[s] : c.round[q] < c.round[s]
                   /\ s \in c.terminal \union UNION {Awaited(c)[t] : t \in c.terminal}
             /\ \A a, b \in DOMAIN c.round :
                   a # b /\ Shares(p, a, b) => a \in Awaited(c)[b] \/ b \in Awaited(c)[a]
  <2>1. PICK G \in Groups(p) : InOrder(p, G, c)
    BY <1>1
  <2>2. QED
    BY <2>1 DEF InOrder, Closes
<1>6. QED
  BY <1>3, <1>4, <1>5 DEF Serial, C

\* The job of a waits for the job of b.
JobWaits(p, a, b) == \E c \in Components(p) : a \in DOMAIN c.round /\ b \in Awaited(c)[a]

\* Of a plan that keeps the contract, every declared dependency is waited for.
LEMMA DeclaredIsAwaited ==
    ASSUME NEW p, GoodPlan(p), Contracted(p), NEW a \in StoryIds(p), NEW b \in p.deps[a]
    PROVE  JobWaits(p, a, b)
<1>1. PICK c \in Components(p) : a \in DOMAIN c.round
  BY ComponentsInOrder
<1>2. PICK G \in Groups(p) : /\ G \in SUBSET StoryIds(p) /\ InOrder(p, G, c)
                             /\ c.predecessors = Predecessors(p, G)
  BY ComponentsInOrder
<1>3. a \in G
  BY <1>1, <1>2 DEF InOrder
<1>4. b \in StoryIds(p) /\ b # a
  BY DEF GoodPlan
<1>5. b \in G
  <2>1. Linked(p, a, b)
    BY DEF Linked, Declares
  <2>2. QED
    BY <1>3, <1>4, <2>1, OneGroup
<1>6. b \in c.predecessors[a]
  BY <1>2, <1>3, <1>4, <1>5 DEF Predecessors, Declares
<1>7. b \in Awaited(c)[a]
  BY <1>2, <1>3, <1>6 DEF InOrder, Closes
<1>8. QED
  BY <1>1, <1>7 DEF JobWaits

\* Nobody is in two components: who is waited for is in the component that waits.
LEMMA WaitsInOneComponent ==
    ASSUME NEW p, GoodPlan(p), NEW c \in Components(p), NEW a \in DOMAIN c.round,
           NEW b, JobWaits(p, a, b)
    PROVE  b \in Awaited(c)[a] /\ b \in DOMAIN c.round
<1>1. PICK d \in Components(p) : a \in DOMAIN d.round /\ b \in Awaited(d)[a]
  BY DEF JobWaits
<1>2. PICK G \in Groups(p) : c = Component(p, G) /\ InOrder(p, G, c)
  BY ComponentsInOrder
<1>3. PICK H \in Groups(p) : d = Component(p, H) /\ InOrder(p, H, d)
  BY ComponentsInOrder
<1>4. Partition(Groups(p), StoryIds(p))
  BY GroupsPartition DEF GoodPlan
<1>5. a \in G /\ a \in H
  BY <1>1, <1>2, <1>3 DEF InOrder
<1>6. G = H
  BY <1>4, <1>5 DEF Partition
<1>7. c = d
  BY <1>2, <1>3, <1>6
<1>8. b \in G
  BY <1>1, <1>2, <1>5, <1>7 DEF InOrder, Closes
<1>9. QED
  BY <1>1, <1>2, <1>7, <1>8 DEF InOrder

\* Waits add up.
LEMMA WaitsAddUp ==
    ASSUME NEW p, GoodPlan(p), NEW x, NEW y, NEW z, JobWaits(p, x, y), JobWaits(p, y, z)
    PROVE  JobWaits(p, x, z)
<1>1. PICK c \in Components(p) : x \in DOMAIN c.round /\ y \in Awaited(c)[x]
  BY DEF JobWaits
<1>2. y \in DOMAIN c.round
  BY <1>1, WaitsInOneComponent
<1>3. z \in Awaited(c)[y]
  BY <1>2, WaitsInOneComponent
<1>4. PICK G \in Groups(p) : InOrder(p, G, c)
  BY ComponentsInOrder
<1>5. z \in Awaited(c)[x]
  BY <1>1, <1>3, <1>4 DEF InOrder, Closes
<1>6. QED
  BY <1>1, <1>5 DEF JobWaits

\* Pairs that wait are obeyed.
LEMMA WaitsAreObeyed ==
    ASSUME NEW p, GoodPlan(p), NEW W, \A w \in W : JobWaits(p, w[1], w[2])
    PROVE  Obeyed(Components(p), W)
<1> SUFFICES ASSUME NEW c \in Components(p), NEW w \in W, w[1] \in DOMAIN c.round
             PROVE  w[2] \in Awaited(c)[w[1]]
  BY DEF Obeyed
<1>1. JobWaits(p, w[1], w[2])
  OBVIOUS
<1>2. QED
  BY <1>1, WaitsInOneComponent

-----------------------------------------------------------------------------
(* A planner's plan *)

\* What Plans asks of a plan is enough for the split.
LEMMA PlansAreGood ==
    ASSUME NEW p \in Plans
    PROVE  GoodPlan(p) /\ StoryIds(p) = Stories
<1>1. /\ p.files \in [Stories -> SUBSET (1..MaxPaths)]
      /\ p.place \in [Stories -> Stories] /\ \A s, t \in Stories : p.place[s] = p.place[t] => s = t
      /\ p.deps \in [Stories -> SUBSET Stories] /\ \A s \in Stories : s \notin p.deps[s]
  BY DEF Plans
<1>2. StoryIds(p) = Stories
  BY <1>1 DEF StoryIds
<1>3. Stories \in SUBSET Nat /\ IsFiniteSet(Stories)
  BY SplitAssumption, FS_Interval DEF Stories
<1>4. p.place \in [Stories -> Nat]
  BY <1>1, <1>3
<1>5. QED
  BY <1>1, <1>2, <1>3, <1>4 DEF GoodPlan

\* Tests wait for code that was listed earlier: the contract is kept.
LEMMA CompletedIsGood ==
    ASSUME NEW p \in Plans, Contracted(p)
    PROVE  GoodPlan(Completed(p)) /\ Contracted(Completed(p)) /\ StoryIds(Completed(p)) = Stories
<1> DEFINE q == Completed(p)
<1>1. GoodPlan(p) /\ StoryIds(p) = Stories
  BY PlansAreGood
<1>2. /\ q.files = p.files /\ q.place = p.place
      /\ q.deps = [s \in Stories |->
            IF TestOnly(p, s)
            THEN p.deps[s] \union {b \in Stories : Listed(p, b, s) /\ ~TestOnly(p, b)}
            ELSE p.deps[s]]
  BY <1>1 DEF Completed, Plans
<1>3. StoryIds(q) = Stories
  BY <1>1, <1>2 DEF StoryIds
<1> HIDE DEF q
<1>4. ASSUME NEW s \in Stories, NEW b \in q.deps[s] PROVE b \in Stories /\ Listed(p, b, s)
  BY <1>1, <1>2 DEF GoodPlan, Contracted
<1>5. q.deps \in [Stories -> SUBSET Stories]
  BY <1>2, <1>4
<1>6. \A s \in Stories : ~Listed(p, s, s)
  BY <1>1 DEF GoodPlan, Listed
<1>7. GoodPlan(q)
  BY <1>1, <1>2, <1>3, <1>4, <1>5, <1>6 DEF GoodPlan
<1>8. Contracted(q)
  BY <1>2, <1>3, <1>4 DEF Contracted, Listed
<1>9. QED
  BY <1>3, <1>7, <1>8 DEF q

\* The planner's stage: with the contract, dependencies are obeyed; without, a
\* cycle gives an order too.
LEMMA PlannedSplit ==
    ASSUME NEW p \in Plans
    PROVE  PlanSplit(p)
<1>1. CASE ~Contracted(p)
  BY <1>1, PlansAreGood, SplitIsSerial DEF PlanSplit
<1>2. CASE Contracted(p)
  <2> DEFINE q == Completed(p)
             W == {w \in StoryIds(q) \X StoryIds(q) : Declares(q, w[1], w[2])}
  <2>1. GoodPlan(q) /\ Contracted(q)
    BY <1>2, CompletedIsGood
  <2> HIDE DEF q
  <2>2. \A w \in W : JobWaits(q, w[1], w[2])
    BY <2>1, DeclaredIsAwaited DEF Declares
  <2>3. Serial(q, Components(q)) /\ Obeyed(Components(q), W)
    BY <2>1, <2>2, SplitIsSerial, WaitsAreObeyed
  <2>4. QED
    BY <1>2, <2>3 DEF PlanSplit, q
<1>3. QED
  BY <1>1, <1>2

-----------------------------------------------------------------------------
(* A saved plan *)

\* The id of a batch gives its story and its number back.
LEMMA BatchIdParts ==
    ASSUME NEW s \in Nat, NEW k \in 0..MaxPaths
    PROVE  Batch(s, k) \in Nat /\ Story(Batch(s, k)) = s /\ Number(Batch(s, k)) = k
<1> DEFINE d == MaxPaths + 1
<1>1. d \in Nat \ {0} /\ k \in Nat /\ k < d
  BY SplitAssumption
<1> HIDE DEF d
<1>2. (d * s + k) \div d = s /\ (d * s + k) % d = k /\ d * s + k \in Nat
  BY <1>1
<1>3. QED
  BY <1>2 DEF Batch, Story, Number, d

\* All batches of a story come before those of a later one.
LEMMA BatchOrder ==
    ASSUME NEW s \in Nat, NEW t \in Nat, NEW k \in 0..MaxPaths, NEW l \in 0..MaxPaths, s < t
    PROVE  Batch(s, k) < Batch(t, l)
<1> DEFINE d == MaxPaths + 1
<1>1. d \in Nat \ {0} /\ k \in Nat /\ k < d /\ l \in Nat
  BY SplitAssumption
<1> HIDE DEF d
<1>2. d * (s + 1) <= d * t
  BY <1>1
<1>3. d * (s + 1) = d * s + d
  BY <1>1
<1>4. d * s \in Nat /\ d * t \in Nat
  BY <1>1
<1>5. d * s + k < d * t + l
  BY <1>1, <1>2, <1>3, <1>4
<1>6. QED
  BY <1>5 DEF Batch, d

\* As many batches as it takes: the last one starts before the end.
LEMMA RoundedUp ==
    ASSUME NEW n \in Nat, NEW f \in Nat \ {0}
    PROVE  /\ (n + f - 1) \div f \in Nat
           /\ (n + f - 1) \div f <= n
           /\ \A b \in 0..(n - 1) : b \div f \in Nat /\ b \div f + 1 <= (n + f - 1) \div f
                                    /\ (b \div f) * f <= b /\ b < (b \div f + 1) * f
<1> DEFINE m == n + f - 1
           q == m \div f
           r == m % f
<1>1. m \in Nat
  OBVIOUS
<1> HIDE DEF m
<1>2. m = f * q + r /\ r \in 0..(f - 1) /\ q \in Nat
  BY <1>1
<1> HIDE DEF q, r
<1>3. q <= n
  <2> SUFFICES ASSUME n + 1 <= q PROVE FALSE
    BY <1>2
  <2>1. f * (n + 1) <= f * q
    BY <1>2
  <2>2. f * (n + 1) = f * n + f /\ n <= f * n /\ f * n \in Nat /\ f * q \in Nat
    BY <1>2
  <2>3. QED
    BY <1>2, <2>1, <2>2 DEF m
<1>4. ASSUME NEW b \in 0..(n - 1)
      PROVE  b \div f \in Nat /\ b \div f + 1 <= q /\ (b \div f) * f <= b /\ b < (b \div f + 1) * f
  <2> DEFINE k == b \div f
             o == b % f
  <2>1. b = f * k + o /\ o \in 0..(f - 1) /\ k \in Nat
    OBVIOUS
  <2> HIDE DEF k, o
  <2>2. k * f = f * k /\ (k + 1) * f = f * k + f /\ f * k \in Nat
    BY <2>1
  <2>3. k * f <= b /\ b < (k + 1) * f
    BY <2>1, <2>2
  <2>4. k + 1 <= q
    <3> SUFFICES ASSUME q <= k PROVE FALSE
      BY <1>2, <2>1
    <3>1. f * q <= f * k
      BY <1>2, <2>1
    <3>2. QED
      BY <1>2, <2>1, <2>2, <3>1 DEF m
  <2>5. QED
    BY <2>1, <2>3, <2>4 DEF k
<1>5. QED
  BY <1>2, <1>3, <1>4 DEF q, m

\* A story has no more batches than there are paths, and enough of them.
LEMMA BatchesOf ==
    ASSUME NEW p \in Plans, NEW s \in Stories
    PROVE  /\ IsFiniteSet(p.files[s]) /\ p.files[s] \in SUBSET (1..MaxPaths)
           /\ Batches(p, s) \in 1..MaxPaths
           /\ (Cardinality(p.files[s]) + MaxFiles - 1) \div MaxFiles <= Batches(p, s)
<1> DEFINE F == p.files[s]
           n == Cardinality(F)
           q == (n + MaxFiles - 1) \div MaxFiles
<1>1. F \in SUBSET (1..MaxPaths)
  BY DEF Plans
<1>2. IsFiniteSet(1..MaxPaths) /\ Cardinality(1..MaxPaths) = MaxPaths
  BY SplitAssumption, FS_Interval
<1>3. IsFiniteSet(F) /\ n \in Nat /\ n <= MaxPaths
  BY <1>1, <1>2, FS_Subset, FS_CardinalityType
<1>4. q \in Nat /\ q <= n
  <2> HIDE DEF n
  <2>1. QED
    BY <1>3, SplitAssumption, RoundedUp
<1>5. Batches(p, s) = Max({1, q})
  BY DEF Batches
<1> HIDE DEF n, q
<1>6. Max({1, q}) \in {1, q} /\ 1 <= Max({1, q}) /\ q <= Max({1, q})
  <2>1. \E x \in {1, q} : \A y \in {1, q} : x >= y
    BY <1>4
  <2>2. Max({1, q}) \in {1, q} /\ \A y \in {1, q} : Max({1, q}) >= y
    BY <2>1 DEF Max
  <2>3. QED
    BY <1>4, <2>2
<1>7. Batches(p, s) \in 1..MaxPaths /\ q <= Batches(p, s)
  BY <1>3, <1>4, <1>5, <1>6, SplitAssumption
<1>8. QED
  BY <1>1, <1>3, <1>7 DEF q, n

\* The batches are those of the stories, each known by its id.
LEMMA BatchId ==
    ASSUME NEW p \in Plans
    PROVE  /\ \A b \in BatchIds(p) : /\ b \in Nat /\ Story(b) \in Stories
                                     /\ Number(b) \in 1..Batches(p, Story(b))
                                     /\ b = Batch(Story(b), Number(b))
           /\ \A s \in Stories : \A k \in 1..Batches(p, s) :
                 /\ Batch(s, k) \in BatchIds(p) /\ Story(Batch(s, k)) = s
                 /\ Number(Batch(s, k)) = k
<1>1. StoryIds(p) = Stories /\ Stories \in SUBSET Nat
  BY PlansAreGood DEF GoodPlan
<1>2. ASSUME NEW s \in Stories, NEW k \in 1..Batches(p, s)
      PROVE  /\ Batch(s, k) \in BatchIds(p) /\ Batch(s, k) \in Nat
             /\ Story(Batch(s, k)) = s /\ Number(Batch(s, k)) = k
  <2>1. k \in 0..MaxPaths
    BY BatchesOf, SplitAssumption
  <2>2. QED
    BY <1>1, <2>1, BatchIdParts DEF BatchIds
<1>3. \A b \in BatchIds(p) : \E s \in Stories : \E k \in 1..Batches(p, s) : b = Batch(s, k)
  BY <1>1 DEF BatchIds
<1>4. QED
  BY <1>2, <1>3

\* The plan of batches, field by field.
LEMMA BoundedFields ==
    ASSUME NEW p
    PROVE  /\ StoryIds(Bounded(p)) = BatchIds(p)
           /\ \A b \in BatchIds(p) :
                 /\ Bounded(p).files[b] = Slice(p.files[Story(b)], Number(b))
                 /\ Bounded(p).place[b] = Batch(p.place[Story(b)], Number(b))
                 /\ Bounded(p).deps[b] = IF Number(b) = 1
                                         THEN {Batch(d, Batches(p, d)) : d \in p.deps[Story(b)]}
                                         ELSE {b - 1}
           /\ DOMAIN Bounded(p).place = BatchIds(p) /\ DOMAIN Bounded(p).deps = BatchIds(p)
           /\ Bounded(p).place = [b \in BatchIds(p) |-> Bounded(p).place[b]]
           /\ Bounded(p).deps = [b \in BatchIds(p) |-> Bounded(p).deps[b]]
  BY DEF Bounded, StoryIds

\* The batches of a plan are again a plan that keeps the contract, if the plan does.
LEMMA BoundedIsGood ==
    ASSUME NEW p \in Plans, Contracted(p)
    PROVE  GoodPlan(Bounded(p)) /\ Contracted(Bounded(p))
<1> DEFINE q == Bounded(p)
           I == BatchIds(p)
<1>1. /\ StoryIds(q) = I
      /\ \A b \in I : /\ q.place[b] = Batch(p.place[Story(b)], Number(b))
                      /\ q.deps[b] = IF Number(b) = 1
                                     THEN {Batch(d, Batches(p, d)) : d \in p.deps[Story(b)]}
                                     ELSE {b - 1}
      /\ q.place = [b \in I |-> q.place[b]] /\ q.deps = [b \in I |-> q.deps[b]]
  BY BoundedFields
<1>2. /\ \A b \in I : /\ b \in Nat /\ Story(b) \in Stories
                      /\ Number(b) \in 1..Batches(p, Story(b)) /\ b = Batch(Story(b), Number(b))
      /\ \A s \in Stories : \A k \in 1..Batches(p, s) :
            Batch(s, k) \in I /\ Story(Batch(s, k)) = s /\ Number(Batch(s, k)) = k
  BY BatchId
<1>3. /\ p.place \in [Stories -> Nat] /\ \A s, t \in Stories : p.place[s] = p.place[t] => s = t
      /\ p.deps \in [Stories -> SUBSET Stories] /\ \A s \in Stories : s \notin p.deps[s]
      /\ \A s \in Stories : \A d \in p.deps[s] : p.place[d] < p.place[s]
  BY PlansAreGood DEF GoodPlan, Contracted, Listed
<1>4. \A s \in Stories : Batches(p, s) \in 1..MaxPaths
  BY BatchesOf
<1> HIDE DEF q, I
<1>5. \A b \in I : Number(b) \in 1..MaxPaths /\ Number(b) \in 0..MaxPaths
  BY <1>2, <1>4, SplitAssumption
<1>6. IsFiniteSet(I)
  <2> DEFINE top == Batch(MaxStories + 1, 0)
  <2>1. top \in Nat
    BY SplitAssumption, BatchIdParts
  <2>2. ASSUME NEW b \in I PROVE b <= top
    <3>1. Story(b) \in Nat /\ Story(b) < MaxStories + 1 /\ MaxStories + 1 \in Nat
      BY <1>2, SplitAssumption DEF Stories
    <3>2. 0 \in 0..MaxPaths
      BY SplitAssumption
    <3>3. Batch(Story(b), Number(b)) < top
      BY <1>5, <3>1, <3>2, BatchOrder
    <3>4. QED
      BY <1>2, <2>1, <3>3
  <2>3. I \in SUBSET Nat
    BY <1>2
  <2> HIDE DEF top
  <2>4. QED
    BY <2>1, <2>2, <2>3, FS_BoundedSetOfNaturals
<1>7. \A b \in I : /\ p.place[Story(b)] \in Nat /\ q.place[b] \in Nat
                  /\ Story(q.place[b]) = p.place[Story(b)] /\ Number(q.place[b]) = Number(b)
  <2> SUFFICES ASSUME NEW b \in I
               PROVE  /\ p.place[Story(b)] \in Nat /\ q.place[b] \in Nat
                      /\ Story(q.place[b]) = p.place[Story(b)] /\ Number(q.place[b]) = Number(b)
    OBVIOUS
  <2>1. p.place[Story(b)] \in Nat /\ Number(b) \in 0..MaxPaths
    BY <1>2, <1>3, <1>5
  <2>2. q.place[b] = Batch(p.place[Story(b)], Number(b))
    BY <1>1
  <2>3. QED
    BY <2>1, <2>2, BatchIdParts
<1>8. ASSUME NEW b \in I, NEW e \in I, q.place[b] = q.place[e] PROVE b = e
  <2>1. /\ Story(q.place[b]) = p.place[Story(b)] /\ Number(q.place[b]) = Number(b)
        /\ Story(q.place[e]) = p.place[Story(e)] /\ Number(q.place[e]) = Number(e)
    BY <1>7
  <2>2. Story(b) = Story(e) /\ Number(b) = Number(e)
    BY <1>2, <1>3, <1>8, <2>1
  <2>3. QED
    BY <1>2, <2>2
<1>9. ASSUME NEW b \in I, NEW e \in q.deps[b]
      PROVE  e \in I /\ e # b /\ q.place[e] < q.place[b]
  <2>1. CASE Number(b) = 1
    <3>1. PICK d \in p.deps[Story(b)] : e = Batch(d, Batches(p, d))
      <4>1. q.deps[b] = {Batch(d, Batches(p, d)) : d \in p.deps[Story(b)]}
        BY <1>1, <2>1
      <4>2. QED
        BY <1>9, <4>1
    <3>2. d \in Stories /\ d # Story(b) /\ p.place[d] < p.place[Story(b)]
      BY <1>2, <1>3
    <3>3. Batches(p, d) \in 1..Batches(p, d)
      BY <1>4, <3>2
    <3>4. e \in I /\ Story(e) = d /\ Number(e) = Batches(p, d)
      BY <1>2, <3>1, <3>2, <3>3
    <3>5. Batch(p.place[d], Number(e)) < Batch(p.place[Story(b)], Number(b))
      BY <1>2, <1>3, <1>5, <3>2, <3>4, BatchOrder
    <3>6. QED
      BY <1>1, <3>2, <3>4, <3>5
  <2>2. CASE Number(b) # 1
    <3> DEFINE s == Story(b)
               k == Number(b)
    <3>1. e = b - 1
      BY <1>1, <1>9, <2>2
    <3>2. s \in Stories /\ k \in 1..Batches(p, s) /\ b = Batch(s, k) /\ b \in Nat /\ s \in Nat
      BY <1>2 DEF Stories
    <3>3. k - 1 \in 1..Batches(p, s) /\ k \in Nat
      BY <1>4, <2>2, <3>2
    <3>4. e = Batch(s, k - 1)
      BY <3>1, <3>2, <3>3, SplitAssumption DEF Batch
    <3>5. e \in I /\ Story(e) = s /\ Number(e) = k - 1
      BY <1>2, <3>2, <3>3, <3>4
    <3>6. q.place[b] = Batch(p.place[s], k) /\ q.place[e] = Batch(p.place[s], k - 1)
      BY <1>1, <3>5
    <3>7. Batch(p.place[s], k - 1) < Batch(p.place[s], k)
      <4>1. p.place[s] \in Nat
        BY <1>3, <3>2
      <4>2. QED
        BY <3>3, <4>1, SplitAssumption DEF Batch
    <3>8. QED
      BY <3>1, <3>2, <3>5, <3>6, <3>7
  <2>3. QED
    BY <2>1, <2>2
<1>10. I \in SUBSET Nat
  BY <1>2
<1>11. q.place \in [I -> Nat] /\ q.deps \in [I -> SUBSET I]
  <2>1. \A b \in I : q.deps[b] \in SUBSET I
    BY <1>9
  <2>2. QED
    BY <1>1, <1>7, <2>1
<1>12. GoodPlan(q)
  BY <1>1, <1>6, <1>8, <1>9, <1>10, <1>11 DEF GoodPlan
<1>13. Contracted(q)
  BY <1>1, <1>9 DEF Contracted, Listed
<1>14. QED
  BY <1>12, <1>13 DEF q

\* How many files of the list come before f.
Before(F, f) == Cardinality({g \in F : g < f})

\* The files of a story are counted off in their order.
LEMMA CountedOff ==
    ASSUME NEW F \in SUBSET Nat, IsFiniteSet(F)
    PROVE  /\ Cardinality(F) \in Nat
           /\ \A f \in F : Before(F, f) \in 0..(Cardinality(F) - 1)
           /\ \A f, g \in F : f < g => Before(F, f) < Before(F, g)
<1> DEFINE Under(f) == {g \in F : g < f}
<1>1. \A f \in F : IsFiniteSet(Under(f)) /\ Cardinality(Under(f)) \in Nat
  BY FS_Subset, FS_CardinalityType
<1>2. Cardinality(F) \in Nat
  BY FS_CardinalityType
<1>3. ASSUME NEW f \in F, NEW S, IsFiniteSet(S), Under(f) \subseteq S, f \in S
      PROVE  Cardinality(Under(f)) < Cardinality(S)
  <2>1. Under(f) \in SUBSET S /\ Under(f) # S
    BY <1>3
  <2> HIDE DEF Under
  <2>2. Cardinality(Under(f)) <= Cardinality(S) /\ Cardinality(S) # Cardinality(Under(f))
    BY <1>3, <2>1, FS_Subset
  <2>3. Cardinality(S) \in Nat /\ Cardinality(Under(f)) \in Nat
    BY <1>1, <1>3, FS_CardinalityType
  <2>4. QED
    BY <2>2, <2>3
<1>4. \A f \in F : Cardinality(Under(f)) < Cardinality(F)
  BY <1>3
<1>5. ASSUME NEW f \in F, NEW g \in F, f < g
      PROVE  Cardinality(Under(f)) < Cardinality(Under(g))
  <2>1. \A h \in Under(f) : h < g
    BY <1>5
  <2>2. Under(f) \subseteq Under(g) /\ f \in Under(g) /\ IsFiniteSet(Under(g))
    BY <1>1, <1>5, <2>1
  <2> HIDE DEF Under
  <2>3. QED
    BY <1>3, <2>2
<1>6. QED
  BY <1>1, <1>2, <1>4, <1>5 DEF Before

\* A batch fits a job.
LEMMA SliceFits ==
    ASSUME NEW F \in SUBSET Nat, IsFiniteSet(F), NEW k \in Nat \ {0}
    PROVE  Cardinality(Slice(F, k)) <= MaxFiles
<1> DEFINE low == (k - 1) * MaxFiles
           R == low..(low + MaxFiles - 1)
           rank == [f \in Slice(F, k) |-> Before(F, f)]
<1>1. low \in Nat /\ k * MaxFiles = low + MaxFiles
  BY SplitAssumption
<1>2. IsFiniteSet(R) /\ Cardinality(R) = MaxFiles
  <2> HIDE DEF low
  <2>1. low + MaxFiles - 1 \in Int /\ ~(low > low + MaxFiles - 1)
    BY <1>1, SplitAssumption
  <2>2. QED
    BY <1>1, <2>1, FS_Interval, SplitAssumption
<1>3. Slice(F, k) = {f \in F : low <= Before(F, f) /\ Before(F, f) < k * MaxFiles}
  BY DEF Slice, Before
<1>4. \A f \in F : Before(F, f) \in Nat
  BY CountedOff
<1> HIDE DEF low
<1>5. rank \in Injection(Slice(F, k), R)
  <2>1. \A f \in Slice(F, k) : f \in F /\ Before(F, f) \in R
    <3> SUFFICES ASSUME NEW f \in Slice(F, k) PROVE f \in F /\ Before(F, f) \in R
      OBVIOUS
    <3>1. f \in F /\ low <= Before(F, f) /\ Before(F, f) < low + MaxFiles
      BY <1>1, <1>3
    <3>2. Before(F, f) \in Nat
      BY <1>4, <3>1
    <3>3. QED
      BY <1>1, <3>1, <3>2, SplitAssumption
  <2>2. ASSUME NEW f \in Slice(F, k), NEW g \in Slice(F, k), Before(F, f) = Before(F, g)
        PROVE  f = g
    <3>1. f \in F /\ g \in F /\ f \in Nat /\ g \in Nat
      BY <2>1
    <3>2. ~(f < g) /\ ~(g < f)
      BY <2>2, <3>1, <1>4, CountedOff
    <3>3. QED
      BY <3>1, <3>2
  <2>3. rank \in [Slice(F, k) -> R]
    <3> HIDE DEF R
    <3>1. QED
      BY <2>1
  <2>4. \A f, g \in Slice(F, k) : rank[f] = rank[g] => f = g
    BY <2>2
  <2> HIDE DEF R, rank
  <2>5. QED
    BY <2>3, <2>4 DEF Injection, IsInjective
<1> HIDE DEF R, rank
<1>6. QED
  BY <1>2, <1>5, FS_Injection

\* Every file is in a batch.
LEMMA SlicesCover ==
    ASSUME NEW p \in Plans, NEW s \in Stories, NEW f \in p.files[s]
    PROVE  \E k \in 1..Batches(p, s) : f \in Slice(p.files[s], k)
<1> DEFINE F == p.files[s]
           n == Cardinality(F)
           b == Before(F, f)
           k == b \div MaxFiles + 1
<1>1. F \in SUBSET Nat /\ IsFiniteSet(F) /\ MaxFiles \in Nat \ {0}
      /\ Batches(p, s) \in 1..MaxPaths
      /\ (n + MaxFiles - 1) \div MaxFiles <= Batches(p, s)
  BY BatchesOf, SplitAssumption
<1> HIDE DEF F
<1>2. n \in Nat /\ b \in 0..(n - 1)
  BY <1>1, CountedOff DEF F
<1> HIDE DEF n, b
<1>3. /\ (n + MaxFiles - 1) \div MaxFiles \in Nat
      /\ b \div MaxFiles \in Nat /\ k <= (n + MaxFiles - 1) \div MaxFiles
      /\ (b \div MaxFiles) * MaxFiles <= b /\ b < k * MaxFiles
  BY <1>1, <1>2, RoundedUp
<1>4. k \in 1..Batches(p, s) /\ k - 1 = b \div MaxFiles
  BY <1>1, <1>3, SplitAssumption
<1> HIDE DEF k
<1>5. (k - 1) * MaxFiles <= b /\ b < k * MaxFiles
  BY <1>3, <1>4
<1>6. f \in Slice(F, k)
  BY <1>5 DEF Slice, b, Before, F
<1>7. QED
  BY <1>4, <1>6 DEF F

\* A batch waits for all earlier ones of its story.
LEMMA BatchesWait ==
    ASSUME NEW p \in Plans, Contracted(p), NEW s \in Stories,
           NEW j \in Nat, NEW k \in 1..Batches(p, s), 1 <= j, j < k
    PROVE  JobWaits(Bounded(p), Batch(s, k), Batch(s, j))
<1> DEFINE q == Bounded(p)
           B == Batches(p, s)
           T == {i \in Nat : j + 1 + i <= B => JobWaits(q, Batch(s, j + 1 + i), Batch(s, j))}
<1>1. GoodPlan(q) /\ Contracted(q)
  BY BoundedIsGood
<1>2. B \in 1..MaxPaths /\ MaxPaths \in Nat
  BY BatchesOf, SplitAssumption
<1>3. ASSUME NEW l \in 2..B PROVE JobWaits(q, Batch(s, l), Batch(s, l - 1))
  <2>1. l \in 1..B /\ l # 1
    BY <1>2
  <2>2. /\ Batch(s, l) \in BatchIds(p) /\ Number(Batch(s, l)) = l
    BY <2>1, BatchId
  <2>3. q.deps[Batch(s, l)] = {Batch(s, l) - 1}
    BY <2>1, <2>2, BoundedFields
  <2>4. Batch(s, l) - 1 = Batch(s, l - 1)
    BY <1>2, SplitAssumption DEF Batch, Stories
  <2>5. Batch(s, l) \in StoryIds(q)
    BY <2>2, BoundedFields
  <2> HIDE DEF q
  <2>6. Batch(s, l - 1) \in q.deps[Batch(s, l)]
    BY <2>3, <2>4
  <2>7. QED
    BY <1>1, <2>5, <2>6, DeclaredIsAwaited
<1> HIDE DEF q, B
<1>4. 0 \in T
  <2>1. j + 1 <= B => j + 1 \in 2..B /\ (j + 1) - 1 = j /\ j + 1 + 0 = j + 1
    BY <1>2
  <2>2. QED
    BY <1>3, <2>1
<1>5. ASSUME NEW i \in Nat, i \in T, j + 1 + (i + 1) <= B
      PROVE  JobWaits(q, Batch(s, j + 1 + (i + 1)), Batch(s, j))
  <2>1. j + 1 + (i + 1) \in 2..B /\ (j + 1 + (i + 1)) - 1 = j + 1 + i /\ j + 1 + i <= B
    BY <1>2, <1>5
  <2>2. JobWaits(q, Batch(s, j + 1 + (i + 1)), Batch(s, j + 1 + i))
    BY <1>3, <2>1
  <2>3. JobWaits(q, Batch(s, j + 1 + i), Batch(s, j))
    BY <1>5, <2>1
  <2>4. QED
    BY <1>1, <2>2, <2>3, WaitsAddUp
<1>6. Nat \subseteq T
  <2>1. 0 \in T /\ \A i \in Nat : i \in T => i + 1 \in T
    <3> SUFFICES ASSUME NEW i \in Nat, i \in T PROVE i + 1 \in T
      BY <1>4
    <3>1. QED
      BY <1>5
  <2> HIDE DEF T
  <2>2. QED
    BY <2>1, EveryNumber
<1>7. k - j - 1 \in Nat /\ j + 1 + (k - j - 1) = k /\ k <= B
  BY <1>2 DEF B
<1>8. QED
  BY <1>6, <1>7 DEF q

\* So every batch waits for every batch of a story its own depends on: back to its
\* first one, over to the last one of the other, and back from there.
LEMMA DependenciesWait ==
    ASSUME NEW p \in Plans, Contracted(p), NEW a \in BatchIds(p), NEW b \in BatchIds(p),
           Story(b) \in p.deps[Story(a)]
    PROVE  JobWaits(Bounded(p), a, b)
<1> DEFINE q == Bounded(p)
           s == Story(a)
           d == Story(b)
           first == Batch(s, 1)
           last == Batch(d, Batches(p, d))
<1>1. GoodPlan(q) /\ Contracted(q)
  BY BoundedIsGood
<1>2. /\ s \in Stories /\ Number(a) \in 1..Batches(p, s) /\ a = Batch(s, Number(a))
      /\ d \in Stories /\ Number(b) \in 1..Batches(p, d) /\ b = Batch(d, Number(b))
  BY BatchId
<1>3. /\ Batches(p, s) \in 1..MaxPaths /\ Batches(p, d) \in 1..MaxPaths /\ MaxPaths \in Nat
  BY <1>2, BatchesOf, SplitAssumption
<1>4. 1 \in 1..Batches(p, s) /\ Batches(p, d) \in 1..Batches(p, d)
  BY <1>3
<1>5. /\ first \in BatchIds(p) /\ Story(first) = s /\ Number(first) = 1
  BY <1>2, <1>4, BatchId
<1>6. JobWaits(q, first, last)
  <2>1. q.deps[first] = {Batch(x, Batches(p, x)) : x \in p.deps[s]}
    <3>1. q.deps[first] = IF Number(first) = 1
                          THEN {Batch(x, Batches(p, x)) : x \in p.deps[Story(first)]}
                          ELSE {first - 1}
      <4> HIDE DEF first
      <4>1. QED
        BY <1>5, BoundedFields
    <3> HIDE DEF first, q, s
    <3>2. QED
      BY <1>5, <3>1
  <2>2. last \in q.deps[first]
    BY <2>1
  <2>3. first \in StoryIds(q)
    BY <1>5, BoundedFields
  <2> HIDE DEF q, first, last
  <2>4. QED
    BY <1>1, <2>2, <2>3, DeclaredIsAwaited
<1>7. a = first \/ JobWaits(q, a, first)
  <2>1. CASE Number(a) = 1
    BY <1>2, <2>1
  <2>2. CASE Number(a) # 1
    <3>1. 1 < Number(a) /\ 1 \in Nat /\ 1 <= 1
      BY <1>2, <1>3, <2>2
    <3>2. QED
      BY <1>2, <3>1, BatchesWait
  <2>3. QED
    BY <2>1, <2>2
<1>8. b = last \/ JobWaits(q, last, b)
  <2>1. CASE Number(b) = Batches(p, d)
    BY <1>2, <2>1
  <2>2. CASE Number(b) # Batches(p, d)
    <3>1. Number(b) < Batches(p, d) /\ Number(b) \in Nat /\ 1 <= Number(b)
      BY <1>2, <1>3, <2>2
    <3>2. QED
      BY <1>2, <1>4, <3>1, BatchesWait
  <2>3. QED
    BY <2>1, <2>2
<1> HIDE DEF q, first, last
<1>9. JobWaits(q, a, last)
  BY <1>1, <1>6, <1>7, WaitsAddUp
<1>10. JobWaits(q, a, b)
  BY <1>1, <1>8, <1>9, WaitsAddUp
<1>11. QED
  BY <1>10 DEF q

\* The supervisor's split of a plan it finds saved.
LEMMA SavedSplitIsOrdered ==
    ASSUME NEW p \in Plans, Contracted(p)
    PROVE  SavedPlanSplit(p)
<1> DEFINE q == Bounded(p)
           C == Components(q)
           W == {w \in StoryIds(q) \X StoryIds(q) : Declares(p, Story(w[1]), Story(w[2]))}
<1>1. GoodPlan(q) /\ Contracted(q)
  BY BoundedIsGood
<1>2. StoryIds(p) = Stories /\ StoryIds(q) = BatchIds(p)
  BY PlansAreGood, BoundedFields
<1>3. \A b \in BatchIds(p) : q.files[b] = Slice(p.files[Story(b)], Number(b))
  BY BoundedFields
<1>4. /\ \A b \in BatchIds(p) : /\ Story(b) \in Stories /\ Number(b) \in 1..Batches(p, Story(b))
      /\ \A s \in Stories : \A k \in 1..Batches(p, s) :
            Batch(s, k) \in BatchIds(p) /\ Story(Batch(s, k)) = s /\ Number(Batch(s, k)) = k
  BY BatchId
<1> HIDE DEF q
<1>5. ASSUME NEW s \in Stories
      PROVE  p.files[s] = UNION {q.files[b] : b \in {c \in BatchIds(p) : Story(c) = s}}
  <2>1. ASSUME NEW f \in p.files[s]
        PROVE  \E b \in {c \in BatchIds(p) : Story(c) = s} : f \in q.files[b]
    <3>1. PICK k \in 1..Batches(p, s) : f \in Slice(p.files[s], k)
      BY SlicesCover
    <3>2. Batch(s, k) \in BatchIds(p) /\ Story(Batch(s, k)) = s /\ Number(Batch(s, k)) = k
      BY <1>4
    <3>3. QED
      BY <1>3, <3>1, <3>2
  <2>2. \A b \in BatchIds(p) : Story(b) = s => q.files[b] \subseteq p.files[s]
    BY <1>3 DEF Slice
  <2>3. QED
    BY <2>1, <2>2
<1>6. ASSUME NEW b \in BatchIds(p) PROVE Cardinality(q.files[b]) <= MaxFiles
  <2>1. Number(b) \in Nat \ {0}
    BY <1>4, BatchesOf
  <2>2. p.files[Story(b)] \in SUBSET Nat /\ IsFiniteSet(p.files[Story(b)])
    BY <1>4, BatchesOf
  <2>3. QED
    BY <1>3, <2>1, <2>2, SliceFits
<1>7. Serial(q, C)
  BY <1>1, SplitIsSerial
<1>8. Obeyed(C, W)
  <2>1. \A w \in W : JobWaits(q, w[1], w[2])
    BY <1>2, DependenciesWait DEF Declares, q
  <2> HIDE DEF W
  <2>2. QED
    BY <1>1, <2>1, WaitsAreObeyed
<1>9. QED
  BY <1>2, <1>5, <1>6, <1>7, <1>8 DEF SavedPlanSplit, q

\* However many stories and paths there are, and whatever they share or depend on:
\* a plan that is cut into jobs loses no story and no file, its jobs can be created
\* in their order, those that write one file run one after the other, and each
\* waits for all it depends on.  _compute_split_chains, _split_from_saved_plan.
THEOREM PlansSplit == SplitOrdered
  BY PlannedSplit, SavedSplitIsOrdered DEF SplitOrdered

\* So it does in every run of the graph.  _compute_split_chains,
\* _split_from_saved_plan.
THEOREM PlansAreSplitInOrder == GraphSpec => []PlansSplitInOrder
<1>1. PlansSplitInOrder
  BY PlansSplit DEF PlansSplitInOrder
<1>2. QED
  BY <1>1, PTL

=============================================================================
