---------------------------- MODULE Gates_proofs ----------------------------
(***************************************************************************)
(* Gates for every number of jobs, modules and symbols, every plan that a  *)
(* planner may answer and every bound: types, scopes that follow the plan, *)
(* agents that do not share files, and what the two gates achieve.         *)
(*                                                                         *)
(* What a worktree holds when it lands is what its last gate has seen,     *)
(* or the job is loose: the gate's verdict is about the tree that the      *)
(* branch has taken from the base, which is the base when the job lands.   *)
(***************************************************************************)
EXTENDS Gates, FiniteSetTheorems, TLAPS

(* Types *)

Planning == {"park", "reconcile", "freeze", "save"}

TreesOK ==
    /\ base \in Tree /\ index \in SUBSET Defs
    /\ fork \in [GJobs -> Tree] /\ work \in [GJobs -> Tree]

RowsOK ==
    /\ stage \in [GJobs -> Stages]
    /\ status \in [GJobs -> {"pending", "running", "done", "failed", "cancelled"}]
    /\ at \in [GJobs -> Steps]
    /\ \A j \in GJobs : status[j] = "running" <=> at[j] # "idle"
    /\ kept \subseteq GJobs

CountsOK ==
    /\ asked \in [GJobs -> 0..1] /\ attempts \in [GJobs -> 0..FixCap]
    /\ parked \in [GJobs -> BOOLEAN] /\ bypass \in [GJobs -> BOOLEAN]
    /\ loose \subseteq GJobs /\ troubles \in 0..MaxTroubles

MaybeFiles == (SUBSET Paths) \union {None}

ScopesOK ==
    /\ manifest \in [GJobs -> SUBSET Paths]
    /\ plan \in [GJobs -> MaybeFiles]
    /\ tracked \in [GJobs -> SUBSET Paths]

AnswersOK ==
    /\ answer \in [GJobs -> Plans \union {None}]
    /\ \A j \in GJobs : at[j] \in Planning <=> answer[j] # None

TypeInv == TreesOK /\ RowsOK /\ CountsOK /\ ScopesOK /\ AnswersOK

LEMMA TypesFollow == TypeInv => GatesTypeOK
  BY DEF TypeInv, TreesOK, RowsOK, CountsOK, ScopesOK, MaybeFiles, AnswersOK, GatesTypeOK, Planning

LEMMA Tree0Type == Tree0 \in Tree
  BY GatesAssumption DEF Tree0, Tree, Revs, Ids

LEMMA TypeInit == GatesInit => TypeInv
<1> SUFFICES ASSUME GatesInit PROVE TypeInv
  OBVIOUS
<1>1. TreesOK
  BY Tree0Type DEF GatesInit, TreesOK
<1>2. RowsOK
  BY DEF GatesInit, RowsOK, Stages, Steps
<1>3. CountsOK
  BY GatesAssumption DEF GatesInit, CountsOK
<1>4. ScopesOK
  <2>1. manifest \in [GJobs -> SUBSET Paths]
    BY GatesAssumption DEF GatesInit
  <2>2. plan \in [GJobs -> MaybeFiles]
    BY DEF GatesInit, MaybeFiles
  <2>3. tracked \in [GJobs -> SUBSET Paths]
    BY DEF GatesInit
  <2>4. QED
    BY <2>1, <2>2, <2>3 DEF ScopesOK
<1>5. AnswersOK
  BY DEF GatesInit, AnswersOK, Planning
<1>6. QED
  BY <1>1, <1>2, <1>3, <1>4, <1>5 DEF TypeInv

\* What agents and merges make of trees are trees.
LEMMA MergedType ==
    ASSUME NEW f \in Tree, NEW ours \in Tree, NEW theirs \in Tree
    PROVE  Merged(f, ours, theirs) \in Tree
  BY DEF Merged, Taken, Tree

LEMMA ResultsType ==
    ASSUME NEW t \in Tree, NEW j \in GJobs
    PROVE  Results(t, j) \subseteq Tree
<1>1. Edited(t) \subseteq Tree
  BY DEF Edited, Tree
<1>2. Migrated(t, j) \subseteq Tree
  <2> DEFINE others == {r \in t.revs : r.id # j}
  <2>1. others \subseteq Revs /\ t \in Tree /\ j \in Ids
    BY DEF Tree, Ids
  <2>2. Heads(others) \subseteq Ids /\ \A r \in others : {r.id} \subseteq Ids
    BY <2>1 DEF Heads, Revs
  <2>3. \A down \in SUBSET Ids : [t EXCEPT !.revs = others \union {[id |-> j, down |-> down]}] \in Tree
    BY <2>1 DEF Tree, Revs
  <2>4. QED
    BY <2>2, <2>3 DEF Migrated
<1>3. QED
  BY <1>1, <1>2 DEF Results

LEMMA TreesStep == TypeInv /\ [GatesNext]_gateVars => TreesOK'
<1> SUFFICES ASSUME TypeInv, [GatesNext]_gateVars PROVE TreesOK'
  OBVIOUS
<1>0. [GatesNext]_gateVars
  OBVIOUS
<1>1. TreesOK
  BY DEF TypeInv
<1>2. QED
  <2>1. ASSUME NEW j \in GJobs, Claims(j) PROVE TreesOK'
    BY <2>1, <1>1, MergedType, ResultsType
       DEF Claims, TreesOK, trees, scopes, place, planning
  <2>2. ASSUME NEW j \in GJobs, ClaimsOn(j) PROVE TreesOK'
    BY <2>2, <1>1, MergedType, ResultsType
       DEF ClaimsOn, TreesOK, trees, scopes, place, planning
  <2>3. ASSUME NEW j \in GJobs, Dies(j) PROVE TreesOK'
    BY <2>3, <1>1, MergedType, ResultsType
       DEF Dies, TreesOK, trees, scopes, place, planning
  <2>4. ASSUME NEW j \in GJobs, NEW force \in BOOLEAN, Retries(j, force) PROVE TreesOK'
    BY <2>4, <1>1, MergedType, ResultsType
       DEF Retries, TreesOK, trees, scopes, place, planning
  <2>5. ASSUME NEW j \in GJobs, StartsPlan(j) PROVE TreesOK'
    BY <2>5, <1>1 DEF StartsPlan, TreesOK, Tree, trees
  <2>6. ASSUME NEW j \in GJobs, AsksAgain(j) PROVE TreesOK'
    BY <2>6, <1>1, MergedType, ResultsType
       DEF AsksAgain, TreesOK, trees, scopes, place, planning
  <2>7. ASSUME NEW j \in GJobs, FailsIncomplete(j) PROVE TreesOK'
    BY <2>7, <1>1, MergedType, ResultsType
       DEF FailsIncomplete, TreesOK, trees, scopes, place, planning
  <2>8. ASSUME NEW j \in GJobs, FailsToPlan(j) PROVE TreesOK'
    BY <2>8, <1>1, MergedType, ResultsType
       DEF FailsToPlan, TreesOK, trees, scopes, place, planning
  <2>9. ASSUME NEW j \in GJobs, Splits(j) PROVE TreesOK'
    BY <2>9, <1>1, MergedType, ResultsType
       DEF Splits, TreesOK, trees, scopes, place, planning
  <2>10. ASSUME NEW j \in GJobs, Parks(j) PROVE TreesOK'
    BY <2>10, <1>1, MergedType, ResultsType
       DEF Parks, TreesOK, trees, scopes, place, planning
  <2>11. ASSUME NEW j \in GJobs, FailsParked(j) PROVE TreesOK'
    BY <2>11, <1>1, MergedType, ResultsType
       DEF FailsParked, TreesOK, trees, scopes, place, planning
  <2>12. ASSUME NEW j \in GJobs, Accepts(j) PROVE TreesOK'
    BY <2>12, <1>1, MergedType, ResultsType
       DEF Accepts, TreesOK, trees, scopes, place, planning
  <2>13. ASSUME NEW j \in GJobs, Reconciles(j) PROVE TreesOK'
    BY <2>13, <1>1, MergedType, ResultsType
       DEF Reconciles, TreesOK, trees, scopes, place, planning
  <2>14. ASSUME NEW j \in GJobs, Freezes(j) PROVE TreesOK'
    BY <2>14, <1>1, MergedType, ResultsType
       DEF Freezes, TreesOK, trees, scopes, place, planning
  <2>15. ASSUME NEW j \in GJobs, SavesPlan(j) PROVE TreesOK'
    BY <2>15, <1>1, MergedType, ResultsType
       DEF SavesPlan, TreesOK, trees, scopes, place, planning
  <2>16. ASSUME NEW j \in GJobs, Branches(j) PROVE TreesOK'
    BY <2>16, <1>1, MergedType, ResultsType
       DEF Branches, TreesOK, trees, scopes, place, planning
  <2>17. ASSUME NEW j \in GJobs, Works(j) PROVE TreesOK'
    BY <2>17, <1>1, MergedType, ResultsType
       DEF Works, TreesOK, trees, scopes, place, planning
  <2>18. ASSUME NEW j \in GJobs, AgentFails(j) PROVE TreesOK'
    BY <2>18, <1>1, MergedType, ResultsType
       DEF AgentFails, TreesOK, trees, scopes, place, planning
  <2>19. ASSUME NEW j \in GJobs, Passes(j) PROVE TreesOK'
    BY <2>19, <1>1, MergedType, ResultsType
       DEF Passes, TreesOK, trees, scopes, place, planning
  <2>20. ASSUME NEW j \in GJobs, Rejects(j) PROVE TreesOK'
    BY <2>20, <1>1, MergedType, ResultsType
       DEF Rejects, ToFix, TreesOK, trees, scopes, place, planning
  <2>21. ASSUME NEW j \in GJobs, TestsFail(j) PROVE TreesOK'
    BY <2>21, <1>1, MergedType, ResultsType
       DEF TestsFail, ToFix, TreesOK, trees, scopes, place, planning
  <2>22. ASSUME NEW j \in GJobs, Lands(j) PROVE TreesOK'
    BY <2>22, <1>1, MergedType, ResultsType
       DEF Lands, TreesOK, trees, scopes, place, planning
  <2>23. ASSUME NEW j \in GJobs, Absorbs(j) PROVE TreesOK'
    BY <2>23, <1>1, MergedType, ResultsType
       DEF Absorbs, Absorbed, TreesOK, trees, scopes, place, planning
  <2>24. ASSUME NEW j \in GJobs, Conflicts(j) PROVE TreesOK'
    BY <2>24, <1>1, MergedType, ResultsType
       DEF Conflicts, Absorbed, TreesOK, trees, scopes, place, planning
  <2>25. ASSUME NEW j \in GJobs, MergedFails(j) PROVE TreesOK'
    BY <2>25, <1>1, MergedType, ResultsType
       DEF MergedFails, Absorbed, ToFix, TreesOK, trees, scopes, place, planning
  <2>26. ASSUME UNCHANGED gateVars PROVE TreesOK'
    BY <2>26, <1>1, MergedType, ResultsType
       DEF gateVars, TreesOK, trees, scopes, place, planning
  <2>27. QED
    BY <1>0, <2>1, <2>2, <2>3, <2>4, <2>5, <2>6, <2>7, <2>8, <2>9, <2>10, <2>11, <2>12, <2>13, <2>14, <2>15, <2>16, <2>17, <2>18, <2>19, <2>20, <2>21, <2>22, <2>23, <2>24, <2>25, <2>26
       DEF GatesNext

LEMMA RowsStep == TypeInv /\ [GatesNext]_gateVars => RowsOK'
<1> SUFFICES ASSUME TypeInv, [GatesNext]_gateVars PROVE RowsOK'
  OBVIOUS
<1>0. [GatesNext]_gateVars
  OBVIOUS
<1>1. RowsOK
  BY DEF TypeInv
<1>2. QED
  <2>1. ASSUME NEW j \in GJobs, Claims(j) PROVE RowsOK'
    BY <2>1, <1>1
       DEF Claims, RowsOK, Stages, Steps, trees, scopes, place, planning
  <2>2. ASSUME NEW j \in GJobs, ClaimsOn(j) PROVE RowsOK'
    BY <2>2, <1>1
       DEF ClaimsOn, RowsOK, Stages, Steps, trees, scopes, place, planning
  <2>3. ASSUME NEW j \in GJobs, Dies(j) PROVE RowsOK'
    BY <2>3, <1>1
       DEF Dies, RowsOK, Stages, Steps, trees, scopes, place, planning
  <2>4. ASSUME NEW j \in GJobs, NEW force \in BOOLEAN, Retries(j, force) PROVE RowsOK'
    BY <2>4, <1>1
       DEF Retries, RowsOK, Stages, Steps, trees, scopes, place, planning
  <2>5. ASSUME NEW j \in GJobs, StartsPlan(j) PROVE RowsOK'
    BY <2>5, <1>1
       DEF StartsPlan, RowsOK, Stages, Steps, trees, scopes, place, planning
  <2>6. ASSUME NEW j \in GJobs, AsksAgain(j) PROVE RowsOK'
    BY <2>6, <1>1
       DEF AsksAgain, RowsOK, Stages, Steps, trees, scopes, place, planning
  <2>7. ASSUME NEW j \in GJobs, FailsIncomplete(j) PROVE RowsOK'
    BY <2>7, <1>1
       DEF FailsIncomplete, Leaves, RowsOK, Stages, Steps, trees, scopes, place, planning
  <2>8. ASSUME NEW j \in GJobs, FailsToPlan(j) PROVE RowsOK'
    BY <2>8, <1>1
       DEF FailsToPlan, Leaves, RowsOK, Stages, Steps, trees, scopes, place, planning
  <2>9. ASSUME NEW j \in GJobs, Splits(j) PROVE RowsOK'
    BY <2>9, <1>1
       DEF Splits, Leaves, RowsOK, Stages, Steps, trees, scopes, place, planning
  <2>10. ASSUME NEW j \in GJobs, Parks(j) PROVE RowsOK'
    BY <2>10, <1>1
       DEF Parks, RowsOK, Stages, Steps, trees, scopes, place, planning
  <2>11. ASSUME NEW j \in GJobs, FailsParked(j) PROVE RowsOK'
    BY <2>11, <1>1
       DEF FailsParked, Leaves, RowsOK, Stages, Steps, trees, scopes, place, planning
  <2>12. ASSUME NEW j \in GJobs, Accepts(j) PROVE RowsOK'
    BY <2>12, <1>1
       DEF Accepts, RowsOK, Stages, Steps, trees, scopes, place, planning
  <2>13. ASSUME NEW j \in GJobs, Reconciles(j) PROVE RowsOK'
    BY <2>13, <1>1
       DEF Reconciles, RowsOK, Stages, Steps, trees, scopes, place, planning
  <2>14. ASSUME NEW j \in GJobs, Freezes(j) PROVE RowsOK'
    BY <2>14, <1>1
       DEF Freezes, RowsOK, Stages, Steps, trees, scopes, place, planning
  <2>15. ASSUME NEW j \in GJobs, SavesPlan(j) PROVE RowsOK'
    BY <2>15, <1>1
       DEF SavesPlan, Leaves, RowsOK, Stages, Steps, trees, scopes, place, planning
  <2>16. ASSUME NEW j \in GJobs, Branches(j) PROVE RowsOK'
    BY <2>16, <1>1
       DEF Branches, RowsOK, Stages, Steps, trees, scopes, place, planning
  <2>17. ASSUME NEW j \in GJobs, Works(j) PROVE RowsOK'
    BY <2>17, <1>1
       DEF Works, Leaves, RowsOK, Stages, Steps, trees, scopes, place, planning
  <2>18. ASSUME NEW j \in GJobs, AgentFails(j) PROVE RowsOK'
    BY <2>18, <1>1
       DEF AgentFails, Leaves, RowsOK, Stages, Steps, trees, scopes, place, planning
  <2>19. ASSUME NEW j \in GJobs, Passes(j) PROVE RowsOK'
    BY <2>19, <1>1
       DEF Passes, Leaves, RowsOK, Stages, Steps, trees, scopes, place, planning
  <2>20. ASSUME NEW j \in GJobs, Rejects(j) PROVE RowsOK'
    BY <2>20, <1>1
       DEF Rejects, ToFix, Leaves, RowsOK, Stages, Steps, trees, scopes, place, planning
  <2>21. ASSUME NEW j \in GJobs, TestsFail(j) PROVE RowsOK'
    BY <2>21, <1>1
       DEF TestsFail, ToFix, Leaves, RowsOK, Stages, Steps, trees, scopes, place, planning
  <2>22. ASSUME NEW j \in GJobs, Lands(j) PROVE RowsOK'
    BY <2>22, <1>1
       DEF Lands, Leaves, RowsOK, Stages, Steps, trees, scopes, place, planning
  <2>23. ASSUME NEW j \in GJobs, Absorbs(j) PROVE RowsOK'
    BY <2>23, <1>1
       DEF Absorbs, Absorbed, RowsOK, Stages, Steps, trees, scopes, place, planning
  <2>24. ASSUME NEW j \in GJobs, Conflicts(j) PROVE RowsOK'
    BY <2>24, <1>1
       DEF Conflicts, Absorbed, Leaves, RowsOK, Stages, Steps, trees, scopes, place, planning
  <2>25. ASSUME NEW j \in GJobs, MergedFails(j) PROVE RowsOK'
    BY <2>25, <1>1
       DEF MergedFails, Absorbed, ToFix, Leaves, RowsOK, Stages, Steps, trees, scopes, place, planning
  <2>26. ASSUME UNCHANGED gateVars PROVE RowsOK'
    BY <2>26, <1>1
       DEF gateVars, RowsOK, Stages, Steps, trees, scopes, place, planning
  <2>27. QED
    BY <1>0, <2>1, <2>2, <2>3, <2>4, <2>5, <2>6, <2>7, <2>8, <2>9, <2>10, <2>11, <2>12, <2>13, <2>14, <2>15, <2>16, <2>17, <2>18, <2>19, <2>20, <2>21, <2>22, <2>23, <2>24, <2>25, <2>26
       DEF GatesNext

LEMMA CountsStep == TypeInv /\ [GatesNext]_gateVars => CountsOK'
<1> SUFFICES ASSUME TypeInv, [GatesNext]_gateVars PROVE CountsOK'
  OBVIOUS
<1>0. [GatesNext]_gateVars
  OBVIOUS
<1>1. CountsOK
  BY DEF TypeInv
<1>2. QED
  <2>1. ASSUME NEW j \in GJobs, Claims(j) PROVE CountsOK'
    BY <2>1, <1>1, GatesAssumption
       DEF Claims, CountsOK, trees, scopes, place, planning
  <2>2. ASSUME NEW j \in GJobs, ClaimsOn(j) PROVE CountsOK'
    BY <2>2, <1>1, GatesAssumption
       DEF ClaimsOn, CountsOK, trees, scopes, place, planning
  <2>3. ASSUME NEW j \in GJobs, Dies(j) PROVE CountsOK'
    BY <2>3, <1>1, GatesAssumption
       DEF Dies, Trouble, CountsOK, trees, scopes, place, planning
  <2>4. ASSUME NEW j \in GJobs, NEW force \in BOOLEAN, Retries(j, force) PROVE CountsOK'
    BY <2>4, <1>1, GatesAssumption
       DEF Retries, Trouble, CountsOK, trees, scopes, place, planning
  <2>5. ASSUME NEW j \in GJobs, StartsPlan(j) PROVE CountsOK'
    BY <2>5, <1>1, GatesAssumption
       DEF StartsPlan, Trouble, CountsOK, trees, scopes, place, planning
  <2>6. ASSUME NEW j \in GJobs, AsksAgain(j) PROVE CountsOK'
    BY <2>6, <1>1, GatesAssumption
       DEF AsksAgain, CountsOK, trees, scopes, place, planning
  <2>7. ASSUME NEW j \in GJobs, FailsIncomplete(j) PROVE CountsOK'
    BY <2>7, <1>1, GatesAssumption
       DEF FailsIncomplete, CountsOK, trees, scopes, place, planning
  <2>8. ASSUME NEW j \in GJobs, FailsToPlan(j) PROVE CountsOK'
    BY <2>8, <1>1, GatesAssumption
       DEF FailsToPlan, Trouble, CountsOK, trees, scopes, place, planning
  <2>9. ASSUME NEW j \in GJobs, Splits(j) PROVE CountsOK'
    BY <2>9, <1>1, GatesAssumption
       DEF Splits, CountsOK, trees, scopes, place, planning
  <2>10. ASSUME NEW j \in GJobs, Parks(j) PROVE CountsOK'
    BY <2>10, <1>1, GatesAssumption
       DEF Parks, CountsOK, trees, scopes, place, planning
  <2>11. ASSUME NEW j \in GJobs, FailsParked(j) PROVE CountsOK'
    BY <2>11, <1>1, GatesAssumption
       DEF FailsParked, CountsOK, trees, scopes, place, planning
  <2>12. ASSUME NEW j \in GJobs, Accepts(j) PROVE CountsOK'
    BY <2>12, <1>1, GatesAssumption
       DEF Accepts, CountsOK, trees, scopes, place, planning
  <2>13. ASSUME NEW j \in GJobs, Reconciles(j) PROVE CountsOK'
    BY <2>13, <1>1, GatesAssumption
       DEF Reconciles, CountsOK, trees, scopes, place, planning
  <2>14. ASSUME NEW j \in GJobs, Freezes(j) PROVE CountsOK'
    BY <2>14, <1>1, GatesAssumption
       DEF Freezes, CountsOK, trees, scopes, place, planning
  <2>15. ASSUME NEW j \in GJobs, SavesPlan(j) PROVE CountsOK'
    BY <2>15, <1>1, GatesAssumption
       DEF SavesPlan, CountsOK, trees, scopes, place, planning
  <2>16. ASSUME NEW j \in GJobs, Branches(j) PROVE CountsOK'
    BY <2>16, <1>1, GatesAssumption
       DEF Branches, CountsOK, trees, scopes, place, planning
  <2>17. ASSUME NEW j \in GJobs, Works(j) PROVE CountsOK'
    BY <2>17, <1>1, GatesAssumption
       DEF Works, CountsOK, trees, scopes, place, planning
  <2>18. ASSUME NEW j \in GJobs, AgentFails(j) PROVE CountsOK'
    BY <2>18, <1>1, GatesAssumption
       DEF AgentFails, Trouble, CountsOK, trees, scopes, place, planning
  <2>19. ASSUME NEW j \in GJobs, Passes(j) PROVE CountsOK'
    BY <2>19, <1>1, GatesAssumption
       DEF Passes, Looks, Trouble, CountsOK, trees, scopes, place, planning
  <2>20. ASSUME NEW j \in GJobs, Rejects(j) PROVE CountsOK'
    BY <2>20, <1>1, GatesAssumption
       DEF Rejects, ToFix, CountsOK, trees, scopes, place, planning
  <2>21. ASSUME NEW j \in GJobs, TestsFail(j) PROVE CountsOK'
    BY <2>21, <1>1, GatesAssumption
       DEF TestsFail, Trouble, ToFix, CountsOK, trees, scopes, place, planning
  <2>22. ASSUME NEW j \in GJobs, Lands(j) PROVE CountsOK'
    BY <2>22, <1>1, GatesAssumption
       DEF Lands, CountsOK, trees, scopes, place, planning
  <2>23. ASSUME NEW j \in GJobs, Absorbs(j) PROVE CountsOK'
    BY <2>23, <1>1, GatesAssumption
       DEF Absorbs, Absorbed, CountsOK, trees, scopes, place, planning
  <2>24. ASSUME NEW j \in GJobs, Conflicts(j) PROVE CountsOK'
    BY <2>24, <1>1, GatesAssumption
       DEF Conflicts, Absorbed, CountsOK, trees, scopes, place, planning
  <2>25. ASSUME NEW j \in GJobs, MergedFails(j) PROVE CountsOK'
    BY <2>25, <1>1, GatesAssumption
       DEF MergedFails, Absorbed, ToFix, CountsOK, trees, scopes, place, planning
  <2>26. ASSUME UNCHANGED gateVars PROVE CountsOK'
    BY <2>26, <1>1, GatesAssumption
       DEF gateVars, CountsOK, trees, scopes, place, planning
  <2>27. QED
    BY <1>0, <2>1, <2>2, <2>3, <2>4, <2>5, <2>6, <2>7, <2>8, <2>9, <2>10, <2>11, <2>12, <2>13, <2>14, <2>15, <2>16, <2>17, <2>18, <2>19, <2>20, <2>21, <2>22, <2>23, <2>24, <2>25, <2>26
       DEF GatesNext

LEMMA ScopesStep == TypeInv /\ [GatesNext]_gateVars => ScopesOK'
<1> SUFFICES ASSUME TypeInv, [GatesNext]_gateVars PROVE ScopesOK'
  OBVIOUS
<1>0. [GatesNext]_gateVars
  OBVIOUS
<1>1. /\ ScopesOK /\ FilesOf(base) \in SUBSET Paths
      /\ None \in MaybeFiles /\ \A S \in SUBSET Paths : S \in MaybeFiles
      /\ \A a \in Usable : ManifestOf(a) \in SUBSET Paths
      /\ \A j \in GJobs : at[j] \in Planning =>
            ManifestOf(answer[j]) \in SUBSET Paths /\ Declared(j, answer[j]) \in SUBSET Paths
  <2>1. ScopesOK /\ FilesOf(base) \in SUBSET Paths
    BY DEF TypeInv, FilesOf, Paths
  <2>2. \A a \in Plans : ManifestOf(a) \in SUBSET Paths /\ a.stories \in SUBSET Paths
    BY DEF ManifestOf, Plans
  <2>3. Usable \subseteq Plans
    BY GatesAssumption DEF Usable
  <2>4. \A j \in GJobs : at[j] \in Planning => answer[j] \in Plans
    BY DEF TypeInv, AnswersOK
  <2>5. \A j \in GJobs : Labelled[j] \in SUBSET Paths
    BY GatesAssumption
  <2>6. \A j \in GJobs : at[j] \in Planning => Declared(j, answer[j]) \in SUBSET Paths
    BY <2>2, <2>4, <2>5 DEF Declared
  <2>7. None \in MaybeFiles /\ \A S \in SUBSET Paths : S \in MaybeFiles
    BY DEF MaybeFiles
  <2>8. QED
    BY <2>1, <2>2, <2>3, <2>4, <2>6, <2>7
<1>2. QED
  <2>1. ASSUME NEW j \in GJobs, Claims(j) PROVE ScopesOK'
    BY <2>1, <1>1, GatesAssumption
       DEF Claims, ScopesOK, Planning, trees, scopes, place, planning
  <2>2. ASSUME NEW j \in GJobs, ClaimsOn(j) PROVE ScopesOK'
    BY <2>2, <1>1, GatesAssumption
       DEF ClaimsOn, ScopesOK, Planning, trees, scopes, place, planning
  <2>3. ASSUME NEW j \in GJobs, Dies(j) PROVE ScopesOK'
    BY <2>3, <1>1, GatesAssumption
       DEF Dies, ScopesOK, Planning, trees, scopes, place, planning
  <2>4. ASSUME NEW j \in GJobs, NEW force \in BOOLEAN, Retries(j, force) PROVE ScopesOK'
    BY <2>4, <1>1, GatesAssumption
       DEF Retries, ScopesOK, Planning, trees, scopes, place, planning
  <2>5. ASSUME NEW j \in GJobs, StartsPlan(j) PROVE ScopesOK'
    BY <2>5, <1>1, GatesAssumption
       DEF StartsPlan, ScopesOK, Planning, trees, scopes, place, planning
  <2>6. ASSUME NEW j \in GJobs, AsksAgain(j) PROVE ScopesOK'
    BY <2>6, <1>1, GatesAssumption
       DEF AsksAgain, ScopesOK, Planning, trees, scopes, place, planning
  <2>7. ASSUME NEW j \in GJobs, FailsIncomplete(j) PROVE ScopesOK'
    BY <2>7, <1>1, GatesAssumption
       DEF FailsIncomplete, ScopesOK, Planning, trees, scopes, place, planning
  <2>8. ASSUME NEW j \in GJobs, FailsToPlan(j) PROVE ScopesOK'
    BY <2>8, <1>1, GatesAssumption
       DEF FailsToPlan, ScopesOK, Planning, trees, scopes, place, planning
  <2>9. ASSUME NEW j \in GJobs, Splits(j) PROVE ScopesOK'
    BY <2>9, <1>1, GatesAssumption
       DEF Splits, ScopesOK, Planning, trees, scopes, place, planning
  <2>10. ASSUME NEW j \in GJobs, Parks(j) PROVE ScopesOK'
    BY <2>10, <1>1, GatesAssumption
       DEF Parks, ScopesOK, Planning, trees, scopes, place, planning
  <2>11. ASSUME NEW j \in GJobs, FailsParked(j) PROVE ScopesOK'
    <3>0. at[j] \in Planning
      BY <2>11 DEF FailsParked, Planning
    <3>1. /\ ManifestOf(answer[j]) \in SUBSET Paths /\ Declared(j, answer[j]) \in SUBSET Paths
          /\ ManifestOf(answer[j]) \in MaybeFiles
      BY <1>1, <3>0
    <3>2. QED
      BY <2>11, <1>1, <3>1 DEF FailsParked, ScopesOK, planning
  <2>12. ASSUME NEW j \in GJobs, Accepts(j) PROVE ScopesOK'
    BY <2>12, <1>1, GatesAssumption
       DEF Accepts, ScopesOK, Planning, trees, scopes, place, planning
  <2>13. ASSUME NEW j \in GJobs, Reconciles(j) PROVE ScopesOK'
    <3>0. at[j] \in Planning
      BY <2>13 DEF Reconciles, Planning
    <3>1. /\ ManifestOf(answer[j]) \in SUBSET Paths /\ Declared(j, answer[j]) \in SUBSET Paths
          /\ ManifestOf(answer[j]) \in MaybeFiles
      BY <1>1, <3>0
    <3>2. QED
      BY <2>13, <1>1, <3>1 DEF Reconciles, ScopesOK, planning
  <2>14. ASSUME NEW j \in GJobs, Freezes(j) PROVE ScopesOK'
    <3>0. at[j] \in Planning
      BY <2>14 DEF Freezes, Planning
    <3>1. /\ ManifestOf(answer[j]) \in SUBSET Paths /\ Declared(j, answer[j]) \in SUBSET Paths
          /\ ManifestOf(answer[j]) \in MaybeFiles
      BY <1>1, <3>0
    <3>2. QED
      BY <2>14, <1>1, <3>1 DEF Freezes, ScopesOK, planning
  <2>15. ASSUME NEW j \in GJobs, SavesPlan(j) PROVE ScopesOK'
    <3>0. at[j] \in Planning
      BY <2>15 DEF SavesPlan, Planning
    <3>1. /\ ManifestOf(answer[j]) \in SUBSET Paths /\ Declared(j, answer[j]) \in SUBSET Paths
          /\ ManifestOf(answer[j]) \in MaybeFiles
      BY <1>1, <3>0
    <3>2. QED
      BY <2>15, <1>1, <3>1 DEF SavesPlan, ScopesOK, planning
  <2>16. ASSUME NEW j \in GJobs, Branches(j) PROVE ScopesOK'
    BY <2>16, <1>1, GatesAssumption
       DEF Branches, ScopesOK, Planning, trees, scopes, place, planning
  <2>17. ASSUME NEW j \in GJobs, Works(j) PROVE ScopesOK'
    BY <2>17, <1>1, GatesAssumption
       DEF Works, ScopesOK, Planning, trees, scopes, place, planning
  <2>18. ASSUME NEW j \in GJobs, AgentFails(j) PROVE ScopesOK'
    BY <2>18, <1>1, GatesAssumption
       DEF AgentFails, ScopesOK, Planning, trees, scopes, place, planning
  <2>19. ASSUME NEW j \in GJobs, Passes(j) PROVE ScopesOK'
    BY <2>19, <1>1, GatesAssumption
       DEF Passes, ScopesOK, Planning, trees, scopes, place, planning
  <2>20. ASSUME NEW j \in GJobs, Rejects(j) PROVE ScopesOK'
    BY <2>20, <1>1, GatesAssumption
       DEF Rejects, ToFix, ScopesOK, Planning, trees, scopes, place, planning
  <2>21. ASSUME NEW j \in GJobs, TestsFail(j) PROVE ScopesOK'
    BY <2>21, <1>1, GatesAssumption
       DEF TestsFail, ToFix, ScopesOK, Planning, trees, scopes, place, planning
  <2>22. ASSUME NEW j \in GJobs, Lands(j) PROVE ScopesOK'
    BY <2>22, <1>1, GatesAssumption
       DEF Lands, ScopesOK, Planning, trees, scopes, place, planning
  <2>23. ASSUME NEW j \in GJobs, Absorbs(j) PROVE ScopesOK'
    BY <2>23, <1>1, GatesAssumption
       DEF Absorbs, Absorbed, ScopesOK, Planning, trees, scopes, place, planning
  <2>24. ASSUME NEW j \in GJobs, Conflicts(j) PROVE ScopesOK'
    BY <2>24, <1>1, GatesAssumption
       DEF Conflicts, Absorbed, ScopesOK, Planning, trees, scopes, place, planning
  <2>25. ASSUME NEW j \in GJobs, MergedFails(j) PROVE ScopesOK'
    BY <2>25, <1>1, GatesAssumption
       DEF MergedFails, Absorbed, ToFix, ScopesOK, Planning, trees, scopes, place, planning
  <2>26. ASSUME UNCHANGED gateVars PROVE ScopesOK'
    BY <2>26, <1>1, GatesAssumption
       DEF gateVars, ScopesOK, Planning, trees, scopes, place, planning
  <2>27. QED
    BY <1>0, <2>1, <2>2, <2>3, <2>4, <2>5, <2>6, <2>7, <2>8, <2>9, <2>10, <2>11, <2>12, <2>13, <2>14, <2>15, <2>16, <2>17, <2>18, <2>19, <2>20, <2>21, <2>22, <2>23, <2>24, <2>25, <2>26
       DEF GatesNext

LEMMA AnswersStep == TypeInv /\ [GatesNext]_gateVars => AnswersOK'
<1> SUFFICES ASSUME TypeInv, [GatesNext]_gateVars PROVE AnswersOK'
  OBVIOUS
<1>0. [GatesNext]_gateVars
  OBVIOUS
<1>1. AnswersOK /\ at \in [GJobs -> Steps] /\ (\A j \in GJobs : at[j] # "idle" => status[j] = "running") /\ \A a \in Usable : a \in Plans /\ a # None
  BY GatesAssumption DEF TypeInv, RowsOK, Usable
<1>2. QED
  <2>1. ASSUME NEW j \in GJobs, Claims(j) PROVE AnswersOK'
    BY <2>1, <1>1
       DEF Claims, AnswersOK, Planning, trees, scopes, place, planning
  <2>2. ASSUME NEW j \in GJobs, ClaimsOn(j) PROVE AnswersOK'
    BY <2>2, <1>1
       DEF ClaimsOn, AnswersOK, Planning, trees, scopes, place, planning
  <2>3. ASSUME NEW j \in GJobs, Dies(j) PROVE AnswersOK'
    BY <2>3, <1>1
       DEF Dies, AnswersOK, Planning, trees, scopes, place, planning
  <2>4. ASSUME NEW j \in GJobs, NEW force \in BOOLEAN, Retries(j, force) PROVE AnswersOK'
    BY <2>4, <1>1
       DEF Retries, AnswersOK, Planning, trees, scopes, place, planning
  <2>5. ASSUME NEW j \in GJobs, StartsPlan(j) PROVE AnswersOK'
    BY <2>5, <1>1
       DEF StartsPlan, AnswersOK, Planning, trees, scopes, place, planning
  <2>6. ASSUME NEW j \in GJobs, AsksAgain(j) PROVE AnswersOK'
    BY <2>6, <1>1
       DEF AsksAgain, AnswersOK, Planning, trees, scopes, place, planning
  <2>7. ASSUME NEW j \in GJobs, FailsIncomplete(j) PROVE AnswersOK'
    BY <2>7, <1>1
       DEF FailsIncomplete, Leaves, AnswersOK, Planning, trees, scopes, place, planning
  <2>8. ASSUME NEW j \in GJobs, FailsToPlan(j) PROVE AnswersOK'
    BY <2>8, <1>1
       DEF FailsToPlan, Leaves, AnswersOK, Planning, trees, scopes, place, planning
  <2>9. ASSUME NEW j \in GJobs, Splits(j) PROVE AnswersOK'
    BY <2>9, <1>1
       DEF Splits, Leaves, AnswersOK, Planning, trees, scopes, place, planning
  <2>10. ASSUME NEW j \in GJobs, Parks(j) PROVE AnswersOK'
    BY <2>10, <1>1
       DEF Parks, AnswersOK, Planning, trees, scopes, place, planning
  <2>11. ASSUME NEW j \in GJobs, FailsParked(j) PROVE AnswersOK'
    BY <2>11, <1>1
       DEF FailsParked, Leaves, AnswersOK, Planning, trees, scopes, place, planning
  <2>12. ASSUME NEW j \in GJobs, Accepts(j) PROVE AnswersOK'
    BY <2>12, <1>1
       DEF Accepts, AnswersOK, Planning, trees, scopes, place, planning
  <2>13. ASSUME NEW j \in GJobs, Reconciles(j) PROVE AnswersOK'
    BY <2>13, <1>1
       DEF Reconciles, AnswersOK, Planning, trees, scopes, place, planning
  <2>14. ASSUME NEW j \in GJobs, Freezes(j) PROVE AnswersOK'
    BY <2>14, <1>1
       DEF Freezes, AnswersOK, Planning, trees, scopes, place, planning
  <2>15. ASSUME NEW j \in GJobs, SavesPlan(j) PROVE AnswersOK'
    BY <2>15, <1>1
       DEF SavesPlan, Leaves, AnswersOK, Planning, trees, scopes, place, planning
  <2>16. ASSUME NEW j \in GJobs, Branches(j) PROVE AnswersOK'
    BY <2>16, <1>1
       DEF Branches, AnswersOK, Planning, trees, scopes, place, planning
  <2>17. ASSUME NEW j \in GJobs, Works(j) PROVE AnswersOK'
    BY <2>17, <1>1
       DEF Works, Leaves, AnswersOK, Planning, trees, scopes, place, planning
  <2>18. ASSUME NEW j \in GJobs, AgentFails(j) PROVE AnswersOK'
    BY <2>18, <1>1
       DEF AgentFails, Leaves, AnswersOK, Planning, trees, scopes, place, planning
  <2>19. ASSUME NEW j \in GJobs, Passes(j) PROVE AnswersOK'
    BY <2>19, <1>1
       DEF Passes, Leaves, AnswersOK, Planning, trees, scopes, place, planning
  <2>20. ASSUME NEW j \in GJobs, Rejects(j) PROVE AnswersOK'
    BY <2>20, <1>1
       DEF Rejects, ToFix, Leaves, AnswersOK, Planning, trees, scopes, place, planning
  <2>21. ASSUME NEW j \in GJobs, TestsFail(j) PROVE AnswersOK'
    BY <2>21, <1>1
       DEF TestsFail, ToFix, Leaves, AnswersOK, Planning, trees, scopes, place, planning
  <2>22. ASSUME NEW j \in GJobs, Lands(j) PROVE AnswersOK'
    BY <2>22, <1>1
       DEF Lands, Leaves, AnswersOK, Planning, trees, scopes, place, planning
  <2>23. ASSUME NEW j \in GJobs, Absorbs(j) PROVE AnswersOK'
    BY <2>23, <1>1
       DEF Absorbs, Absorbed, AnswersOK, Planning, trees, scopes, place, planning
  <2>24. ASSUME NEW j \in GJobs, Conflicts(j) PROVE AnswersOK'
    BY <2>24, <1>1
       DEF Conflicts, Absorbed, Leaves, AnswersOK, Planning, trees, scopes, place, planning
  <2>25. ASSUME NEW j \in GJobs, MergedFails(j) PROVE AnswersOK'
    BY <2>25, <1>1
       DEF MergedFails, Absorbed, ToFix, Leaves, AnswersOK, Planning, trees, scopes, place, planning
  <2>26. ASSUME UNCHANGED gateVars PROVE AnswersOK'
    BY <2>26, <1>1
       DEF gateVars, AnswersOK, Planning, trees, scopes, place, planning
  <2>27. QED
    BY <1>0, <2>1, <2>2, <2>3, <2>4, <2>5, <2>6, <2>7, <2>8, <2>9, <2>10, <2>11, <2>12, <2>13, <2>14, <2>15, <2>16, <2>17, <2>18, <2>19, <2>20, <2>21, <2>22, <2>23, <2>24, <2>25, <2>26
       DEF GatesNext

LEMMA TypeStep == TypeInv /\ [GatesNext]_gateVars => TypeInv'
  BY TreesStep, RowsStep, CountsStep, ScopesStep, AnswersStep DEF TypeInv

LEMMA TypesKept == GatesSpec => []TypeInv
  BY TypeInit, TypeStep, PTL DEF GatesSpec

\* Rows, handlers and trees have their types in every reachable state.
THEOREM GatesTypeCorrect == GatesSpec => []GatesTypeOK
  BY TypesKept, TypesFollow, PTL

-----------------------------------------------------------------------------
(* Scopes that follow the plan *)

\* What has been accepted is complete and passes the scope gate.
Fit(j) == ~Incomplete(j, answer[j]) /\ ~TooBig(j, answer[j])

Follows(j) ==
    /\ plan[j] = manifest[j]
    /\ Oversized(manifest[j]) => bypass[j]
    /\ Mandatory(j) \ Frontend \subseteq manifest[j]

PlanningQueued == \A j \in GJobs : at[j] \in {"ask"} \union Planning => stage[j] = "queued"
AcceptedFits   == \A j \in GJobs : at[j] \in {"reconcile", "freeze", "save"} => Fit(j)
FrozenSo       == \A j \in GJobs : at[j] = "save" => manifest[j] = ManifestOf(answer[j])
PlanFollowed   == \A j \in GJobs : stage[j] # "queued" => Follows(j)

ScopeInv == PlanningQueued /\ AcceptedFits /\ FrozenSo /\ PlanFollowed

LEMMA ScopeInit == GatesInit => ScopeInv
  BY DEF GatesInit, ScopeInv, PlanningQueued, AcceptedFits, FrozenSo, PlanFollowed, Planning

LEMMA FitKept ==
    \A j \in GJobs :
        (tracked'[j] = tracked[j] /\ bypass'[j] = bypass[j] /\ answer'[j] = answer[j])
            => (Fit(j) => Fit(j)')
  BY DEF Fit, Incomplete, TooBig, Mandatory, Fenced

LEMMA FollowsKept ==
    \A j \in GJobs :
        (tracked'[j] = tracked[j] /\ bypass'[j] = bypass[j] /\ plan'[j] = plan[j] /\ manifest'[j] = manifest[j])
            => (Follows(j) => Follows(j)')
  BY DEF Follows, Mandatory, Fenced

\* What fits, once it is frozen and saved, is followed.
LEMMA FitFollowed ==
    ASSUME NEW j \in GJobs, Fit(j), manifest[j] = ManifestOf(answer[j])
    PROVE  /\ Oversized(manifest[j]) => bypass[j]
           /\ Mandatory(j) \ Frontend \subseteq manifest[j]
  BY DEF Fit, Incomplete, TooBig

LEMMA QueuedStep == TypeInv /\ ScopeInv /\ [GatesNext]_gateVars => PlanningQueued'
<1> SUFFICES ASSUME TypeInv, ScopeInv, [GatesNext]_gateVars PROVE PlanningQueued'
  OBVIOUS
<1>0. [GatesNext]_gateVars
  OBVIOUS
<1>1. /\ stage \in [GJobs -> Stages] /\ at \in [GJobs -> Steps]
      /\ \A j \in GJobs : status[j] = "running" <=> at[j] # "idle"
      /\ PlanningQueued
  BY DEF TypeInv, RowsOK, ScopeInv
<1>2. QED
  <2>1. ASSUME NEW j \in GJobs, Claims(j) PROVE PlanningQueued'
    BY <2>1, <1>1
       DEF Claims, PlanningQueued, Planning, trees, scopes, place, planning
  <2>2. ASSUME NEW j \in GJobs, ClaimsOn(j) PROVE PlanningQueued'
    BY <2>2, <1>1
       DEF ClaimsOn, PlanningQueued, Planning, trees, scopes, place, planning
  <2>3. ASSUME NEW j \in GJobs, Dies(j) PROVE PlanningQueued'
    BY <2>3, <1>1
       DEF Dies, PlanningQueued, Planning, trees, scopes, place, planning
  <2>4. ASSUME NEW j \in GJobs, NEW force \in BOOLEAN, Retries(j, force) PROVE PlanningQueued'
    BY <2>4, <1>1
       DEF Retries, PlanningQueued, Planning, trees, scopes, place, planning
  <2>5. ASSUME NEW j \in GJobs, StartsPlan(j) PROVE PlanningQueued'
    BY <2>5, <1>1
       DEF StartsPlan, PlanningQueued, Planning, trees, scopes, place, planning
  <2>6. ASSUME NEW j \in GJobs, AsksAgain(j) PROVE PlanningQueued'
    BY <2>6, <1>1
       DEF AsksAgain, PlanningQueued, Planning, trees, scopes, place, planning
  <2>7. ASSUME NEW j \in GJobs, FailsIncomplete(j) PROVE PlanningQueued'
    BY <2>7, <1>1
       DEF FailsIncomplete, Leaves, PlanningQueued, Planning, trees, scopes, place, planning
  <2>8. ASSUME NEW j \in GJobs, FailsToPlan(j) PROVE PlanningQueued'
    BY <2>8, <1>1
       DEF FailsToPlan, Leaves, PlanningQueued, Planning, trees, scopes, place, planning
  <2>9. ASSUME NEW j \in GJobs, Splits(j) PROVE PlanningQueued'
    BY <2>9, <1>1
       DEF Splits, Leaves, PlanningQueued, Planning, trees, scopes, place, planning
  <2>10. ASSUME NEW j \in GJobs, Parks(j) PROVE PlanningQueued'
    BY <2>10, <1>1
       DEF Parks, PlanningQueued, Planning, trees, scopes, place, planning
  <2>11. ASSUME NEW j \in GJobs, FailsParked(j) PROVE PlanningQueued'
    BY <2>11, <1>1
       DEF FailsParked, Leaves, PlanningQueued, Planning, trees, scopes, place, planning
  <2>12. ASSUME NEW j \in GJobs, Accepts(j) PROVE PlanningQueued'
    BY <2>12, <1>1
       DEF Accepts, PlanningQueued, Planning, trees, scopes, place, planning
  <2>13. ASSUME NEW j \in GJobs, Reconciles(j) PROVE PlanningQueued'
    BY <2>13, <1>1
       DEF Reconciles, PlanningQueued, Planning, trees, scopes, place, planning
  <2>14. ASSUME NEW j \in GJobs, Freezes(j) PROVE PlanningQueued'
    BY <2>14, <1>1
       DEF Freezes, PlanningQueued, Planning, trees, scopes, place, planning
  <2>15. ASSUME NEW j \in GJobs, SavesPlan(j) PROVE PlanningQueued'
    BY <2>15, <1>1
       DEF SavesPlan, Leaves, PlanningQueued, Planning, trees, scopes, place, planning
  <2>16. ASSUME NEW j \in GJobs, Branches(j) PROVE PlanningQueued'
    BY <2>16, <1>1
       DEF Branches, PlanningQueued, Planning, trees, scopes, place, planning
  <2>17. ASSUME NEW j \in GJobs, Works(j) PROVE PlanningQueued'
    BY <2>17, <1>1
       DEF Works, Leaves, PlanningQueued, Planning, trees, scopes, place, planning
  <2>18. ASSUME NEW j \in GJobs, AgentFails(j) PROVE PlanningQueued'
    BY <2>18, <1>1
       DEF AgentFails, Leaves, PlanningQueued, Planning, trees, scopes, place, planning
  <2>19. ASSUME NEW j \in GJobs, Passes(j) PROVE PlanningQueued'
    BY <2>19, <1>1
       DEF Passes, Leaves, PlanningQueued, Planning, trees, scopes, place, planning
  <2>20. ASSUME NEW j \in GJobs, Rejects(j) PROVE PlanningQueued'
    BY <2>20, <1>1
       DEF Rejects, ToFix, Leaves, PlanningQueued, Planning, trees, scopes, place, planning
  <2>21. ASSUME NEW j \in GJobs, TestsFail(j) PROVE PlanningQueued'
    BY <2>21, <1>1
       DEF TestsFail, ToFix, Leaves, PlanningQueued, Planning, trees, scopes, place, planning
  <2>22. ASSUME NEW j \in GJobs, Lands(j) PROVE PlanningQueued'
    BY <2>22, <1>1
       DEF Lands, Leaves, PlanningQueued, Planning, trees, scopes, place, planning
  <2>23. ASSUME NEW j \in GJobs, Absorbs(j) PROVE PlanningQueued'
    BY <2>23, <1>1
       DEF Absorbs, Absorbed, PlanningQueued, Planning, trees, scopes, place, planning
  <2>24. ASSUME NEW j \in GJobs, Conflicts(j) PROVE PlanningQueued'
    BY <2>24, <1>1
       DEF Conflicts, Absorbed, Leaves, PlanningQueued, Planning, trees, scopes, place, planning
  <2>25. ASSUME NEW j \in GJobs, MergedFails(j) PROVE PlanningQueued'
    BY <2>25, <1>1
       DEF MergedFails, Absorbed, ToFix, Leaves, PlanningQueued, Planning, trees, scopes, place, planning
  <2>26. ASSUME UNCHANGED gateVars PROVE PlanningQueued'
    BY <2>26, <1>1
       DEF gateVars, PlanningQueued, Planning, trees, scopes, place, planning
  <2>27. QED
    BY <1>0, <2>1, <2>2, <2>3, <2>4, <2>5, <2>6, <2>7, <2>8, <2>9, <2>10, <2>11, <2>12, <2>13, <2>14, <2>15, <2>16, <2>17, <2>18, <2>19, <2>20, <2>21, <2>22, <2>23, <2>24, <2>25, <2>26
       DEF GatesNext

LEMMA FitsStep == TypeInv /\ ScopeInv /\ [GatesNext]_gateVars => AcceptedFits'
<1> SUFFICES ASSUME TypeInv, ScopeInv, [GatesNext]_gateVars PROVE AcceptedFits'
  OBVIOUS
<1>0. [GatesNext]_gateVars
  OBVIOUS
<1>1. /\ stage \in [GJobs -> Stages] /\ at \in [GJobs -> Steps]
      /\ \A j \in GJobs : status[j] = "running" <=> at[j] # "idle"
      /\ AcceptedFits /\ answer \in [GJobs -> Plans \union {None}]
      /\ tracked \in [GJobs -> SUBSET Paths] /\ bypass \in [GJobs -> BOOLEAN]
  BY DEF TypeInv, RowsOK, AnswersOK, ScopesOK, CountsOK, ScopeInv
<1>2. QED
  <2>1. ASSUME NEW j \in GJobs, Claims(j) PROVE AcceptedFits'
    BY <2>1, <1>1, FitKept
       DEF Claims, AcceptedFits, trees, scopes, place, planning
  <2>2. ASSUME NEW j \in GJobs, ClaimsOn(j) PROVE AcceptedFits'
    BY <2>2, <1>1, FitKept
       DEF ClaimsOn, AcceptedFits, trees, scopes, place, planning
  <2>3. ASSUME NEW j \in GJobs, Dies(j) PROVE AcceptedFits'
    BY <2>3, <1>1, FitKept
       DEF Dies, AcceptedFits, trees, scopes, place, planning
  <2>4. ASSUME NEW j \in GJobs, NEW force \in BOOLEAN, Retries(j, force) PROVE AcceptedFits'
    BY <2>4, <1>1, FitKept
       DEF Retries, AcceptedFits, trees, scopes, place, planning
  <2>5. ASSUME NEW j \in GJobs, StartsPlan(j) PROVE AcceptedFits'
    BY <2>5, <1>1, FitKept
       DEF StartsPlan, AcceptedFits, trees, scopes, place, planning
  <2>6. ASSUME NEW j \in GJobs, AsksAgain(j) PROVE AcceptedFits'
    BY <2>6, <1>1, FitKept
       DEF AsksAgain, AcceptedFits, trees, scopes, place, planning
  <2>7. ASSUME NEW j \in GJobs, FailsIncomplete(j) PROVE AcceptedFits'
    BY <2>7, <1>1, FitKept
       DEF FailsIncomplete, Leaves, AcceptedFits, trees, scopes, place, planning
  <2>8. ASSUME NEW j \in GJobs, FailsToPlan(j) PROVE AcceptedFits'
    BY <2>8, <1>1, FitKept
       DEF FailsToPlan, Leaves, AcceptedFits, trees, scopes, place, planning
  <2>9. ASSUME NEW j \in GJobs, Splits(j) PROVE AcceptedFits'
    BY <2>9, <1>1, FitKept
       DEF Splits, Leaves, AcceptedFits, trees, scopes, place, planning
  <2>10. ASSUME NEW j \in GJobs, Parks(j) PROVE AcceptedFits'
    BY <2>10, <1>1, FitKept
       DEF Parks, AcceptedFits, trees, scopes, place, planning
  <2>11. ASSUME NEW j \in GJobs, FailsParked(j) PROVE AcceptedFits'
    BY <2>11, <1>1, FitKept
       DEF FailsParked, Leaves, AcceptedFits, trees, scopes, place, planning
  <2>12. ASSUME NEW j \in GJobs, Accepts(j) PROVE AcceptedFits'
    <3>1. PICK a \in Usable : ~Incomplete(j, a) /\ ~TooBig(j, a) /\ answer' = [answer EXCEPT ![j] = a]
      BY <2>12 DEF Accepts
    <3>2. answer'[j] = a /\ tracked' = tracked /\ bypass' = bypass
      BY <2>12, <1>1, <3>1 DEF Accepts, scopes
    <3>3. Fit(j)'
      BY <3>1, <3>2 DEF Fit, Incomplete, TooBig, Mandatory, Fenced
    <3>4. \A k \in GJobs \ {j} : at'[k] = at[k] /\ (Fit(k) => Fit(k)')
      BY <2>12, <1>1, <3>1, <3>2, FitKept DEF Accepts
    <3>5. QED
      BY <1>1, <3>3, <3>4 DEF AcceptedFits
  <2>13. ASSUME NEW j \in GJobs, Reconciles(j) PROVE AcceptedFits'
    BY <2>13, <1>1, FitKept
       DEF Reconciles, AcceptedFits, trees, scopes, place, planning
  <2>14. ASSUME NEW j \in GJobs, Freezes(j) PROVE AcceptedFits'
    BY <2>14, <1>1, FitKept
       DEF Freezes, AcceptedFits, trees, scopes, place, planning
  <2>15. ASSUME NEW j \in GJobs, SavesPlan(j) PROVE AcceptedFits'
    BY <2>15, <1>1, FitKept
       DEF SavesPlan, Leaves, AcceptedFits, trees, scopes, place, planning
  <2>16. ASSUME NEW j \in GJobs, Branches(j) PROVE AcceptedFits'
    BY <2>16, <1>1, FitKept
       DEF Branches, AcceptedFits, trees, scopes, place, planning
  <2>17. ASSUME NEW j \in GJobs, Works(j) PROVE AcceptedFits'
    BY <2>17, <1>1, FitKept
       DEF Works, Leaves, AcceptedFits, trees, scopes, place, planning
  <2>18. ASSUME NEW j \in GJobs, AgentFails(j) PROVE AcceptedFits'
    BY <2>18, <1>1, FitKept
       DEF AgentFails, Leaves, AcceptedFits, trees, scopes, place, planning
  <2>19. ASSUME NEW j \in GJobs, Passes(j) PROVE AcceptedFits'
    BY <2>19, <1>1, FitKept
       DEF Passes, Leaves, AcceptedFits, trees, scopes, place, planning
  <2>20. ASSUME NEW j \in GJobs, Rejects(j) PROVE AcceptedFits'
    BY <2>20, <1>1, FitKept
       DEF Rejects, ToFix, Leaves, AcceptedFits, trees, scopes, place, planning
  <2>21. ASSUME NEW j \in GJobs, TestsFail(j) PROVE AcceptedFits'
    BY <2>21, <1>1, FitKept
       DEF TestsFail, ToFix, Leaves, AcceptedFits, trees, scopes, place, planning
  <2>22. ASSUME NEW j \in GJobs, Lands(j) PROVE AcceptedFits'
    BY <2>22, <1>1, FitKept
       DEF Lands, Leaves, AcceptedFits, trees, scopes, place, planning
  <2>23. ASSUME NEW j \in GJobs, Absorbs(j) PROVE AcceptedFits'
    BY <2>23, <1>1, FitKept
       DEF Absorbs, Absorbed, AcceptedFits, trees, scopes, place, planning
  <2>24. ASSUME NEW j \in GJobs, Conflicts(j) PROVE AcceptedFits'
    BY <2>24, <1>1, FitKept
       DEF Conflicts, Absorbed, Leaves, AcceptedFits, trees, scopes, place, planning
  <2>25. ASSUME NEW j \in GJobs, MergedFails(j) PROVE AcceptedFits'
    BY <2>25, <1>1, FitKept
       DEF MergedFails, Absorbed, ToFix, Leaves, AcceptedFits, trees, scopes, place, planning
  <2>26. ASSUME UNCHANGED gateVars PROVE AcceptedFits'
    BY <2>26, <1>1, FitKept
       DEF gateVars, AcceptedFits, trees, scopes, place, planning
  <2>27. QED
    BY <1>0, <2>1, <2>2, <2>3, <2>4, <2>5, <2>6, <2>7, <2>8, <2>9, <2>10, <2>11, <2>12, <2>13, <2>14, <2>15, <2>16, <2>17, <2>18, <2>19, <2>20, <2>21, <2>22, <2>23, <2>24, <2>25, <2>26
       DEF GatesNext

LEMMA FrozenStep == TypeInv /\ ScopeInv /\ [GatesNext]_gateVars => FrozenSo'
<1> SUFFICES ASSUME TypeInv, ScopeInv, [GatesNext]_gateVars PROVE FrozenSo'
  OBVIOUS
<1>0. [GatesNext]_gateVars
  OBVIOUS
<1>1. /\ stage \in [GJobs -> Stages] /\ at \in [GJobs -> Steps]
      /\ \A j \in GJobs : status[j] = "running" <=> at[j] # "idle"
      /\ FrozenSo /\ answer \in [GJobs -> Plans \union {None}] /\ manifest \in [GJobs -> SUBSET Paths]
  BY DEF TypeInv, RowsOK, AnswersOK, ScopesOK, ScopeInv
<1>2. QED
  <2>1. ASSUME NEW j \in GJobs, Claims(j) PROVE FrozenSo'
    BY <2>1, <1>1
       DEF Claims, FrozenSo, trees, scopes, place, planning
  <2>2. ASSUME NEW j \in GJobs, ClaimsOn(j) PROVE FrozenSo'
    BY <2>2, <1>1
       DEF ClaimsOn, FrozenSo, trees, scopes, place, planning
  <2>3. ASSUME NEW j \in GJobs, Dies(j) PROVE FrozenSo'
    BY <2>3, <1>1
       DEF Dies, FrozenSo, trees, scopes, place, planning
  <2>4. ASSUME NEW j \in GJobs, NEW force \in BOOLEAN, Retries(j, force) PROVE FrozenSo'
    BY <2>4, <1>1
       DEF Retries, FrozenSo, trees, scopes, place, planning
  <2>5. ASSUME NEW j \in GJobs, StartsPlan(j) PROVE FrozenSo'
    BY <2>5, <1>1
       DEF StartsPlan, FrozenSo, trees, scopes, place, planning
  <2>6. ASSUME NEW j \in GJobs, AsksAgain(j) PROVE FrozenSo'
    BY <2>6, <1>1
       DEF AsksAgain, FrozenSo, trees, scopes, place, planning
  <2>7. ASSUME NEW j \in GJobs, FailsIncomplete(j) PROVE FrozenSo'
    BY <2>7, <1>1
       DEF FailsIncomplete, Leaves, FrozenSo, trees, scopes, place, planning
  <2>8. ASSUME NEW j \in GJobs, FailsToPlan(j) PROVE FrozenSo'
    BY <2>8, <1>1
       DEF FailsToPlan, Leaves, FrozenSo, trees, scopes, place, planning
  <2>9. ASSUME NEW j \in GJobs, Splits(j) PROVE FrozenSo'
    BY <2>9, <1>1
       DEF Splits, Leaves, FrozenSo, trees, scopes, place, planning
  <2>10. ASSUME NEW j \in GJobs, Parks(j) PROVE FrozenSo'
    BY <2>10, <1>1
       DEF Parks, FrozenSo, trees, scopes, place, planning
  <2>11. ASSUME NEW j \in GJobs, FailsParked(j) PROVE FrozenSo'
    BY <2>11, <1>1
       DEF FailsParked, Leaves, FrozenSo, trees, scopes, place, planning
  <2>12. ASSUME NEW j \in GJobs, Accepts(j) PROVE FrozenSo'
    BY <2>12, <1>1
       DEF Accepts, FrozenSo, trees, scopes, place, planning
  <2>13. ASSUME NEW j \in GJobs, Reconciles(j) PROVE FrozenSo'
    BY <2>13, <1>1
       DEF Reconciles, FrozenSo, trees, scopes, place, planning
  <2>14. ASSUME NEW j \in GJobs, Freezes(j) PROVE FrozenSo'
    BY <2>14, <1>1
       DEF Freezes, FrozenSo, trees, scopes, place, planning
  <2>15. ASSUME NEW j \in GJobs, SavesPlan(j) PROVE FrozenSo'
    BY <2>15, <1>1
       DEF SavesPlan, Leaves, FrozenSo, trees, scopes, place, planning
  <2>16. ASSUME NEW j \in GJobs, Branches(j) PROVE FrozenSo'
    BY <2>16, <1>1
       DEF Branches, FrozenSo, trees, scopes, place, planning
  <2>17. ASSUME NEW j \in GJobs, Works(j) PROVE FrozenSo'
    BY <2>17, <1>1
       DEF Works, Leaves, FrozenSo, trees, scopes, place, planning
  <2>18. ASSUME NEW j \in GJobs, AgentFails(j) PROVE FrozenSo'
    BY <2>18, <1>1
       DEF AgentFails, Leaves, FrozenSo, trees, scopes, place, planning
  <2>19. ASSUME NEW j \in GJobs, Passes(j) PROVE FrozenSo'
    BY <2>19, <1>1
       DEF Passes, Leaves, FrozenSo, trees, scopes, place, planning
  <2>20. ASSUME NEW j \in GJobs, Rejects(j) PROVE FrozenSo'
    BY <2>20, <1>1
       DEF Rejects, ToFix, Leaves, FrozenSo, trees, scopes, place, planning
  <2>21. ASSUME NEW j \in GJobs, TestsFail(j) PROVE FrozenSo'
    BY <2>21, <1>1
       DEF TestsFail, ToFix, Leaves, FrozenSo, trees, scopes, place, planning
  <2>22. ASSUME NEW j \in GJobs, Lands(j) PROVE FrozenSo'
    BY <2>22, <1>1
       DEF Lands, Leaves, FrozenSo, trees, scopes, place, planning
  <2>23. ASSUME NEW j \in GJobs, Absorbs(j) PROVE FrozenSo'
    BY <2>23, <1>1
       DEF Absorbs, Absorbed, FrozenSo, trees, scopes, place, planning
  <2>24. ASSUME NEW j \in GJobs, Conflicts(j) PROVE FrozenSo'
    BY <2>24, <1>1
       DEF Conflicts, Absorbed, Leaves, FrozenSo, trees, scopes, place, planning
  <2>25. ASSUME NEW j \in GJobs, MergedFails(j) PROVE FrozenSo'
    BY <2>25, <1>1
       DEF MergedFails, Absorbed, ToFix, Leaves, FrozenSo, trees, scopes, place, planning
  <2>26. ASSUME UNCHANGED gateVars PROVE FrozenSo'
    BY <2>26, <1>1
       DEF gateVars, FrozenSo, trees, scopes, place, planning
  <2>27. QED
    BY <1>0, <2>1, <2>2, <2>3, <2>4, <2>5, <2>6, <2>7, <2>8, <2>9, <2>10, <2>11, <2>12, <2>13, <2>14, <2>15, <2>16, <2>17, <2>18, <2>19, <2>20, <2>21, <2>22, <2>23, <2>24, <2>25, <2>26
       DEF GatesNext

LEMMA FollowedStep == TypeInv /\ ScopeInv /\ [GatesNext]_gateVars => PlanFollowed'
<1> SUFFICES ASSUME TypeInv, ScopeInv, [GatesNext]_gateVars PROVE PlanFollowed'
  OBVIOUS
<1>0. [GatesNext]_gateVars
  OBVIOUS
<1>1. /\ stage \in [GJobs -> Stages] /\ at \in [GJobs -> Steps]
      /\ \A j \in GJobs : status[j] = "running" <=> at[j] # "idle"
      /\ PlanFollowed /\ plan \in [GJobs -> MaybeFiles] /\ manifest \in [GJobs -> SUBSET Paths]
      /\ tracked \in [GJobs -> SUBSET Paths] /\ bypass \in [GJobs -> BOOLEAN]
      /\ \A j \in GJobs : at[j] \in {"ask"} \union Planning => stage[j] = "queued"
  BY DEF TypeInv, RowsOK, CountsOK, ScopesOK, ScopeInv, PlanningQueued
<1>2. QED
  <2>1. ASSUME NEW j \in GJobs, Claims(j) PROVE PlanFollowed'
    BY <2>1, <1>1, FollowsKept
       DEF Claims, PlanFollowed, trees, scopes, place, planning
  <2>2. ASSUME NEW j \in GJobs, ClaimsOn(j) PROVE PlanFollowed'
    BY <2>2, <1>1, FollowsKept
       DEF ClaimsOn, PlanFollowed, trees, scopes, place, planning
  <2>3. ASSUME NEW j \in GJobs, Dies(j) PROVE PlanFollowed'
    BY <2>3, <1>1, FollowsKept
       DEF Dies, PlanFollowed, trees, scopes, place, planning
  <2>4. ASSUME NEW j \in GJobs, NEW force \in BOOLEAN, Retries(j, force) PROVE PlanFollowed'
    BY <2>4, <1>1, FollowsKept
       DEF Retries, PlanFollowed, trees, scopes, place, planning
  <2>5. ASSUME NEW j \in GJobs, StartsPlan(j) PROVE PlanFollowed'
    BY <2>5, <1>1, FollowsKept
       DEF StartsPlan, PlanFollowed, trees, scopes, place, planning
  <2>6. ASSUME NEW j \in GJobs, AsksAgain(j) PROVE PlanFollowed'
    BY <2>6, <1>1, FollowsKept
       DEF AsksAgain, PlanFollowed, trees, scopes, place, planning
  <2>7. ASSUME NEW j \in GJobs, FailsIncomplete(j) PROVE PlanFollowed'
    BY <2>7, <1>1, FollowsKept
       DEF FailsIncomplete, Leaves, PlanFollowed, trees, scopes, place, planning
  <2>8. ASSUME NEW j \in GJobs, FailsToPlan(j) PROVE PlanFollowed'
    BY <2>8, <1>1, FollowsKept
       DEF FailsToPlan, Leaves, PlanFollowed, trees, scopes, place, planning
  <2>9. ASSUME NEW j \in GJobs, Splits(j) PROVE PlanFollowed'
    BY <2>9, <1>1, FollowsKept
       DEF Splits, Leaves, PlanFollowed, trees, scopes, place, planning
  <2>10. ASSUME NEW j \in GJobs, Parks(j) PROVE PlanFollowed'
    BY <2>10, <1>1, FollowsKept
       DEF Parks, PlanFollowed, trees, scopes, place, planning
  <2>11. ASSUME NEW j \in GJobs, FailsParked(j) PROVE PlanFollowed'
    BY <2>11, <1>1, FollowsKept
       DEF FailsParked, Leaves, PlanFollowed, trees, scopes, place, planning
  <2>12. ASSUME NEW j \in GJobs, Accepts(j) PROVE PlanFollowed'
    BY <2>12, <1>1, FollowsKept
       DEF Accepts, PlanFollowed, trees, scopes, place, planning
  <2>13. ASSUME NEW j \in GJobs, Reconciles(j) PROVE PlanFollowed'
    <3>1. stage[j] = "queued" /\ UNCHANGED <<stage, plan, bypass, tracked>>
      BY <2>13, <1>1 DEF Reconciles, Planning, planning
    <3>2. \A k \in GJobs \ {j} : manifest'[k] = manifest[k]
      BY <2>13, <1>1 DEF Reconciles
    <3>3. \A k \in GJobs \ {j} : stage[k] # "queued" => Follows(k)'
      BY <1>1, <3>1, <3>2, FollowsKept DEF PlanFollowed
    <3>4. QED
      BY <3>1, <3>3 DEF PlanFollowed
  <2>14. ASSUME NEW j \in GJobs, Freezes(j) PROVE PlanFollowed'
    <3>1. stage[j] = "queued" /\ UNCHANGED <<stage, plan, bypass, tracked>>
      BY <2>14, <1>1 DEF Freezes, Planning, planning
    <3>2. \A k \in GJobs \ {j} : manifest'[k] = manifest[k]
      BY <2>14, <1>1 DEF Freezes
    <3>3. \A k \in GJobs \ {j} : stage[k] # "queued" => Follows(k)'
      BY <1>1, <3>1, <3>2, FollowsKept DEF PlanFollowed
    <3>4. QED
      BY <3>1, <3>3 DEF PlanFollowed
  <2>15. ASSUME NEW j \in GJobs, SavesPlan(j) PROVE PlanFollowed'
    <3>1. Fit(j) /\ manifest[j] = ManifestOf(answer[j])
      BY <2>15 DEF SavesPlan, ScopeInv, AcceptedFits, FrozenSo
    <3>2. plan'[j] = ManifestOf(answer[j]) /\ UNCHANGED <<manifest, bypass, tracked>>
      BY <2>15, <1>1 DEF SavesPlan
    <3>3. Follows(j)'
      BY <3>1, <3>2, FitFollowed DEF Follows, Mandatory, Fenced
    <3>4. \A k \in GJobs \ {j} : stage'[k] = stage[k] /\ plan'[k] = plan[k]
      BY <2>15, <1>1 DEF SavesPlan, Leaves
    <3>5. \A k \in GJobs \ {j} : stage'[k] # "queued" => Follows(k)'
      BY <1>1, <3>2, <3>4, FollowsKept DEF PlanFollowed
    <3>6. QED
      BY <3>3, <3>5 DEF PlanFollowed
  <2>16. ASSUME NEW j \in GJobs, Branches(j) PROVE PlanFollowed'
    BY <2>16, <1>1, FollowsKept
       DEF Branches, PlanFollowed, trees, scopes, place, planning
  <2>17. ASSUME NEW j \in GJobs, Works(j) PROVE PlanFollowed'
    BY <2>17, <1>1, FollowsKept
       DEF Works, Leaves, PlanFollowed, trees, scopes, place, planning
  <2>18. ASSUME NEW j \in GJobs, AgentFails(j) PROVE PlanFollowed'
    BY <2>18, <1>1, FollowsKept
       DEF AgentFails, Leaves, PlanFollowed, trees, scopes, place, planning
  <2>19. ASSUME NEW j \in GJobs, Passes(j) PROVE PlanFollowed'
    BY <2>19, <1>1, FollowsKept
       DEF Passes, Leaves, PlanFollowed, trees, scopes, place, planning
  <2>20. ASSUME NEW j \in GJobs, Rejects(j) PROVE PlanFollowed'
    BY <2>20, <1>1, FollowsKept
       DEF Rejects, ToFix, Leaves, PlanFollowed, trees, scopes, place, planning
  <2>21. ASSUME NEW j \in GJobs, TestsFail(j) PROVE PlanFollowed'
    BY <2>21, <1>1, FollowsKept
       DEF TestsFail, ToFix, Leaves, PlanFollowed, trees, scopes, place, planning
  <2>22. ASSUME NEW j \in GJobs, Lands(j) PROVE PlanFollowed'
    BY <2>22, <1>1, FollowsKept
       DEF Lands, Leaves, PlanFollowed, trees, scopes, place, planning
  <2>23. ASSUME NEW j \in GJobs, Absorbs(j) PROVE PlanFollowed'
    BY <2>23, <1>1, FollowsKept
       DEF Absorbs, Absorbed, PlanFollowed, trees, scopes, place, planning
  <2>24. ASSUME NEW j \in GJobs, Conflicts(j) PROVE PlanFollowed'
    BY <2>24, <1>1, FollowsKept
       DEF Conflicts, Absorbed, Leaves, PlanFollowed, trees, scopes, place, planning
  <2>25. ASSUME NEW j \in GJobs, MergedFails(j) PROVE PlanFollowed'
    BY <2>25, <1>1, FollowsKept
       DEF MergedFails, Absorbed, ToFix, Leaves, PlanFollowed, trees, scopes, place, planning
  <2>26. ASSUME UNCHANGED gateVars PROVE PlanFollowed'
    BY <2>26, <1>1, FollowsKept
       DEF gateVars, PlanFollowed, trees, scopes, place, planning
  <2>27. QED
    BY <1>0, <2>1, <2>2, <2>3, <2>4, <2>5, <2>6, <2>7, <2>8, <2>9, <2>10, <2>11, <2>12, <2>13, <2>14, <2>15, <2>16, <2>17, <2>18, <2>19, <2>20, <2>21, <2>22, <2>23, <2>24, <2>25, <2>26
       DEF GatesNext

LEMMA ScopeStep == TypeInv /\ ScopeInv /\ [GatesNext]_gateVars => ScopeInv'
  BY QueuedStep, FitsStep, FrozenStep, FollowedStep DEF ScopeInv

\* Once a job has its plan its manifest is the files of that plan, whatever crashed,
\* was asked again or retried between the saves of PLAN, and they passed the gates.
THEOREM ScopesFollow == GatesSpec => []ScopeFollowsPlan
<1>1. GatesInit => TypeInv /\ ScopeInv
  BY TypeInit, ScopeInit
<1>2. TypeInv /\ ScopeInv /\ [GatesNext]_gateVars => (TypeInv /\ ScopeInv)'
  BY TypeStep, ScopeStep
<1>3. ScopeInv => ScopeFollowsPlan
  BY DEF ScopeInv, PlanFollowed, Follows, ScopeFollowsPlan
<1>4. QED
  BY <1>1, <1>2, <1>3, PTL DEF GatesSpec

-----------------------------------------------------------------------------
(* Agents that do not share files *)

LEMMA ApartInit == GatesInit => AgentsApart
  BY DEF GatesInit, AgentsApart

LEMMA ApartStep == TypeInv /\ ScopeInv /\ AgentsApart /\ [GatesNext]_gateVars => AgentsApart'
<1> SUFFICES ASSUME TypeInv, ScopeInv /\ AgentsApart, [GatesNext]_gateVars PROVE AgentsApart'
  OBVIOUS
<1>0. [GatesNext]_gateVars
  OBVIOUS
<1>1. /\ stage \in [GJobs -> Stages] /\ at \in [GJobs -> Steps]
      /\ \A j \in GJobs : status[j] = "running" <=> at[j] # "idle"
      /\ AgentsApart /\ status \in [GJobs -> {"pending", "running", "done", "failed", "cancelled"}]
      /\ manifest \in [GJobs -> SUBSET Paths]
      /\ \A j \in GJobs : at[j] \in {"reconcile", "freeze"} => stage[j] = "queued"
  BY DEF TypeInv, RowsOK, ScopesOK, ScopeInv, PlanningQueued, Planning
<1>2. QED
  <2>1. ASSUME NEW j \in GJobs, Claims(j) PROVE AgentsApart'
    BY <2>1, <1>1
       DEF Claims, Collides, AgentsApart, Agentic, trees, scopes, place, planning
  <2>2. ASSUME NEW j \in GJobs, ClaimsOn(j) PROVE AgentsApart'
    BY <2>2, <1>1
       DEF ClaimsOn, AgentsApart, Agentic, trees, scopes, place, planning
  <2>3. ASSUME NEW j \in GJobs, Dies(j) PROVE AgentsApart'
    BY <2>3, <1>1
       DEF Dies, AgentsApart, Agentic, trees, scopes, place, planning
  <2>4. ASSUME NEW j \in GJobs, NEW force \in BOOLEAN, Retries(j, force) PROVE AgentsApart'
    BY <2>4, <1>1
       DEF Retries, AgentsApart, Agentic, trees, scopes, place, planning
  <2>5. ASSUME NEW j \in GJobs, StartsPlan(j) PROVE AgentsApart'
    BY <2>5, <1>1
       DEF StartsPlan, AgentsApart, Agentic, trees, scopes, place, planning
  <2>6. ASSUME NEW j \in GJobs, AsksAgain(j) PROVE AgentsApart'
    BY <2>6, <1>1
       DEF AsksAgain, AgentsApart, Agentic, trees, scopes, place, planning
  <2>7. ASSUME NEW j \in GJobs, FailsIncomplete(j) PROVE AgentsApart'
    BY <2>7, <1>1
       DEF FailsIncomplete, Leaves, AgentsApart, Agentic, trees, scopes, place, planning
  <2>8. ASSUME NEW j \in GJobs, FailsToPlan(j) PROVE AgentsApart'
    BY <2>8, <1>1
       DEF FailsToPlan, Leaves, AgentsApart, Agentic, trees, scopes, place, planning
  <2>9. ASSUME NEW j \in GJobs, Splits(j) PROVE AgentsApart'
    BY <2>9, <1>1
       DEF Splits, Leaves, AgentsApart, Agentic, trees, scopes, place, planning
  <2>10. ASSUME NEW j \in GJobs, Parks(j) PROVE AgentsApart'
    BY <2>10, <1>1
       DEF Parks, AgentsApart, Agentic, trees, scopes, place, planning
  <2>11. ASSUME NEW j \in GJobs, FailsParked(j) PROVE AgentsApart'
    BY <2>11, <1>1
       DEF FailsParked, Leaves, AgentsApart, Agentic, trees, scopes, place, planning
  <2>12. ASSUME NEW j \in GJobs, Accepts(j) PROVE AgentsApart'
    BY <2>12, <1>1
       DEF Accepts, AgentsApart, Agentic, trees, scopes, place, planning
  <2>13. ASSUME NEW j \in GJobs, Reconciles(j) PROVE AgentsApart'
    BY <2>13, <1>1
       DEF Reconciles, AgentsApart, Agentic, trees, scopes, place, planning
  <2>14. ASSUME NEW j \in GJobs, Freezes(j) PROVE AgentsApart'
    BY <2>14, <1>1
       DEF Freezes, AgentsApart, Agentic, trees, scopes, place, planning
  <2>15. ASSUME NEW j \in GJobs, SavesPlan(j) PROVE AgentsApart'
    BY <2>15, <1>1
       DEF SavesPlan, Leaves, AgentsApart, Agentic, trees, scopes, place, planning
  <2>16. ASSUME NEW j \in GJobs, Branches(j) PROVE AgentsApart'
    BY <2>16, <1>1
       DEF Branches, AgentsApart, Agentic, trees, scopes, place, planning
  <2>17. ASSUME NEW j \in GJobs, Works(j) PROVE AgentsApart'
    BY <2>17, <1>1
       DEF Works, Leaves, AgentsApart, Agentic, trees, scopes, place, planning
  <2>18. ASSUME NEW j \in GJobs, AgentFails(j) PROVE AgentsApart'
    BY <2>18, <1>1
       DEF AgentFails, Leaves, AgentsApart, Agentic, trees, scopes, place, planning
  <2>19. ASSUME NEW j \in GJobs, Passes(j) PROVE AgentsApart'
    BY <2>19, <1>1
       DEF Passes, Leaves, AgentsApart, Agentic, trees, scopes, place, planning
  <2>20. ASSUME NEW j \in GJobs, Rejects(j) PROVE AgentsApart'
    BY <2>20, <1>1
       DEF Rejects, ToFix, Leaves, AgentsApart, Agentic, trees, scopes, place, planning
  <2>21. ASSUME NEW j \in GJobs, TestsFail(j) PROVE AgentsApart'
    BY <2>21, <1>1
       DEF TestsFail, ToFix, Leaves, AgentsApart, Agentic, trees, scopes, place, planning
  <2>22. ASSUME NEW j \in GJobs, Lands(j) PROVE AgentsApart'
    BY <2>22, <1>1
       DEF Lands, Leaves, AgentsApart, Agentic, trees, scopes, place, planning
  <2>23. ASSUME NEW j \in GJobs, Absorbs(j) PROVE AgentsApart'
    BY <2>23, <1>1
       DEF Absorbs, Absorbed, AgentsApart, Agentic, trees, scopes, place, planning
  <2>24. ASSUME NEW j \in GJobs, Conflicts(j) PROVE AgentsApart'
    BY <2>24, <1>1
       DEF Conflicts, Absorbed, Leaves, AgentsApart, Agentic, trees, scopes, place, planning
  <2>25. ASSUME NEW j \in GJobs, MergedFails(j) PROVE AgentsApart'
    BY <2>25, <1>1
       DEF MergedFails, Absorbed, ToFix, Leaves, AgentsApart, Agentic, trees, scopes, place, planning
  <2>26. ASSUME UNCHANGED gateVars PROVE AgentsApart'
    BY <2>26, <1>1
       DEF gateVars, AgentsApart, Agentic, trees, scopes, place, planning
  <2>27. QED
    BY <1>0, <2>1, <2>2, <2>3, <2>4, <2>5, <2>6, <2>7, <2>8, <2>9, <2>10, <2>11, <2>12, <2>13, <2>14, <2>15, <2>16, <2>17, <2>18, <2>19, <2>20, <2>21, <2>22, <2>23, <2>24, <2>25, <2>26
       DEF GatesNext

\* Two agents that change files never share one, although the workers that go on with a
\* job do not look at what is running.
THEOREM AgentsKeptApart == GatesSpec => []AgentsApart
<1>1. GatesInit => TypeInv /\ ScopeInv /\ AgentsApart
  BY TypeInit, ScopeInit, ApartInit
<1>2. TypeInv /\ ScopeInv /\ AgentsApart /\ [GatesNext]_gateVars => (TypeInv /\ ScopeInv /\ AgentsApart)'
  BY TypeStep, ScopeStep, ApartStep
<1>3. QED
  BY <1>1, <1>2, PTL DEF GatesSpec

-----------------------------------------------------------------------------
(* What the gates achieve *)

\* A tree that its gate has found good, in comparison with the base it stems from.
Judged(f, w) ==
    /\ \A s \in Symbols, m, n \in Modules : Repeats(w.defs, s, m, n) => {<<m, s>>, <<n, s>>} \subseteq f.defs
    /\ w.revs = f.revs \/ Cardinality(Heads(w.revs)) <= 1

\* What a conflict's agent leaves has not been judged; what has landed stays.
PlacesOK ==
    /\ \A j \in GJobs : stage[j] = "conflict" => j \in loose
    /\ \A j \in GJobs : stage[j] = "done" => status[j] = "done"

TestedJudged == \A j \in GJobs : stage[j] = "tested" /\ j \notin loose => Judged(fork[j], work[j])

GateInv == PlacesOK /\ TestedJudged /\ GateHolds

LEMMA HeadsFinite == \A revs \in SUBSET Revs : Cardinality(Heads(revs)) \in Nat
<1> SUFFICES ASSUME NEW revs \in SUBSET Revs PROVE Cardinality(Heads(revs)) \in Nat
  OBVIOUS
<1>1. IsFiniteSet(Ids)
  BY FS_AddElement, GatesAssumption DEF Ids
<1>2. Heads(revs) \subseteq Ids
  BY DEF Heads, Revs
<1>3. QED
  BY <1>1, <1>2, FS_Subset, FS_CardinalityType

LEMMA GateInit == GatesInit => GateInv
<1> SUFFICES ASSUME GatesInit PROVE GateInv
  OBVIOUS
<1>1. base.defs = Defs0 /\ base.revs = {[id |-> Root, down |-> {}]}
  BY DEF GatesInit, Tree0
<1>2. Heads(base.revs) = {Root}
  BY <1>1 DEF Heads
<1>3. Cardinality(Heads(base.revs)) = 1
  BY <1>2, FS_Singleton
<1>4. GateHolds
  BY <1>1, <1>3 DEF GateHolds, Repeats
<1>5. QED
  BY <1>4 DEF GatesInit, GateInv, PlacesOK, TestedJudged

\* The two gates together, when they speak of the branch.
LEMMA GatesJudge ==
    ASSUME NEW f \in Tree, NEW w \in Tree, index \subseteq f.defs,
           SymbolCollisions(w, Changed(f, w)) = {}, ~HeadCollisions(w, Changed(f, w))
    PROVE  Judged(f, w)
<1>1. ASSUME NEW s \in Symbols, NEW m \in Modules, NEW n \in Modules, Repeats(w.defs, s, m, n)
      PROVE  <<m, s>> \in f.defs
  <2> SUFFICES ASSUME <<m, s>> \notin f.defs PROVE FALSE
    OBVIOUS
  <2>1. <<m, s>> \in w.defs
    BY <1>1 DEF Repeats
  <2>2. m \in Changed(f, w) /\ <<m, s>> \notin index
    BY <2>1 DEF Changed
  <2>3. s \in SymbolCollisions(w, Changed(f, w))
    BY <1>1, <2>2 DEF SymbolCollisions
  <2>4. QED
    BY <2>3
<1>2. ASSUME NEW s \in Symbols, NEW m \in Modules, NEW n \in Modules, Repeats(w.defs, s, m, n)
      PROVE  {<<m, s>>, <<n, s>>} \subseteq f.defs
  <2>1. Repeats(w.defs, s, n, m)
    BY <1>2 DEF Repeats
  <2>2. QED
    BY <1>1, <1>2, <2>1
<1>3. w.revs = f.revs \/ Cardinality(Heads(w.revs)) <= 1
  <2> SUFFICES ASSUME w.revs # f.revs PROVE Cardinality(Heads(w.revs)) <= 1
    OBVIOUS
  <2>1. Versions \in Changed(f, w)
    BY DEF Changed
  <2>2. Cardinality(Heads(w.revs)) \in Nat
    BY HeadsFinite DEF Tree
  <2>3. QED
    BY <2>1, <2>2 DEF HeadCollisions
<1>4. QED
  BY <1>2, <1>3 DEF Judged

LEMMA PlacesStep == TypeInv /\ GateInv /\ [GatesNext]_gateVars => PlacesOK'
<1> SUFFICES ASSUME TypeInv, GateInv, [GatesNext]_gateVars PROVE PlacesOK'
  OBVIOUS
<1>0. [GatesNext]_gateVars
  OBVIOUS
<1>1. /\ stage \in [GJobs -> Stages] /\ at \in [GJobs -> Steps]
      /\ \A j \in GJobs : status[j] = "running" <=> at[j] # "idle"
      /\ PlacesOK /\ status \in [GJobs -> {"pending", "running", "done", "failed", "cancelled"}]
  BY DEF TypeInv, RowsOK, GateInv
<1>2. QED
  <2>1. ASSUME NEW j \in GJobs, Claims(j) PROVE PlacesOK'
    BY <2>1, <1>1
       DEF Claims, PlacesOK, trees, scopes, place, planning
  <2>2. ASSUME NEW j \in GJobs, ClaimsOn(j) PROVE PlacesOK'
    BY <2>2, <1>1
       DEF ClaimsOn, PlacesOK, trees, scopes, place, planning
  <2>3. ASSUME NEW j \in GJobs, Dies(j) PROVE PlacesOK'
    BY <2>3, <1>1
       DEF Dies, PlacesOK, trees, scopes, place, planning
  <2>4. ASSUME NEW j \in GJobs, NEW force \in BOOLEAN, Retries(j, force) PROVE PlacesOK'
    BY <2>4, <1>1
       DEF Retries, PlacesOK, trees, scopes, place, planning
  <2>5. ASSUME NEW j \in GJobs, StartsPlan(j) PROVE PlacesOK'
    BY <2>5, <1>1
       DEF StartsPlan, PlacesOK, trees, scopes, place, planning
  <2>6. ASSUME NEW j \in GJobs, AsksAgain(j) PROVE PlacesOK'
    BY <2>6, <1>1
       DEF AsksAgain, PlacesOK, trees, scopes, place, planning
  <2>7. ASSUME NEW j \in GJobs, FailsIncomplete(j) PROVE PlacesOK'
    BY <2>7, <1>1
       DEF FailsIncomplete, Leaves, PlacesOK, trees, scopes, place, planning
  <2>8. ASSUME NEW j \in GJobs, FailsToPlan(j) PROVE PlacesOK'
    BY <2>8, <1>1
       DEF FailsToPlan, Leaves, PlacesOK, trees, scopes, place, planning
  <2>9. ASSUME NEW j \in GJobs, Splits(j) PROVE PlacesOK'
    BY <2>9, <1>1
       DEF Splits, Leaves, PlacesOK, trees, scopes, place, planning
  <2>10. ASSUME NEW j \in GJobs, Parks(j) PROVE PlacesOK'
    BY <2>10, <1>1
       DEF Parks, PlacesOK, trees, scopes, place, planning
  <2>11. ASSUME NEW j \in GJobs, FailsParked(j) PROVE PlacesOK'
    BY <2>11, <1>1
       DEF FailsParked, Leaves, PlacesOK, trees, scopes, place, planning
  <2>12. ASSUME NEW j \in GJobs, Accepts(j) PROVE PlacesOK'
    BY <2>12, <1>1
       DEF Accepts, PlacesOK, trees, scopes, place, planning
  <2>13. ASSUME NEW j \in GJobs, Reconciles(j) PROVE PlacesOK'
    BY <2>13, <1>1
       DEF Reconciles, PlacesOK, trees, scopes, place, planning
  <2>14. ASSUME NEW j \in GJobs, Freezes(j) PROVE PlacesOK'
    BY <2>14, <1>1
       DEF Freezes, PlacesOK, trees, scopes, place, planning
  <2>15. ASSUME NEW j \in GJobs, SavesPlan(j) PROVE PlacesOK'
    BY <2>15, <1>1
       DEF SavesPlan, Leaves, PlacesOK, trees, scopes, place, planning
  <2>16. ASSUME NEW j \in GJobs, Branches(j) PROVE PlacesOK'
    BY <2>16, <1>1
       DEF Branches, PlacesOK, trees, scopes, place, planning
  <2>17. ASSUME NEW j \in GJobs, Works(j) PROVE PlacesOK'
    BY <2>17, <1>1
       DEF Works, Leaves, PlacesOK, trees, scopes, place, planning
  <2>18. ASSUME NEW j \in GJobs, AgentFails(j) PROVE PlacesOK'
    BY <2>18, <1>1
       DEF AgentFails, Leaves, PlacesOK, trees, scopes, place, planning
  <2>19. ASSUME NEW j \in GJobs, Passes(j) PROVE PlacesOK'
    BY <2>19, <1>1
       DEF Passes, Leaves, PlacesOK, trees, scopes, place, planning
  <2>20. ASSUME NEW j \in GJobs, Rejects(j) PROVE PlacesOK'
    BY <2>20, <1>1
       DEF Rejects, ToFix, Leaves, PlacesOK, trees, scopes, place, planning
  <2>21. ASSUME NEW j \in GJobs, TestsFail(j) PROVE PlacesOK'
    BY <2>21, <1>1
       DEF TestsFail, ToFix, Leaves, PlacesOK, trees, scopes, place, planning
  <2>22. ASSUME NEW j \in GJobs, Lands(j) PROVE PlacesOK'
    BY <2>22, <1>1
       DEF Lands, Leaves, PlacesOK, trees, scopes, place, planning
  <2>23. ASSUME NEW j \in GJobs, Absorbs(j) PROVE PlacesOK'
    BY <2>23, <1>1
       DEF Absorbs, Absorbed, PlacesOK, trees, scopes, place, planning
  <2>24. ASSUME NEW j \in GJobs, Conflicts(j) PROVE PlacesOK'
    BY <2>24, <1>1
       DEF Conflicts, Absorbed, Leaves, PlacesOK, trees, scopes, place, planning
  <2>25. ASSUME NEW j \in GJobs, MergedFails(j) PROVE PlacesOK'
    BY <2>25, <1>1
       DEF MergedFails, Absorbed, ToFix, Leaves, PlacesOK, trees, scopes, place, planning
  <2>26. ASSUME UNCHANGED gateVars PROVE PlacesOK'
    BY <2>26, <1>1
       DEF gateVars, PlacesOK, trees, scopes, place, planning
  <2>27. QED
    BY <1>0, <2>1, <2>2, <2>3, <2>4, <2>5, <2>6, <2>7, <2>8, <2>9, <2>10, <2>11, <2>12, <2>13, <2>14, <2>15, <2>16, <2>17, <2>18, <2>19, <2>20, <2>21, <2>22, <2>23, <2>24, <2>25, <2>26
       DEF GatesNext

LEMMA JudgedStep == TypeInv /\ GateInv /\ [GatesNext]_gateVars => TestedJudged'
<1> SUFFICES ASSUME TypeInv, GateInv, [GatesNext]_gateVars PROVE TestedJudged'
  OBVIOUS
<1>0. [GatesNext]_gateVars
  OBVIOUS
<1>1. /\ stage \in [GJobs -> Stages] /\ at \in [GJobs -> Steps]
      /\ \A j \in GJobs : status[j] = "running" <=> at[j] # "idle"
      /\ TestedJudged /\ fork \in [GJobs -> Tree] /\ work \in [GJobs -> Tree] /\ loose \subseteq GJobs
      /\ \A j \in GJobs : stage[j] = "conflict" => j \in loose
  BY DEF TypeInv, RowsOK, TreesOK, CountsOK, GateInv, PlacesOK
<1>2. QED
  <2>1. ASSUME NEW j \in GJobs, Claims(j) PROVE TestedJudged'
    BY <2>1, <1>1
       DEF Claims, TestedJudged, trees, scopes, place, planning
  <2>2. ASSUME NEW j \in GJobs, ClaimsOn(j) PROVE TestedJudged'
    BY <2>2, <1>1
       DEF ClaimsOn, TestedJudged, trees, scopes, place, planning
  <2>3. ASSUME NEW j \in GJobs, Dies(j) PROVE TestedJudged'
    BY <2>3, <1>1
       DEF Dies, TestedJudged, trees, scopes, place, planning
  <2>4. ASSUME NEW j \in GJobs, NEW force \in BOOLEAN, Retries(j, force) PROVE TestedJudged'
    BY <2>4, <1>1
       DEF Retries, TestedJudged, trees, scopes, place, planning
  <2>5. ASSUME NEW j \in GJobs, StartsPlan(j) PROVE TestedJudged'
    BY <2>5, <1>1
       DEF StartsPlan, TestedJudged, trees, scopes, place, planning
  <2>6. ASSUME NEW j \in GJobs, AsksAgain(j) PROVE TestedJudged'
    BY <2>6, <1>1
       DEF AsksAgain, TestedJudged, trees, scopes, place, planning
  <2>7. ASSUME NEW j \in GJobs, FailsIncomplete(j) PROVE TestedJudged'
    BY <2>7, <1>1
       DEF FailsIncomplete, Leaves, TestedJudged, trees, scopes, place, planning
  <2>8. ASSUME NEW j \in GJobs, FailsToPlan(j) PROVE TestedJudged'
    BY <2>8, <1>1
       DEF FailsToPlan, Leaves, TestedJudged, trees, scopes, place, planning
  <2>9. ASSUME NEW j \in GJobs, Splits(j) PROVE TestedJudged'
    BY <2>9, <1>1
       DEF Splits, Leaves, TestedJudged, trees, scopes, place, planning
  <2>10. ASSUME NEW j \in GJobs, Parks(j) PROVE TestedJudged'
    BY <2>10, <1>1
       DEF Parks, TestedJudged, trees, scopes, place, planning
  <2>11. ASSUME NEW j \in GJobs, FailsParked(j) PROVE TestedJudged'
    BY <2>11, <1>1
       DEF FailsParked, Leaves, TestedJudged, trees, scopes, place, planning
  <2>12. ASSUME NEW j \in GJobs, Accepts(j) PROVE TestedJudged'
    BY <2>12, <1>1
       DEF Accepts, TestedJudged, trees, scopes, place, planning
  <2>13. ASSUME NEW j \in GJobs, Reconciles(j) PROVE TestedJudged'
    BY <2>13, <1>1
       DEF Reconciles, TestedJudged, trees, scopes, place, planning
  <2>14. ASSUME NEW j \in GJobs, Freezes(j) PROVE TestedJudged'
    BY <2>14, <1>1
       DEF Freezes, TestedJudged, trees, scopes, place, planning
  <2>15. ASSUME NEW j \in GJobs, SavesPlan(j) PROVE TestedJudged'
    BY <2>15, <1>1
       DEF SavesPlan, Leaves, TestedJudged, trees, scopes, place, planning
  <2>16. ASSUME NEW j \in GJobs, Branches(j) PROVE TestedJudged'
    BY <2>16, <1>1
       DEF Branches, TestedJudged, trees, scopes, place, planning
  <2>17. ASSUME NEW j \in GJobs, Works(j) PROVE TestedJudged'
    BY <2>17, <1>1
       DEF Works, Leaves, TestedJudged, trees, scopes, place, planning
  <2>18. ASSUME NEW j \in GJobs, AgentFails(j) PROVE TestedJudged'
    BY <2>18, <1>1
       DEF AgentFails, Leaves, TestedJudged, trees, scopes, place, planning
  <2>19. ASSUME NEW j \in GJobs, Passes(j) PROVE TestedJudged'
    <3>1. PICK files \in {Changed(fork[j], work[j]), {}} :
             /\ SymbolCollisions(work[j], files) = {} /\ ~HeadCollisions(work[j], files)
             /\ loose' = IF Speaks(j, files) THEN loose \ {j} ELSE loose \union {j}
      BY <2>19 DEF Passes
    <3>2. UNCHANGED <<fork, work>> /\ \A k \in GJobs \ {j} : stage'[k] = stage[k]
      BY <2>19, <1>1 DEF Passes, Leaves
    <3>3. \A k \in GJobs \ {j} : k \in loose' <=> k \in loose
      BY <3>1
    <3>4. j \notin loose' => Judged(fork[j], work[j])
      <4> SUFFICES ASSUME j \notin loose' PROVE Judged(fork[j], work[j])
        OBVIOUS
      <4>1. Speaks(j, files)
        BY <3>1
      <4>2. QED
        BY <1>1, <3>1, <4>1, GatesJudge DEF Speaks
    <3>5. \A k \in GJobs : stage'[k] = "tested" /\ k \notin loose' => Judged(fork[k], work[k])
      BY <1>1, <3>2, <3>3, <3>4 DEF TestedJudged
    <3>6. QED
      BY <3>2, <3>5 DEF TestedJudged
  <2>20. ASSUME NEW j \in GJobs, Rejects(j) PROVE TestedJudged'
    BY <2>20, <1>1
       DEF Rejects, ToFix, Leaves, TestedJudged, trees, scopes, place, planning
  <2>21. ASSUME NEW j \in GJobs, TestsFail(j) PROVE TestedJudged'
    BY <2>21, <1>1
       DEF TestsFail, ToFix, Leaves, TestedJudged, trees, scopes, place, planning
  <2>22. ASSUME NEW j \in GJobs, Lands(j) PROVE TestedJudged'
    BY <2>22, <1>1
       DEF Lands, Leaves, TestedJudged, trees, scopes, place, planning
  <2>23. ASSUME NEW j \in GJobs, Absorbs(j) PROVE TestedJudged'
    BY <2>23, <1>1
       DEF Absorbs, Absorbed, TestedJudged, trees, scopes, place, planning
  <2>24. ASSUME NEW j \in GJobs, Conflicts(j) PROVE TestedJudged'
    BY <2>24, <1>1
       DEF Conflicts, Absorbed, Leaves, TestedJudged, trees, scopes, place, planning
  <2>25. ASSUME NEW j \in GJobs, MergedFails(j) PROVE TestedJudged'
    BY <2>25, <1>1
       DEF MergedFails, Absorbed, ToFix, Leaves, TestedJudged, trees, scopes, place, planning
  <2>26. ASSUME UNCHANGED gateVars PROVE TestedJudged'
    BY <2>26, <1>1
       DEF gateVars, TestedJudged, trees, scopes, place, planning
  <2>27. QED
    BY <1>0, <2>1, <2>2, <2>3, <2>4, <2>5, <2>6, <2>7, <2>8, <2>9, <2>10, <2>11, <2>12, <2>13, <2>14, <2>15, <2>16, <2>17, <2>18, <2>19, <2>20, <2>21, <2>22, <2>23, <2>24, <2>25, <2>26
       DEF GatesNext

\* What has landed was not touched, so the base is as good as it was.
LEMMA BaseKept ==
    ASSUME GateHolds, UNCHANGED base, \A k \in Landed : k \in Landed' /\ (k \in loose => k \in loose')
    PROVE  GateHolds'
  BY DEF GateHolds, Repeats, Heads

LEMMA HoldsStep == TypeInv /\ GateInv /\ [GatesNext]_gateVars => GateHolds'
<1> SUFFICES ASSUME TypeInv, GateInv, [GatesNext]_gateVars PROVE GateHolds'
  OBVIOUS
<1>0. [GatesNext]_gateVars
  OBVIOUS
<1>1. /\ stage \in [GJobs -> Stages] /\ at \in [GJobs -> Steps]
      /\ \A j \in GJobs : status[j] = "running" <=> at[j] # "idle"
      /\ GateHolds /\ loose \subseteq GJobs
      /\ \A j \in GJobs : stage[j] = "done" => status[j] = "done"
  BY DEF TypeInv, RowsOK, CountsOK, GateInv, PlacesOK
<1>2. QED
  <2>1. ASSUME NEW j \in GJobs, Claims(j) PROVE GateHolds'
    BY <2>1, <1>1, BaseKept
       DEF Claims, Landed, trees, scopes, place, planning
  <2>2. ASSUME NEW j \in GJobs, ClaimsOn(j) PROVE GateHolds'
    BY <2>2, <1>1, BaseKept
       DEF ClaimsOn, Landed, trees, scopes, place, planning
  <2>3. ASSUME NEW j \in GJobs, Dies(j) PROVE GateHolds'
    BY <2>3, <1>1, BaseKept
       DEF Dies, Landed, trees, scopes, place, planning
  <2>4. ASSUME NEW j \in GJobs, NEW force \in BOOLEAN, Retries(j, force) PROVE GateHolds'
    BY <2>4, <1>1, BaseKept
       DEF Retries, Landed, trees, scopes, place, planning
  <2>5. ASSUME NEW j \in GJobs, StartsPlan(j) PROVE GateHolds'
    BY <2>5, <1>1, BaseKept
       DEF StartsPlan, Landed, trees, scopes, place, planning
  <2>6. ASSUME NEW j \in GJobs, AsksAgain(j) PROVE GateHolds'
    BY <2>6, <1>1, BaseKept
       DEF AsksAgain, Landed, trees, scopes, place, planning
  <2>7. ASSUME NEW j \in GJobs, FailsIncomplete(j) PROVE GateHolds'
    BY <2>7, <1>1, BaseKept
       DEF FailsIncomplete, Leaves, Landed, trees, scopes, place, planning
  <2>8. ASSUME NEW j \in GJobs, FailsToPlan(j) PROVE GateHolds'
    BY <2>8, <1>1, BaseKept
       DEF FailsToPlan, Leaves, Landed, trees, scopes, place, planning
  <2>9. ASSUME NEW j \in GJobs, Splits(j) PROVE GateHolds'
    BY <2>9, <1>1, BaseKept
       DEF Splits, Leaves, Landed, trees, scopes, place, planning
  <2>10. ASSUME NEW j \in GJobs, Parks(j) PROVE GateHolds'
    BY <2>10, <1>1, BaseKept
       DEF Parks, Landed, trees, scopes, place, planning
  <2>11. ASSUME NEW j \in GJobs, FailsParked(j) PROVE GateHolds'
    BY <2>11, <1>1, BaseKept
       DEF FailsParked, Leaves, Landed, trees, scopes, place, planning
  <2>12. ASSUME NEW j \in GJobs, Accepts(j) PROVE GateHolds'
    BY <2>12, <1>1, BaseKept
       DEF Accepts, Landed, trees, scopes, place, planning
  <2>13. ASSUME NEW j \in GJobs, Reconciles(j) PROVE GateHolds'
    BY <2>13, <1>1, BaseKept
       DEF Reconciles, Landed, trees, scopes, place, planning
  <2>14. ASSUME NEW j \in GJobs, Freezes(j) PROVE GateHolds'
    BY <2>14, <1>1, BaseKept
       DEF Freezes, Landed, trees, scopes, place, planning
  <2>15. ASSUME NEW j \in GJobs, SavesPlan(j) PROVE GateHolds'
    BY <2>15, <1>1, BaseKept
       DEF SavesPlan, Leaves, Landed, trees, scopes, place, planning
  <2>16. ASSUME NEW j \in GJobs, Branches(j) PROVE GateHolds'
    BY <2>16, <1>1, BaseKept
       DEF Branches, Landed, trees, scopes, place, planning
  <2>17. ASSUME NEW j \in GJobs, Works(j) PROVE GateHolds'
    BY <2>17, <1>1, BaseKept
       DEF Works, Leaves, Landed, trees, scopes, place, planning
  <2>18. ASSUME NEW j \in GJobs, AgentFails(j) PROVE GateHolds'
    BY <2>18, <1>1, BaseKept
       DEF AgentFails, Leaves, Landed, trees, scopes, place, planning
  <2>19. ASSUME NEW j \in GJobs, Passes(j) PROVE GateHolds'
    BY <2>19, <1>1, BaseKept
       DEF Passes, Leaves, Landed, trees, scopes, place, planning
  <2>20. ASSUME NEW j \in GJobs, Rejects(j) PROVE GateHolds'
    BY <2>20, <1>1, BaseKept
       DEF Rejects, ToFix, Leaves, Landed, trees, scopes, place, planning
  <2>21. ASSUME NEW j \in GJobs, TestsFail(j) PROVE GateHolds'
    BY <2>21, <1>1, BaseKept
       DEF TestsFail, ToFix, Leaves, Landed, trees, scopes, place, planning
  <2>22. ASSUME NEW j \in GJobs, Lands(j) PROVE GateHolds'
    <3>1. /\ base' = work[j] /\ fork[j] = base /\ stage[j] = "tested" /\ loose' = loose
          /\ stage' = [stage EXCEPT ![j] = "done"]
      BY <2>22 DEF Lands, Leaves
    <3>2. Landed' = Landed \union {j} /\ j \in GJobs
      BY <1>1, <3>1 DEF Landed
    <3>3. CASE j \in loose
      BY <3>1, <3>2, <3>3 DEF GateHolds
    <3>4. CASE Landed \intersect loose # {}
      BY <3>1, <3>2, <3>4 DEF GateHolds
    <3>5. CASE j \notin loose /\ Landed \intersect loose = {}
      <4>1. Judged(base, work[j])
        BY <3>1, <3>5 DEF GateInv, TestedJudged
      <4>2. /\ Cardinality(Heads(base.revs)) <= 1
            /\ \A s \in Symbols, m, n \in Modules :
                  Repeats(base.defs, s, m, n) => {<<m, s>>, <<n, s>>} \subseteq Defs0
        BY <1>1, <3>5 DEF GateHolds
      <4>3. Cardinality(Heads(work[j].revs)) <= 1
        BY <4>1, <4>2 DEF Judged
      <4>4. ASSUME NEW s \in Symbols, NEW m \in Modules, NEW n \in Modules, Repeats(work[j].defs, s, m, n)
            PROVE  {<<m, s>>, <<n, s>>} \subseteq Defs0
        <5>1. {<<m, s>>, <<n, s>>} \subseteq base.defs
          BY <4>1, <4>4 DEF Judged
        <5>2. Repeats(base.defs, s, m, n)
          BY <4>4, <5>1 DEF Repeats
        <5>3. QED
          BY <4>2, <5>2
      <4>5. QED
        BY <3>1, <4>3, <4>4 DEF GateHolds, Repeats, Heads
    <3>6. QED
      BY <3>3, <3>4, <3>5
  <2>23. ASSUME NEW j \in GJobs, Absorbs(j) PROVE GateHolds'
    BY <2>23, <1>1, BaseKept
       DEF Absorbs, Absorbed, Landed, trees, scopes, place, planning
  <2>24. ASSUME NEW j \in GJobs, Conflicts(j) PROVE GateHolds'
    BY <2>24, <1>1, BaseKept
       DEF Conflicts, Absorbed, Leaves, Landed, trees, scopes, place, planning
  <2>25. ASSUME NEW j \in GJobs, MergedFails(j) PROVE GateHolds'
    BY <2>25, <1>1, BaseKept
       DEF MergedFails, Absorbed, ToFix, Leaves, Landed, trees, scopes, place, planning
  <2>26. ASSUME UNCHANGED gateVars PROVE GateHolds'
    BY <2>26, <1>1, BaseKept
       DEF gateVars, Landed, trees, scopes, place, planning
  <2>27. QED
    BY <1>0, <2>1, <2>2, <2>3, <2>4, <2>5, <2>6, <2>7, <2>8, <2>9, <2>10, <2>11, <2>12, <2>13, <2>14, <2>15, <2>16, <2>17, <2>18, <2>19, <2>20, <2>21, <2>22, <2>23, <2>24, <2>25, <2>26
       DEF GatesNext

LEMMA GateStep == TypeInv /\ GateInv /\ [GatesNext]_gateVars => GateInv'
  BY PlacesStep, JudgedStep, HoldsStep DEF GateInv

\* As long as every landed job was judged on what it landed, the chain of migrations has
\* one head and no symbol is defined twice that was not so at the beginning.
THEOREM GatesSuffice == GatesSpec => []GateHolds
<1>1. GatesInit => TypeInv /\ GateInv
  BY TypeInit, GateInit
<1>2. TypeInv /\ GateInv /\ [GatesNext]_gateVars => (TypeInv /\ GateInv)'
  BY TypeStep, GateStep
<1>3. GateInv => GateHolds
  BY DEF GateInv
<1>4. QED
  BY <1>1, <1>2, <1>3, PTL DEF GatesSpec

=============================================================================
