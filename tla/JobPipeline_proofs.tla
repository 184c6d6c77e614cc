------------------------- MODULE JobPipeline_proofs -------------------------
(***************************************************************************)
(* What holds of JobPipeline for any budgets, any number of base advances  *)
(* and crashes: types and budgets, that nothing lands past a gate, that    *)
(* what lands was tested, that DONE means landed or satisfied, that        *)
(* self-healing is bounded, and that the row moves as JobTable allows.     *)
(***************************************************************************)
EXTENDS JobPipeline, TLAPS

-----------------------------------------------------------------------------
(* The strengthenings. *)

\* Where the merge handler can be, what a pending or failed row can look like.
Shape ==
    /\ phase # "idle" => At("DESIGN_REVIEW")
    /\ status # "DONE" => stage # "DONE"
    /\ status = "DEPLOYING" => stage = "DEPLOY"
    /\ status = "FAILED" /\ why = "nochange" =>
           stage = "FIX" /\ failure \in {"lint", "collision", "delta"} /\ tree = "clean"
    /\ status = "FAILED" /\ why = "missing" => tree = "none"
    /\ status = "FAILED" /\ why = "deploy" => stage = "DEPLOY"
    /\ phase = "land" => tree # "none"

\* The gates that have spoken since somebody last wrote to the branch.
Spoken == passed \union overtaken

\* The gates a checkpoint vouches for.  At MERGE_VERIFY, and at FIX before it,
\* either they still stand or the delta will be reviewed.
GatesHeld ==
    /\ stage = "REVIEW" => "review" \in Spoken
    /\ stage = "SECURITY" => {"review", "security"} \subseteq Spoken
    /\ stage = "DESIGN_REVIEW" => Spoken = Gates
    /\ stage = "MERGE_VERIFY" => (delta /\ code) \/ {"review", "security"} \subseteq Spoken
    /\ stage = "FIX" /\ failure = "conflict" =>
           delta /\ (code \/ {"review", "security"} \subseteq Spoken)
    /\ stage = "FIX" /\ failure = "delta" => delta /\ code

\* From TEST on the branch is tested, but for a base absorbed this very moment, a
\* job nobody will take up at this stage again, and a branch without a worktree.
TestsHeld ==
    /\ stage \in {"TEST", "REVIEW", "SECURITY"} => tested
    /\ stage = "DESIGN_REVIEW" =>
           \/ tested
           \/ HalfMerged
           \/ status = "FAILED" /\ why = "final"
           \/ tree = "none"
    /\ LandedTested

\* Markers wait for the fixer, for a rebuild, or for a human.
MarkersHeld ==
    tree = "markers" => \/ stage \in {"FIX", "QUEUED", "PLAN"}
                        \/ (status = "FAILED" /\ why = "final")

\* A job at DEPLOY, or about to be, has landed.
LandingHeld ==
    /\ phase = "landed" => landed \in Landings
    /\ stage = "DEPLOY" => landed \in Landings
    /\ DoneMeansLanded

-----------------------------------------------------------------------------
(* Types *)

\* The initial row has its types.
LEMMA InitType == Init => TypeOK
<1> USE BudgetsAssumption DEF Init, Stages, Kinds, Classes, Gates, Landings, RequeueCap
<1>1. Init => RowType
    BY DEF RowType
<1>2. Init => CountType
    BY DEF CountType
<1>3. Init => WorkType
    BY DEF WorkType
<1> QED BY <1>1, <1>2, <1>3 DEF TypeOK

\* A commit leaves a worktree.
LEMMA CommittedType ==
    ASSUME TypeOK, Committed
    PROVE  WorkType'
<1>1. CASE stage = "LINT" /\ Authored /\ Unjudged /\ UNCHANGED <<current, code>>
    BY <1>1 DEF Authored, Unjudged, TypeOK, WorkType
<1>2. CASE FixWork
    BY <1>2 DEF FixWork, Authored, Unjudged, TypeOK, WorkType, Gates
<1> QED BY <1>1, <1>2 DEF Committed

\* Every step keeps the types, and no budget is overdrawn.
LEMMA NextType == TypeOK /\ Shape /\ [Next]_vars => TypeOK'
<1> SUFFICES ASSUME TypeOK, Shape, [Next]_vars PROVE TypeOK'
    OBVIOUS
<1> USE BudgetsAssumption
<1> USE DEF TypeOK, RowType, CountType, WorkType, Stages, Kinds, Classes, Gates, Landings,
            At, Moves, Fails, Aborts, Passes,
            budgets, record, verdicts, work, world, merge, RequeueAt
<1>1. CASE Plan
    BY <1>1 DEF Plan
<1>2. CASE PlanSplits
    BY <1>2 DEF PlanSplits
<1>3. CASE PlanFails
    BY <1>3 DEF PlanFails
<1>4. CASE Build
    BY <1>4 DEF Build, Fresh, Unjudged
<1>5. CASE BuildNothing
    <2> USE <1>5 DEF BuildNothing, Fresh, Unjudged
    <2>1. RowType'
        OBVIOUS
    <2>2. CountType'
        OBVIOUS
    <2>3. WorkType'
        OBVIOUS
    <2> QED BY <2>1, <2>2, <2>3
<1>6. CASE BuildFails
    <2>1. RowType'
        BY <1>6 DEF BuildFails, Fresh, Unjudged
    <2>2. CountType'
        BY <1>6 DEF BuildFails
    <2>3. WorkType'
        BY <1>6 DEF BuildFails, Fresh, Unjudged
    <2> QED BY <2>1, <2>2, <2>3
<1>7. CASE LintPasses
    <2> USE <1>7 DEF LintPasses, LintFixes, Authored, Unjudged
    <2>1. RowType'
        OBVIOUS
    <2>2. CountType'
        OBVIOUS
    <2>3. WorkType'
        OBVIOUS
    <2> QED BY <2>1, <2>2, <2>3
<1>8. CASE LintFails
    <2> USE <1>8 DEF LintFails, LintFixes, Authored, Unjudged, RetryOrFail
    <2>1. RowType'
        OBVIOUS
    <2>2. CountType'
        OBVIOUS
    <2>3. WorkType'
        OBVIOUS
    <2> QED BY <2>1, <2>2, <2>3
<1>9. CASE LintWithoutTree
    BY <1>9 DEF LintWithoutTree
<1>10. CASE TestPasses
    BY <1>10 DEF TestPasses
<1>11. CASE TestFails
    BY <1>11 DEF TestFails, RetryOrFail
<1>12. CASE TestWithoutTree
    BY <1>12 DEF TestWithoutTree
<1>13. CASE Review
    <2> USE <1>13 DEF Review, Approves, RetryOrFail
    <2>1. RowType'
        OBVIOUS
    <2>2. CountType'
        OBVIOUS
    <2>3. WorkType'
        OBVIOUS
    <2> QED BY <2>1, <2>2, <2>3
<1>14. CASE Security
    <2> USE <1>14 DEF Security, Approves, RetryOrFail
    <2>1. RowType'
        OBVIOUS
    <2>2. CountType'
        OBVIOUS
    <2>3. WorkType'
        OBVIOUS
    <2> QED BY <2>1, <2>2, <2>3
<1>15. CASE DesignReview
    <2> USE <1>15 DEF DesignReview, Approves, RetryOrFail
    <2>1. RowType'
        OBVIOUS
    <2>2. CountType'
        OBVIOUS
    <2>3. WorkType'
        OBVIOUS
    <2> QED BY <2>1, <2>2, <2>3
<1>16. CASE MergeVerifyPasses
    <2> USE <1>16 DEF MergeVerifyPasses
    <2>1. RowType'
        OBVIOUS
    <2>2. CountType'
        OBVIOUS
    <2>3. WorkType'
        OBVIOUS
    <2> QED BY <2>1, <2>2, <2>3
<1>17. CASE MergeVerifyFails
    BY <1>17 DEF MergeVerifyFails, RetryOrFail
<1>18. CASE FixCommits
    <2> USE <1>18 DEF FixCommits, FixWork, Authored, Unjudged
    <2>1. RowType'
        OBVIOUS
    <2>2. CountType'
        OBVIOUS
    <2>3. WorkType'
        OBVIOUS
    <2> QED BY <2>1, <2>2, <2>3
<1>19. CASE FixPushFails
    <2> USE <1>19 DEF FixPushFails, FixWork, Authored, Unjudged
    <2>1. RowType'
        OBVIOUS
    <2>2. CountType'
        OBVIOUS
    <2>3. WorkType'
        OBVIOUS
    <2> QED BY <2>1, <2>2, <2>3
<1>20. CASE FixNothing
    BY <1>20 DEF FixNothing
<1>21. CASE FixWithoutTree
    BY <1>21 DEF FixWithoutTree
<1>22. CASE MergeBegins
    BY <1>22 DEF MergeBegins
<1>23. CASE Absorb
    <2> USE <1>23 DEF Absorb, Absorbing, Behind, TakesBase, Joins
    <2>1. RowType'
      <3>1. CASE absorbed + 1 < Steps
          BY <3>1
      <3>2. CASE absorbed + 1 >= Steps
          BY <3>2
      <3> QED BY <3>1, <3>2
    <2>2. CountType'
        OBVIOUS
    <2>3. WorkType'
        OBVIOUS
    <2> QED BY <2>1, <2>2, <2>3
<1>24. CASE AbsorbConflicts
    BY <1>24 DEF AbsorbConflicts, Absorbing, TakesBase, Behind, RebaseConflict
<1>25. CASE AbsorbWithoutTree
    BY <1>25 DEF AbsorbWithoutTree, Absorbing, RebaseConflict
<1>26. CASE MergeReady
    BY <1>26 DEF MergeReady, Absorbing, Behind
<1>27. CASE ValidationOverlaps
    BY <1>27 DEF ValidationOverlaps, Absorbing, Behind, RebaseConflict
<1>28. CASE ValidationFails
    BY <1>28 DEF ValidationFails, Absorbing, Behind, RetryOrFail
<1>29. CASE Squash
    BY <1>29 DEF Squash, Lands, LandedAs, Landing
<1>30. CASE LandingFails
    BY <1>30 DEF LandingFails, Untyped, Landing
<1>31. CASE PhantomLands
    <2>1. RowType'
        BY <1>31 DEF PhantomLands, Lands, LandedAs, Landing
    <2>2. CountType'
        BY <1>31 DEF PhantomLands, Lands
    <2>3. WorkType'
        BY <1>31 DEF PhantomLands, Lands, Remerged, Joins
    <2> QED BY <2>1, <2>2, <2>3
<1>32. CASE PhantomFails
    <2>1. RowType'
        BY <1>32 DEF PhantomFails, Untyped
    <2>2. CountType'
        BY <1>32 DEF PhantomFails
    <2>3. WorkType'
        BY <1>32 DEF PhantomFails, Remerged, Joins
    <2> QED BY <2>1, <2>2, <2>3
<1>33. CASE PhantomRetries
    BY <1>33 DEF PhantomRetries, Untyped, Landing
<1>34. CASE LandingConflicts
    BY <1>34 DEF LandingConflicts, RebaseConflict, Landing
<1>35. CASE MergeEnds
    BY <1>35 DEF MergeEnds
<1>36. CASE Deploy
    <2> USE <1>36 DEF Deploy, Finishes
    <2>1. RowType'
        OBVIOUS
    <2>2. CountType'
        OBVIOUS
    <2>3. WorkType'
        OBVIOUS
    <2> QED BY <2>1, <2>2, <2>3
<1>37. CASE DeployVerified
    <2> USE <1>37 DEF DeployVerified, Finishes
    <2>1. RowType'
        OBVIOUS
    <2>2. CountType'
        OBVIOUS
    <2>3. WorkType'
        OBVIOUS
    <2> QED BY <2>1, <2>2, <2>3
<1>49. CASE DeployErrs
    <2> USE <1>49 DEF DeployErrs
    <2>1. RowType'
        OBVIOUS
    <2>2. CountType'
        OBVIOUS
    <2>3. WorkType'
        OBVIOUS
    <2> QED BY <2>1, <2>2, <2>3
<1>38. CASE TimesOut
    BY <1>38 DEF TimesOut, Smaller
<1>39. CASE Errs
    <2>1. status' = "FAILED" /\ why' \in {"transient", "final"} /\ UNCHANGED <<stage,
       landed>>
        BY <1>39 DEF Errs
    <2>2. phase' = "idle" /\ UNCHANGED <<failure, delta>>
        BY <1>39 DEF Errs
    <2>3. built' \in BOOLEAN
        BY <1>39 DEF Errs, Fresh, Unjudged
    <2>4. RowType'
        BY <2>1, <2>2, <2>3
    <2>5. CountType'
        BY <1>39 DEF Errs
    <2>6. WorkType'
        <3>1. CASE UNCHANGED work
            BY <3>1
        <3>2. CASE Committed
            BY <3>2, CommittedType
        <3>3. CASE (\E t \in {"none", "clean"} : Fresh(t)) /\ UNCHANGED code
            BY <3>3 DEF Fresh, Unjudged
        <3> QED BY <1>39, <3>1, <3>2, <3>3 DEF Errs
    <2> QED BY <2>4, <2>5, <2>6
<1>40. CASE Dies
    <2>1. RowType'
        <3>1. UNCHANGED <<stage, status, record, landed>>
            BY <1>40 DEF Dies
        <3>2. phase' \in {"idle", phase}
            BY <1>40 DEF Dies
        <3> QED BY <3>1, <3>2
    <2>2. CountType'
        <3>1. crashes' \in 0..MaxCrashes /\ absorbed' \in {0, absorbed}
            BY <1>40 DEF Dies
        <3>2. UNCHANGED <<budgets, requeues, advances, asked>>
            BY <1>40 DEF Dies
        <3> QED BY <3>1, <3>2
    <2>3. WorkType'
        BY <1>40, CommittedType DEF Dies
    <2> QED BY <2>1, <2>2, <2>3
<1>41. CASE BaseAdvances
    <2> USE <1>41 DEF BaseAdvances
    <2>1. RowType'
        OBVIOUS
    <2>2. CountType'
        OBVIOUS
    <2>3. WorkType'
        OBVIOUS
    <2> QED BY <2>1, <2>2, <2>3
<1>42. CASE RequeueTransient
    BY <1>42 DEF RequeueTransient, RequeueCap
<1>43. CASE RequeueStale
    BY <1>43 DEF RequeueStale, RequeueCap
<1>44. CASE RequeueNoDiff
    BY <1>44 DEF RequeueNoDiff
<1>45. CASE RequeueGate
    <2> USE <1>45 DEF RequeueGate, GateStage, RequeueCap, Shape
    <2>1. RowType'
        OBVIOUS
    <2>2. CountType'
        OBVIOUS
    <2>3. WorkType'
        OBVIOUS
    <2> QED BY <2>1, <2>2, <2>3
<1>46. CASE Reconcile
    BY <1>46 DEF Reconcile, Finishes
<1>47. CASE OperatorRequeue
    BY <1>47, SwitchesAssumption DEF OperatorRequeue
<1>48. CASE UNCHANGED vars
    BY <1>48 DEF vars
<1> QED
    BY <1>1, <1>2, <1>3, <1>4, <1>5, <1>6, <1>7, <1>8, <1>9, <1>10, <1>11, <1>12,
       <1>13, <1>14, <1>15, <1>16, <1>17, <1>18, <1>19, <1>20, <1>21, <1>22, <1>23, <1>24,
       <1>25, <1>26, <1>27, <1>28, <1>29, <1>30, <1>31, <1>32, <1>33, <1>34, <1>35, <1>36,
       <1>37, <1>38, <1>39, <1>40, <1>41, <1>42, <1>43, <1>44, <1>45, <1>46, <1>47, <1>48,
          <1>49
    DEF Next, Advance, Merge, Disturb, Janitor

-----------------------------------------------------------------------------
(* Where a job can be *)

\* Every step keeps the shape of the row.
LEMMA NextShape ==
    ASSUME Shape, [Next]_vars
    PROVE  Shape'
<1> USE SwitchesAssumption
<1> USE DEF Shape, At, Moves, Fails, Aborts, Passes, budgets, record, verdicts, work,
    world, merge,
    RequeueAt
<1>1. CASE Plan
    BY <1>1 DEF Plan
<1>2. CASE PlanSplits
    BY <1>2 DEF PlanSplits
<1>3. CASE PlanFails
    BY <1>3 DEF PlanFails
<1>4. CASE Build
    BY <1>4 DEF Build, Fresh, Unjudged
<1>5. CASE BuildNothing
    BY <1>5 DEF BuildNothing, Fresh, Unjudged
<1>6. CASE BuildFails
    BY <1>6 DEF BuildFails, Fresh, Unjudged
<1>7. CASE LintPasses
    BY <1>7 DEF LintPasses, LintFixes, Authored, Unjudged
<1>8. CASE LintFails
    BY <1>8 DEF LintFails, LintFixes, Authored, Unjudged, RetryOrFail
<1>9. CASE LintWithoutTree
    BY <1>9 DEF LintWithoutTree
<1>10. CASE TestPasses
    BY <1>10 DEF TestPasses
<1>11. CASE TestFails
    BY <1>11 DEF TestFails, RetryOrFail
<1>12. CASE TestWithoutTree
    BY <1>12 DEF TestWithoutTree
<1>13. CASE Review
    BY <1>13 DEF Review, Approves, RetryOrFail
<1>14. CASE Security
    BY <1>14 DEF Security, Approves, RetryOrFail
<1>15. CASE DesignReview
    BY <1>15 DEF DesignReview, Approves, RetryOrFail
<1>16. CASE MergeVerifyPasses
    BY <1>16 DEF MergeVerifyPasses
<1>17. CASE MergeVerifyFails
    BY <1>17 DEF MergeVerifyFails, RetryOrFail
<1>18. CASE FixCommits
    BY <1>18 DEF FixCommits, FixWork, Authored, Unjudged
<1>19. CASE FixPushFails
    BY <1>19 DEF FixPushFails, FixWork, Authored, Unjudged
<1>20. CASE FixNothing
    BY <1>20 DEF FixNothing
<1>21. CASE FixWithoutTree
    BY <1>21 DEF FixWithoutTree
<1>22. CASE MergeBegins
    BY <1>22 DEF MergeBegins
<1>23. CASE Absorb
    BY <1>23 DEF Absorb, Absorbing, Behind, TakesBase, Joins
<1>24. CASE AbsorbConflicts
    BY <1>24 DEF AbsorbConflicts, Absorbing, TakesBase, Behind, RebaseConflict
<1>25. CASE AbsorbWithoutTree
    BY <1>25 DEF AbsorbWithoutTree, Absorbing, RebaseConflict
<1>26. CASE MergeReady
    BY <1>26 DEF MergeReady, Absorbing, Behind
<1>27. CASE ValidationOverlaps
    BY <1>27 DEF ValidationOverlaps, Absorbing, Behind, RebaseConflict
<1>28. CASE ValidationFails
    BY <1>28 DEF ValidationFails, Absorbing, Behind, RetryOrFail
<1>29. CASE Squash
    BY <1>29 DEF Squash, Lands, LandedAs, Landing
<1>30. CASE LandingFails
    BY <1>30 DEF LandingFails, Untyped, Landing
<1>31. CASE PhantomLands
    BY <1>31 DEF PhantomLands, Lands, LandedAs, Remerged, Joins, Landing
<1>32. CASE PhantomFails
    BY <1>32 DEF PhantomFails, Remerged, Joins, Untyped, Landing
<1>33. CASE PhantomRetries
    BY <1>33 DEF PhantomRetries, Untyped, Landing
<1>34. CASE LandingConflicts
    BY <1>34 DEF LandingConflicts, RebaseConflict, Landing
<1>35. CASE MergeEnds
    BY <1>35 DEF MergeEnds
<1>36. CASE Deploy
    BY <1>36 DEF Deploy, Finishes
<1>37. CASE DeployVerified
    BY <1>37 DEF DeployVerified, Finishes
<1>49. CASE DeployErrs
    BY <1>49 DEF DeployErrs
<1>38. CASE TimesOut
    BY <1>38 DEF TimesOut, Smaller
<1>39. CASE Errs
    BY <1>39 DEF Errs, Committed, FixWork, Authored, Unjudged, Fresh, HalfMerged
<1>40. CASE Dies
    BY <1>40 DEF Dies, Committed, FixWork, Authored, Unjudged, HalfMerged
<1>41. CASE BaseAdvances
    BY <1>41 DEF BaseAdvances
<1>42. CASE RequeueTransient
    BY <1>42 DEF RequeueTransient
<1>43. CASE RequeueStale
    BY <1>43 DEF RequeueStale
<1>44. CASE RequeueNoDiff
    BY <1>44 DEF RequeueNoDiff
<1>45. CASE RequeueGate
    BY <1>45 DEF RequeueGate, GateStage
<1>46. CASE Reconcile
    BY <1>46 DEF Reconcile, Finishes
<1>47. CASE OperatorRequeue
    BY <1>47 DEF OperatorRequeue
<1>48. CASE UNCHANGED vars
    BY <1>48 DEF vars
<1> QED
    BY <1>1, <1>2, <1>3, <1>4, <1>5, <1>6, <1>7, <1>8, <1>9, <1>10, <1>11, <1>12,
       <1>13, <1>14, <1>15, <1>16, <1>17, <1>18, <1>19, <1>20, <1>21, <1>22, <1>23, <1>24,
       <1>25, <1>26, <1>27, <1>28, <1>29, <1>30, <1>31, <1>32, <1>33, <1>34, <1>35, <1>36,
       <1>37, <1>38, <1>39, <1>40, <1>41, <1>42, <1>43, <1>44, <1>45, <1>46, <1>47, <1>48,
          <1>49
    DEF Next, Advance, Merge, Disturb, Janitor

\* Types, budgets and the shape of the row hold together.
LEMMA Sound == Spec => [](TypeOK /\ Shape)
<1>1. Init => TypeOK /\ Shape
    BY InitType DEF Init, Shape, At
<1>2. TypeOK /\ Shape /\ [Next]_vars => (TypeOK /\ Shape)'
    BY NextType, NextShape
<1> QED
    BY <1>1, <1>2, PTL DEF Spec

\* No budget is overdrawn and every variable keeps its type, whatever the budgets
\* are (_retry_or_fail, _rebase_conflict, _timed_out, the caps of the janitor).
THEOREM PipelineTypes == Spec => []TypeOK
    BY Sound, PTL

-----------------------------------------------------------------------------
(* Gates *)

\* The fixer's commit keeps what a stage before MERGE_VERIFY vouches for.
LEMMA FixKeepsGates ==
    ASSUME GatesHeld, TypeOK, stage = "FIX", FixWork
    PROVE  /\ failure = "conflict" =>
                  delta /\ (code' \/ {"review", "security"} \subseteq Spoken')
           /\ failure = "delta" => delta /\ code'
<1>1. code => code'
    BY DEF FixWork, TypeOK, WorkType
<1>2. CASE failure = "conflict" /\ ~code'
    BY <1>1, <1>2 DEF FixWork, Unjudged, Spoken, GatesHeld
<1>3. CASE ~(failure = "conflict" /\ ~code')
    BY <1>1, <1>3 DEF FixWork, Unjudged, Spoken, GatesHeld
<1> QED BY <1>2, <1>3

\* Every step keeps the verdicts a checkpoint vouches for, and nothing lands without
\* all of them.
LEMMA NextGates ==
    ASSUME RequeueStages \subseteq {"QUEUED", "PLAN", "LINT", "BUILD", "TEST", "DEPLOY"},
           TypeOK, Shape, GatesHeld, [Next]_vars
    PROVE  GatesHeld' /\
           (phase' = "landed" /\ phase # "landed" => Spoken' = Gates)
<1> USE DEF Gates, Spoken, GatesHeld, At, Moves, Fails, Aborts, Passes, budgets, record,
    verdicts, work,
    world, merge, RequeueAt
<1>1. CASE Plan
    BY <1>1 DEF Plan
<1>2. CASE PlanSplits
    BY <1>2 DEF PlanSplits
<1>3. CASE PlanFails
    BY <1>3 DEF PlanFails
<1>4. CASE Build
    BY <1>4 DEF Build, Fresh, Unjudged
<1>5. CASE BuildNothing
    BY <1>5 DEF BuildNothing, Fresh, Unjudged
<1>6. CASE BuildFails
    BY <1>6 DEF BuildFails, Fresh, Unjudged
<1>7. CASE LintPasses
    BY <1>7 DEF LintPasses, LintFixes, Authored, Unjudged
<1>8. CASE LintFails
    BY <1>8 DEF LintFails, LintFixes, Authored, Unjudged, RetryOrFail
<1>9. CASE LintWithoutTree
    BY <1>9 DEF LintWithoutTree
<1>10. CASE TestPasses
    BY <1>10 DEF TestPasses
<1>11. CASE TestFails
    BY <1>11 DEF TestFails, RetryOrFail
<1>12. CASE TestWithoutTree
    BY <1>12 DEF TestWithoutTree
<1>13. CASE Review
    BY <1>13 DEF Review, Approves, RetryOrFail
<1>14. CASE Security
    BY <1>14 DEF Security, Approves, RetryOrFail
<1>15. CASE DesignReview
    <2> USE <1>15
    <2>1. CASE Approves("design", "DESIGN_REVIEW")
        <3>1. Spoken' = Gates
            BY <2>1 DEF DesignReview, Approves, TypeOK, WorkType
        <3> QED BY <2>1, <3>1 DEF Approves
    <2>2. CASE RetryOrFail("other", FALSE) /\ UNCHANGED <<merge, work>>
        BY <2>2 DEF DesignReview, RetryOrFail
    <2> QED BY <2>1, <2>2 DEF DesignReview
<1>16. CASE MergeVerifyPasses
    BY <1>16 DEF MergeVerifyPasses
<1>17. CASE MergeVerifyFails
    BY <1>17 DEF MergeVerifyFails, RetryOrFail
<1>18. CASE FixCommits
    BY <1>18, FixKeepsGates DEF FixCommits
<1>19. CASE FixPushFails
    BY <1>19, FixKeepsGates DEF FixPushFails
<1>20. CASE FixNothing
    BY <1>20 DEF FixNothing
<1>21. CASE FixWithoutTree
    BY <1>21 DEF FixWithoutTree
<1>22. CASE MergeBegins
    BY <1>22 DEF MergeBegins
<1>23. CASE Absorb
    BY <1>23 DEF Absorb, Absorbing, Behind, TakesBase, Joins
<1>24. CASE AbsorbConflicts
    BY <1>24 DEF AbsorbConflicts, Absorbing, TakesBase, Behind, RebaseConflict
<1>25. CASE AbsorbWithoutTree
    BY <1>25 DEF AbsorbWithoutTree, Absorbing, RebaseConflict
<1>26. CASE MergeReady
    BY <1>26 DEF MergeReady, Absorbing, Behind
<1>27. CASE ValidationOverlaps
    BY <1>27 DEF ValidationOverlaps, Absorbing, Behind, RebaseConflict
<1>28. CASE ValidationFails
    BY <1>28 DEF ValidationFails, Absorbing, Behind, RetryOrFail
<1>29. CASE Squash
    BY <1>29 DEF Squash, Lands, LandedAs, Landing
<1>30. CASE LandingFails
    BY <1>30 DEF LandingFails, Untyped, Landing
<1>31. CASE PhantomLands
    BY <1>31 DEF PhantomLands, Lands, LandedAs, Remerged, Joins, Landing
<1>32. CASE PhantomFails
    BY <1>32 DEF PhantomFails, Remerged, Joins, Untyped, Landing
<1>33. CASE PhantomRetries
    BY <1>33 DEF PhantomRetries, Untyped, Landing
<1>34. CASE LandingConflicts
    BY <1>34 DEF LandingConflicts, RebaseConflict, Landing
<1>35. CASE MergeEnds
    BY <1>35 DEF MergeEnds
<1>36. CASE Deploy
    BY <1>36 DEF Deploy, Finishes
<1>37. CASE DeployVerified
    BY <1>37 DEF DeployVerified, Finishes
<1>49. CASE DeployErrs
    BY <1>49 DEF DeployErrs
<1>38. CASE TimesOut
    BY <1>38 DEF TimesOut, Smaller
<1>39. CASE Errs
    <2>1. UNCHANGED <<stage, failure, delta>> /\ phase' = "idle"
        BY <1>39 DEF Errs
    <2>2. CASE UNCHANGED work
        BY <2>1, <2>2
    <2>3. CASE Committed
        BY <2>1, <2>3, FixKeepsGates DEF Committed
    <2>4. CASE stage = "PLAN"
        BY <2>1, <2>4
    <2> QED BY <1>39, <2>2, <2>3, <2>4 DEF Errs
<1>40. CASE Dies
    <2>1. UNCHANGED <<stage, failure, delta>> /\ phase' \in {"idle", phase}
        BY <1>40 DEF Dies
    <2>2. CASE UNCHANGED work
        BY <2>1, <2>2
    <2>3. CASE Committed
        BY <2>1, <2>3, FixKeepsGates DEF Committed
    <2> QED BY <1>40, <2>2, <2>3 DEF Dies
<1>41. CASE BaseAdvances
    BY <1>41 DEF BaseAdvances
<1>42. CASE RequeueTransient
    BY <1>42 DEF RequeueTransient
<1>43. CASE RequeueStale
    BY <1>43 DEF RequeueStale
<1>44. CASE RequeueNoDiff
    BY <1>44 DEF RequeueNoDiff
<1>45. CASE RequeueGate
    <2>1. stage = "FIX" /\ failure \in {"lint", "collision", "delta"}
        BY <1>45 DEF RequeueGate, Shape
    <2>2. \/ stage' = "LINT" \/ stage' = "BUILD"
          \/ stage' = "MERGE_VERIFY" /\ delta /\ code
        BY <1>45, <2>1 DEF RequeueGate, GateStage
    <2> QED BY <1>45, <2>2 DEF RequeueGate
<1>46. CASE Reconcile
    BY <1>46 DEF Reconcile, Finishes
<1>47. CASE OperatorRequeue
    BY <1>47 DEF OperatorRequeue
<1>48. CASE UNCHANGED vars
    BY <1>48 DEF vars
<1> QED
    BY <1>1, <1>2, <1>3, <1>4, <1>5, <1>6, <1>7, <1>8, <1>9, <1>10, <1>11, <1>12,
       <1>13, <1>14, <1>15, <1>16, <1>17, <1>18, <1>19, <1>20, <1>21, <1>22, <1>23, <1>24,
       <1>25, <1>26, <1>27, <1>28, <1>29, <1>30, <1>31, <1>32, <1>33, <1>34, <1>35, <1>36,
       <1>37, <1>38, <1>39, <1>40, <1>41, <1>42, <1>43, <1>44, <1>45, <1>46, <1>47, <1>48,
          <1>49
    DEF Next, Advance, Merge, Disturb, Janitor

\* Whatever the budgets, the crashes and the base advances: every gate has spoken on
\* what lands since somebody last wrote to it, and only a conflict the program joined
\* itself can have come after (Absorb, Remerged), if nobody requeues a job
\* between its review and its merge (the stage graph, merge_verify.run, the requeue paths).
THEOREM NothingSlipsAGate ==
    ASSUME RequeueStages \subseteq {"QUEUED", "PLAN", "LINT", "BUILD", "TEST", "DEPLOY"}
    PROVE  Spec => GatedLanding
<1>1. Init => GatesHeld
    BY DEF Init, GatesHeld
<1>2. TypeOK /\ Shape /\ GatesHeld /\ [Next]_vars => GatesHeld'
    BY NextGates
<1>3. TypeOK /\ Shape /\ GatesHeld /\ [Next]_vars =>
          [phase' = "landed" /\ phase # "landed" => passed' \union overtaken' = Gates]_vars
    BY NextGates DEF Spoken
<1> QED
    BY <1>1, <1>2, <1>3, Sound, PTL DEF Spec, GatedLanding

-----------------------------------------------------------------------------
(* Tests and markers *)

\* Every step keeps markers where they are dealt with.
LEMMA NextMarkers ==
    ASSUME TypeOK, Shape, Untouched', MarkersHeld, [Next]_vars
    PROVE  MarkersHeld'
<1> USE DEF MarkersHeld, At, Moves, Fails, Aborts, Passes, budgets, record, verdicts,
    work, world,
    merge, RequeueAt
<1>1. CASE Plan
    BY <1>1 DEF Plan
<1>2. CASE PlanSplits
    BY <1>2 DEF PlanSplits
<1>3. CASE PlanFails
    BY <1>3 DEF PlanFails
<1>4. CASE Build
    BY <1>4 DEF Build, Fresh, Unjudged
<1>5. CASE BuildNothing
    BY <1>5 DEF BuildNothing, Fresh, Unjudged
<1>6. CASE BuildFails
    BY <1>6 DEF BuildFails, Fresh, Unjudged
<1>7. CASE LintPasses
    BY <1>7 DEF LintPasses, LintFixes, Authored, Unjudged
<1>8. CASE LintFails
    BY <1>8 DEF LintFails, LintFixes, Authored, Unjudged, RetryOrFail
<1>9. CASE LintWithoutTree
    BY <1>9 DEF LintWithoutTree
<1>10. CASE TestPasses
    BY <1>10 DEF TestPasses
<1>11. CASE TestFails
    BY <1>11 DEF TestFails, RetryOrFail
<1>12. CASE TestWithoutTree
    BY <1>12 DEF TestWithoutTree
<1>13. CASE Review
    BY <1>13 DEF Review, Approves, RetryOrFail
<1>14. CASE Security
    BY <1>14 DEF Security, Approves, RetryOrFail
<1>15. CASE DesignReview
    BY <1>15 DEF DesignReview, Approves, RetryOrFail
<1>16. CASE MergeVerifyPasses
    BY <1>16 DEF MergeVerifyPasses
<1>17. CASE MergeVerifyFails
    BY <1>17 DEF MergeVerifyFails, RetryOrFail
<1>18. CASE FixCommits
    BY <1>18 DEF FixCommits, FixWork, Authored, Unjudged
<1>19. CASE FixPushFails
    BY <1>19 DEF FixPushFails, FixWork, Authored, Unjudged
<1>20. CASE FixNothing
    BY <1>20 DEF FixNothing
<1>21. CASE FixWithoutTree
    BY <1>21 DEF FixWithoutTree
<1>22. CASE MergeBegins
    BY <1>22 DEF MergeBegins
<1>23. CASE Absorb
    BY <1>23 DEF Absorb, Absorbing, Behind, TakesBase, Joins
<1>24. CASE AbsorbConflicts
    BY <1>24 DEF AbsorbConflicts, Absorbing, TakesBase, Behind, RebaseConflict
<1>25. CASE AbsorbWithoutTree
    BY <1>25 DEF AbsorbWithoutTree, Absorbing, RebaseConflict
<1>26. CASE MergeReady
    BY <1>26 DEF MergeReady, Absorbing, Behind
<1>27. CASE ValidationOverlaps
    BY <1>27 DEF ValidationOverlaps, Absorbing, Behind, RebaseConflict
<1>28. CASE ValidationFails
    BY <1>28 DEF ValidationFails, Absorbing, Behind, RetryOrFail
<1>29. CASE Squash
    BY <1>29 DEF Squash, Lands, LandedAs, Landing
<1>30. CASE LandingFails
    BY <1>30 DEF LandingFails, Untyped, Landing
<1>31. CASE PhantomLands
    BY <1>31 DEF PhantomLands, Lands, LandedAs, Remerged, Joins, Landing
<1>32. CASE PhantomFails
    BY <1>32 DEF PhantomFails, Remerged, Joins, Untyped, Landing
<1>33. CASE PhantomRetries
    BY <1>33 DEF PhantomRetries, Untyped, Landing
<1>34. CASE LandingConflicts
    BY <1>34 DEF LandingConflicts, RebaseConflict, Landing
<1>35. CASE MergeEnds
    BY <1>35 DEF MergeEnds
<1>36. CASE Deploy
    BY <1>36 DEF Deploy, Finishes
<1>37. CASE DeployVerified
    <2>1. tree' = tree /\ tree # "markers"
        BY <1>37 DEF DeployVerified, Finishes, Shape
    <2> QED BY <2>1
<1>49. CASE DeployErrs
    <2>1. tree' = tree /\ tree # "markers"
        BY <1>49 DEF DeployErrs, Shape
    <2> QED BY <2>1
<1>38. CASE TimesOut
    BY <1>38 DEF TimesOut, Smaller
<1>39. CASE Errs
    <2>1. UNCHANGED stage /\ tree' \in {tree, "none", "clean"} /\ status = "PENDING"
        BY <1>39 DEF Errs, Committed, FixWork, Authored, Unjudged, Fresh
    <2> QED BY <2>1
<1>40. CASE Dies
    <2>1. UNCHANGED <<stage, status, why>> /\ tree' \in {tree, "clean"}
        BY <1>40 DEF Dies, Committed, FixWork, Authored, Unjudged
    <2> QED BY <2>1
<1>41. CASE BaseAdvances
    BY <1>41 DEF BaseAdvances
<1>42. CASE RequeueTransient
    <2>1. tree' = tree
        BY <1>42 DEF RequeueTransient
    <2>2. CASE why = "missing"
        BY <1>42, <2>1, <2>2 DEF RequeueTransient, Shape
    <2>3. CASE why = "transient"
        BY <1>42, <2>1, <2>3 DEF RequeueTransient
    <2> QED BY <1>42, <2>2, <2>3 DEF RequeueTransient
<1>43. CASE RequeueStale
    BY <1>43 DEF RequeueStale
<1>44. CASE RequeueNoDiff
    BY <1>44 DEF RequeueNoDiff
<1>45. CASE RequeueGate
    <2>1. tree' = tree /\ tree = "clean"
        BY <1>45 DEF RequeueGate, Shape
    <2> QED BY <2>1
<1>46. CASE Reconcile
    <2>1. tree' = tree /\ tree # "markers"
        BY <1>46 DEF Reconcile, Finishes, Shape
    <2> QED BY <2>1
<1>47. CASE OperatorRequeue
    <2>1. asked' # 0
        BY <1>47 DEF OperatorRequeue, TypeOK, CountType
    <2>2. RequeueStages \subseteq {"QUEUED", "PLAN"}
        BY <2>1 DEF Untouched
    <2> QED BY <1>47, <2>2 DEF OperatorRequeue
<1>48. CASE UNCHANGED vars
    BY <1>48 DEF vars
<1> QED
    BY <1>1, <1>2, <1>3, <1>4, <1>5, <1>6, <1>7, <1>8, <1>9, <1>10, <1>11, <1>12,
       <1>13, <1>14, <1>15, <1>16, <1>17, <1>18, <1>19, <1>20, <1>21, <1>22, <1>23, <1>24,
       <1>25, <1>26, <1>27, <1>28, <1>29, <1>30, <1>31, <1>32, <1>33, <1>34, <1>35, <1>36,
       <1>37, <1>38, <1>39, <1>40, <1>41, <1>42, <1>43, <1>44, <1>45, <1>46, <1>47, <1>48,
          <1>49
    DEF Next, Advance, Merge, Disturb, Janitor

\* Once sent back by an operator, always sent back.
LEMMA NextUntouched == TypeOK /\ [Next]_vars /\ Untouched' => Untouched
<1> SUFFICES ASSUME TypeOK, [Next]_vars, asked' = 0 PROVE asked = 0
    BY DEF Untouched
<1> USE DEF TypeOK, CountType, budgets, record, verdicts, work, world, merge, Aborts, Passes
<1>1. CASE OperatorRequeue
    BY <1>1 DEF OperatorRequeue
<1>2. CASE Plan \/ PlanSplits \/ PlanFails \/ Build \/ BuildNothing \/ BuildFails
    BY <1>2 DEF Plan, PlanSplits, PlanFails, Build, BuildNothing, BuildFails
<1>3. CASE \/ LintPasses \/ LintFails \/ LintWithoutTree
           \/ TestPasses \/ TestFails \/ TestWithoutTree
           \/ Review \/ Security \/ DesignReview \/ MergeVerifyPasses \/ MergeVerifyFails
    BY <1>3 DEF LintPasses, LintFails, LintWithoutTree, TestPasses, TestFails,
       TestWithoutTree, Review, Security, DesignReview, MergeVerifyPasses,
       MergeVerifyFails, Approves, RetryOrFail
<1>4. CASE FixCommits \/ FixPushFails \/ FixNothing \/ FixWithoutTree
    BY <1>4 DEF FixCommits, FixPushFails, FixNothing, FixWithoutTree
<1>5. CASE Merge
    BY <1>5 DEF Merge, MergeBegins, Absorb, AbsorbConflicts, AbsorbWithoutTree, MergeReady,
       ValidationOverlaps, ValidationFails, Squash, LandingFails, PhantomLands,
       PhantomFails, PhantomRetries, LandingConflicts, MergeEnds, RebaseConflict,
       RetryOrFail, Lands
<1>6. CASE Deploy \/ DeployVerified \/ Reconcile
    BY <1>6 DEF Deploy, DeployVerified, Reconcile, Finishes
<1>7. CASE Disturb
    BY <1>7 DEF Disturb, TimesOut, Errs, DeployErrs, Dies, BaseAdvances
<1>8. CASE RequeueTransient \/ RequeueStale \/ RequeueNoDiff \/ RequeueGate
    BY <1>8 DEF RequeueTransient, RequeueStale, RequeueNoDiff, RequeueGate
<1>9. CASE UNCHANGED vars
    BY <1>9 DEF vars
<1> QED
    BY <1>1, <1>2, <1>3, <1>4, <1>5, <1>6, <1>7, <1>8, <1>9 DEF Next, Advance, Janitor

\* No gate and no merge ever looks at conflict markers, unless an operator has sent
\* the job to one (_rebase_conflict, the clean-up after a time-out).
THEOREM MarkersNeverReachAGate == Spec => []MarkersContained
<1>1. Init => (Untouched => MarkersHeld)
    BY DEF Init, MarkersHeld
<1>2. TypeOK /\ Shape /\ (Untouched => MarkersHeld) /\ [Next]_vars =>
          (Untouched => MarkersHeld)'
    BY NextMarkers, NextUntouched
<1>3. (Untouched => MarkersHeld) => MarkersContained
    BY DEF MarkersHeld, MarkersContained
<1> QED
    BY <1>1, <1>2, <1>3, Sound, PTL DEF Spec

\* Every step keeps the branch tested from TEST on.
LEMMA NextTests ==
    ASSUME RequeueStages \cap {"TEST", "REVIEW", "SECURITY", "DESIGN_REVIEW"} = {},
           ~DiesMidMerge,
           TypeOK, Shape, TestsHeld, [Next]_vars
    PROVE  TestsHeld'
<1> USE DEF TestsHeld, LandedTested, HalfMerged, At, Moves, Fails, Aborts,
    Passes, budgets, record, verdicts, work, world, merge, RequeueAt
<1>1. CASE Plan
    BY <1>1 DEF Plan
<1>2. CASE PlanSplits
    BY <1>2 DEF PlanSplits
<1>3. CASE PlanFails
    BY <1>3 DEF PlanFails
<1>4. CASE Build
    BY <1>4 DEF Build, Fresh, Unjudged
<1>5. CASE BuildNothing
    BY <1>5 DEF BuildNothing, Fresh, Unjudged
<1>6. CASE BuildFails
    BY <1>6 DEF BuildFails, Fresh, Unjudged
<1>7. CASE LintPasses
    BY <1>7 DEF LintPasses, LintFixes, Authored, Unjudged
<1>8. CASE LintFails
    BY <1>8 DEF LintFails, LintFixes, Authored, Unjudged, RetryOrFail
<1>9. CASE LintWithoutTree
    BY <1>9 DEF LintWithoutTree
<1>10. CASE TestPasses
    BY <1>10 DEF TestPasses
<1>11. CASE TestFails
    BY <1>11 DEF TestFails, RetryOrFail
<1>12. CASE TestWithoutTree
    BY <1>12 DEF TestWithoutTree
<1>13. CASE Review
    <2> USE <1>13
    <2>1. CASE Approves("review", "REVIEW")
        BY <2>1 DEF Review, Approves, RetryOrFail
    <2>2. CASE RetryOrFail("other", TRUE) /\ UNCHANGED work
        BY <2>2 DEF Review, Approves, RetryOrFail
    <2> QED BY <2>1, <2>2 DEF Review, Approves, RetryOrFail
<1>14. CASE Security
    <2> USE <1>14
    <2>1. CASE Approves("security", "SECURITY")
        BY <2>1 DEF Security, Approves, RetryOrFail
    <2>2. CASE RetryOrFail("other", TRUE) /\ UNCHANGED work
        BY <2>2 DEF Security, Approves, RetryOrFail
    <2> QED BY <2>1, <2>2 DEF Security, Approves, RetryOrFail
<1>15. CASE DesignReview
    BY <1>15 DEF DesignReview, Approves, RetryOrFail
<1>16. CASE MergeVerifyPasses
    BY <1>16 DEF MergeVerifyPasses
<1>17. CASE MergeVerifyFails
    BY <1>17 DEF MergeVerifyFails, RetryOrFail
<1>18. CASE FixCommits
    BY <1>18 DEF FixCommits, FixWork, Authored, Unjudged
<1>19. CASE FixPushFails
    BY <1>19 DEF FixPushFails, FixWork, Authored, Unjudged
<1>20. CASE FixNothing
    BY <1>20 DEF FixNothing
<1>21. CASE FixWithoutTree
    BY <1>21 DEF FixWithoutTree
<1>22. CASE MergeBegins
    BY <1>22 DEF MergeBegins
<1>23. CASE Absorb
    <2>1. absorbed \in Nat /\ Steps \in Nat
        BY BudgetsAssumption DEF TypeOK, CountType
    <2>2. CASE stage' = "MERGE_VERIFY"
        BY <1>23, <2>2 DEF Absorb
    <2>3. CASE absorbed' = absorbed + 1 /\ UNCHANGED phase
        BY <1>23, <2>1, <2>3 DEF Absorb, Absorbing
    <2> QED BY <1>23, <2>2, <2>3 DEF Absorb
<1>24. CASE AbsorbConflicts
    BY <1>24 DEF AbsorbConflicts, Absorbing, TakesBase, Behind, RebaseConflict
<1>25. CASE AbsorbWithoutTree
    BY <1>25 DEF AbsorbWithoutTree, Absorbing, RebaseConflict
<1>26. CASE MergeReady
    BY <1>26 DEF MergeReady, Absorbing, Behind
<1>27. CASE ValidationOverlaps
    BY <1>27 DEF ValidationOverlaps, Absorbing, Behind, RebaseConflict
<1>28. CASE ValidationFails
    BY <1>28 DEF ValidationFails, Absorbing, Behind, RetryOrFail
<1>29. CASE Squash
    <2>1. tested \/ landed' = "raced"
        BY <1>29, Shape DEF Squash, Lands, LandedAs, Landing, Shape
    <2> QED BY <1>29, <2>1 DEF Squash, Lands, LandedAs, Landing
<1>30. CASE LandingFails
    BY <1>30 DEF LandingFails, Untyped, Landing
<1>31. CASE PhantomLands
    <2>1. tested /\ current' = TRUE
        BY <1>31, Shape DEF PhantomLands, Lands, LandedAs, Remerged, Joins, Landing, Shape
    <2> QED BY <1>31, <2>1 DEF PhantomLands, Lands, LandedAs, Remerged, Joins, Landing
<1>32. CASE PhantomFails
    BY <1>32 DEF PhantomFails, Remerged, Joins, Untyped, Landing
<1>33. CASE PhantomRetries
    <2>1. stage' = "SECURITY" \/ UNCHANGED stage
        BY <1>33 DEF PhantomRetries
    <2>2. tested' = tested /\ tree' = tree /\ tree # "none"
        BY <1>33 DEF PhantomRetries, Landing, Shape
    <2>3. tested
        BY <1>33, <2>2 DEF PhantomRetries, Landing
    <2> QED BY <1>33, <2>1, <2>2, <2>3 DEF PhantomRetries
<1>34. CASE LandingConflicts
    BY <1>34 DEF LandingConflicts, RebaseConflict, Landing
<1>35. CASE MergeEnds
    BY <1>35 DEF MergeEnds
<1>36. CASE Deploy
    BY <1>36 DEF Deploy, Finishes
<1>37. CASE DeployVerified
    BY <1>37 DEF DeployVerified, Finishes
<1>49. CASE DeployErrs
    BY <1>49 DEF DeployErrs
<1>38. CASE TimesOut
    BY <1>38 DEF TimesOut, Smaller
<1>39. CASE Errs
    <2>1. UNCHANGED stage /\ phase' = "idle" /\ landed' = landed /\ status = "PENDING"
        BY <1>39 DEF Errs
    <2>2. CASE stage \in {"PLAN", "LINT", "FIX"}
        BY <2>1, <2>2
    <2>3. CASE UNCHANGED work
        BY <1>39, <2>1, <2>3 DEF Errs
    <2> QED BY <1>39, <2>2, <2>3 DEF Errs, Committed
<1>40. CASE Dies
    <2>1. UNCHANGED <<stage, status, why, landed>>
        BY <1>40 DEF Dies
    <2>2. CASE stage \in {"LINT", "FIX"}
        BY <2>1, <2>2
    <2>3. CASE phase # "idle" /\ UNCHANGED work
        BY <1>40, <2>1, <2>3 DEF Dies
    <2> QED BY <1>40, <2>2, <2>3 DEF Dies, Committed
<1>41. CASE BaseAdvances
    BY <1>41 DEF BaseAdvances
<1>42. CASE RequeueTransient
    BY <1>42 DEF RequeueTransient
<1>43. CASE RequeueStale
    BY <1>43 DEF RequeueStale
<1>44. CASE RequeueNoDiff
    BY <1>44 DEF RequeueNoDiff
<1>45. CASE RequeueGate
    <2>1. stage = "FIX" /\ failure \in {"lint", "collision", "delta"}
        BY <1>45 DEF RequeueGate, Shape
    <2>2. stage' \in {"LINT", "BUILD", "MERGE_VERIFY"}
        BY <1>45, <2>1 DEF RequeueGate, GateStage
    <2> QED BY <1>45, <2>2 DEF RequeueGate
<1>46. CASE Reconcile
    BY <1>46 DEF Reconcile, Finishes
<1>47. CASE OperatorRequeue
    BY <1>47 DEF OperatorRequeue
<1>48. CASE UNCHANGED vars
    BY <1>48 DEF vars
<1> QED
    BY <1>1, <1>2, <1>3, <1>4, <1>5, <1>6, <1>7, <1>8, <1>9, <1>10, <1>11, <1>12,
       <1>13, <1>14, <1>15, <1>16, <1>17, <1>18, <1>19, <1>20, <1>21, <1>22, <1>23, <1>24,
       <1>25, <1>26, <1>27, <1>28, <1>29, <1>30, <1>31, <1>32, <1>33, <1>34, <1>35, <1>36,
       <1>37, <1>38, <1>39, <1>40, <1>41, <1>42, <1>43, <1>44, <1>45, <1>46, <1>47, <1>48,
          <1>49
    DEF Next, Advance, Merge, Disturb, Janitor

\* What lands was tested as it landed, unless the base moved under the squash
\* merge: if the merge handler does not die between absorbing the base and
\* validating it, and no operator sends a job past its tests (merge.run,
\* post-merge validation).
THEOREM WhatLandsWasTested ==
    ASSUME RequeueStages \cap {"TEST", "REVIEW", "SECURITY", "DESIGN_REVIEW"} = {},
           ~DiesMidMerge
    PROVE  Spec => []LandedTested
<1>1. Init => TestsHeld
    BY DEF Init, TestsHeld, LandedTested
<1>2. TypeOK /\ Shape /\ TestsHeld /\ [Next]_vars => TestsHeld'
    BY NextTests
<1>3. TestsHeld => LandedTested
    BY DEF TestsHeld
<1> QED
    BY <1>1, <1>2, <1>3, Sound, PTL DEF Spec

-----------------------------------------------------------------------------
(* DONE *)

\* Every step keeps DEPLOY and DONE behind a landing.
LEMMA NextLanding ==
    ASSUME "DEPLOY" \notin RequeueStages,
           Shape, LandingHeld, [Next]_vars
    PROVE  LandingHeld'
<1> USE DEF Landings, LandingHeld, DoneMeansLanded, At, Moves, Fails, Aborts, Passes,
    budgets, record, verdicts, work, world, merge, RequeueAt
<1>1. CASE Plan
    BY <1>1 DEF Plan
<1>2. CASE PlanSplits
    BY <1>2 DEF PlanSplits
<1>3. CASE PlanFails
    BY <1>3 DEF PlanFails
<1>4. CASE Build
    BY <1>4 DEF Build, Fresh, Unjudged
<1>5. CASE BuildNothing
    <2>1. phase' = phase /\ phase # "landed" /\ stage' # "DEPLOY"
        BY <1>5 DEF BuildNothing, Fresh, Unjudged, Shape
    <2> QED BY <1>5, <2>1 DEF BuildNothing, Fresh, Unjudged
<1>6. CASE BuildFails
    BY <1>6 DEF BuildFails, Fresh, Unjudged
<1>7. CASE LintPasses
    BY <1>7 DEF LintPasses, LintFixes, Authored, Unjudged
<1>8. CASE LintFails
    BY <1>8 DEF LintFails, LintFixes, Authored, Unjudged, RetryOrFail
<1>9. CASE LintWithoutTree
    BY <1>9 DEF LintWithoutTree
<1>10. CASE TestPasses
    BY <1>10 DEF TestPasses
<1>11. CASE TestFails
    BY <1>11 DEF TestFails, RetryOrFail
<1>12. CASE TestWithoutTree
    BY <1>12 DEF TestWithoutTree
<1>13. CASE Review
    BY <1>13 DEF Review, Approves, RetryOrFail
<1>14. CASE Security
    BY <1>14 DEF Security, Approves, RetryOrFail
<1>15. CASE DesignReview
    BY <1>15 DEF DesignReview, Approves, RetryOrFail
<1>16. CASE MergeVerifyPasses
    BY <1>16 DEF MergeVerifyPasses
<1>17. CASE MergeVerifyFails
    BY <1>17 DEF MergeVerifyFails, RetryOrFail
<1>18. CASE FixCommits
    BY <1>18 DEF FixCommits, FixWork, Authored, Unjudged
<1>19. CASE FixPushFails
    BY <1>19 DEF FixPushFails, FixWork, Authored, Unjudged
<1>20. CASE FixNothing
    BY <1>20 DEF FixNothing
<1>21. CASE FixWithoutTree
    BY <1>21 DEF FixWithoutTree
<1>22. CASE MergeBegins
    BY <1>22 DEF MergeBegins
<1>23. CASE Absorb
    BY <1>23 DEF Absorb, Absorbing, Behind, TakesBase, Joins
<1>24. CASE AbsorbConflicts
    BY <1>24 DEF AbsorbConflicts, Absorbing, TakesBase, Behind, RebaseConflict
<1>25. CASE AbsorbWithoutTree
    BY <1>25 DEF AbsorbWithoutTree, Absorbing, RebaseConflict
<1>26. CASE MergeReady
    BY <1>26 DEF MergeReady, Absorbing, Behind
<1>27. CASE ValidationOverlaps
    BY <1>27 DEF ValidationOverlaps, Absorbing, Behind, RebaseConflict
<1>28. CASE ValidationFails
    BY <1>28 DEF ValidationFails, Absorbing, Behind, RetryOrFail
<1>29. CASE Squash
    BY <1>29 DEF Squash, Lands, LandedAs, Landing
<1>30. CASE LandingFails
    BY <1>30 DEF LandingFails, Untyped, Landing
<1>31. CASE PhantomLands
    BY <1>31 DEF PhantomLands, Lands, LandedAs, Remerged, Joins, Landing
<1>32. CASE PhantomFails
    BY <1>32 DEF PhantomFails, Remerged, Joins, Untyped, Landing
<1>33. CASE PhantomRetries
    BY <1>33 DEF PhantomRetries, Untyped, Landing
<1>34. CASE LandingConflicts
    BY <1>34 DEF LandingConflicts, RebaseConflict, Landing
<1>35. CASE MergeEnds
    BY <1>35 DEF MergeEnds
<1>36. CASE Deploy
    BY <1>36 DEF Deploy, Finishes
<1>37. CASE DeployVerified
    <2>1. stage = "DEPLOY" /\ landed' = landed /\ phase' = phase
        BY <1>37 DEF DeployVerified, Finishes, Shape
    <2> QED BY <1>37, <2>1 DEF DeployVerified, Finishes
<1>49. CASE DeployErrs
    <2>1. stage = "DEPLOY" /\ landed' = landed /\ phase' = phase
        BY <1>49 DEF DeployErrs, Shape
    <2> QED BY <1>49, <2>1 DEF DeployErrs
<1>38. CASE TimesOut
    BY <1>38 DEF TimesOut, Smaller
<1>39. CASE Errs
    BY <1>39 DEF Errs, Committed, FixWork, Authored, Unjudged, Fresh, HalfMerged
<1>40. CASE Dies
    BY <1>40 DEF Dies, Committed, FixWork, Authored, Unjudged, HalfMerged
<1>41. CASE BaseAdvances
    BY <1>41 DEF BaseAdvances
<1>42. CASE RequeueTransient
    BY <1>42 DEF RequeueTransient
<1>43. CASE RequeueStale
    BY <1>43 DEF RequeueStale
<1>44. CASE RequeueNoDiff
    BY <1>44 DEF RequeueNoDiff
<1>45. CASE RequeueGate
    <2>1. stage = "FIX" /\ failure \in {"lint", "collision", "delta"}
        BY <1>45 DEF RequeueGate, Shape
    <2>2. stage' \in {"LINT", "BUILD", "MERGE_VERIFY"}
        BY <1>45, <2>1 DEF RequeueGate, GateStage
    <2>3. phase' = phase /\ landed' = landed
        BY <1>45 DEF RequeueGate
    <2> QED BY <1>45, <2>2, <2>3 DEF RequeueGate
<1>46. CASE Reconcile
    BY <1>46 DEF Reconcile, Finishes
<1>47. CASE OperatorRequeue
    BY <1>47 DEF OperatorRequeue
<1>48. CASE UNCHANGED vars
    BY <1>48 DEF vars
<1> QED
    BY <1>1, <1>2, <1>3, <1>4, <1>5, <1>6, <1>7, <1>8, <1>9, <1>10, <1>11, <1>12,
       <1>13, <1>14, <1>15, <1>16, <1>17, <1>18, <1>19, <1>20, <1>21, <1>22, <1>23, <1>24,
       <1>25, <1>26, <1>27, <1>28, <1>29, <1>30, <1>31, <1>32, <1>33, <1>34, <1>35, <1>36,
       <1>37, <1>38, <1>39, <1>40, <1>41, <1>42, <1>43, <1>44, <1>45, <1>46, <1>47, <1>48,
          <1>49
    DEF Next, Advance, Merge, Disturb, Janitor

\* DONE is the landed pull request or the verified empty diff, if nobody requeues
\* a job at DEPLOY (merge.run, deploy.run, remediate_merged_but_stuck).
THEOREM DoneIsEarned ==
    ASSUME "DEPLOY" \notin RequeueStages
    PROVE  Spec => []DoneMeansLanded
<1>1. Init => LandingHeld
    BY DEF Init, LandingHeld, DoneMeansLanded
<1>2. Shape /\ LandingHeld /\ [Next]_vars => LandingHeld'
    BY NextLanding
<1>3. LandingHeld => DoneMeansLanded
    BY DEF LandingHeld
<1> QED
    BY <1>1, <1>2, <1>3, Sound, PTL DEF Spec

-----------------------------------------------------------------------------
(* Bounded self-healing *)

\* What Rank is, row by row.
RankTable ==
    /\ At("QUEUED") => Rank = 20
    /\ At("PLAN") /\ why # "nodiff" => Rank = 19
    /\ At("PLAN") /\ why = "nodiff" => Rank = 17
    /\ At("FIX") => Rank = 16
    /\ At("LINT") => Rank = 14
    /\ At("BUILD") => Rank = 13
    /\ At("TEST") => Rank = 12
    /\ At("REVIEW") => Rank = 11
    /\ At("MERGE_VERIFY") => Rank = 10
    /\ At("SECURITY") => Rank = 9
    /\ At("DESIGN_REVIEW") /\ phase = "idle" => Rank = 8
    /\ At("DESIGN_REVIEW") /\ phase = "absorb" => Rank = 7
    /\ At("DESIGN_REVIEW") /\ phase = "land" => Rank = 6
    /\ At("DESIGN_REVIEW") /\ phase = "landed" => Rank = 5
    /\ At("DEPLOY") => Rank = 4
    /\ status = "DEPLOYING" => Rank = 3
    /\ status = "FAILED" /\ why = "nodiff" => Rank = 18
    /\ status = "FAILED" /\ why = "nochange" => Rank = 15
    /\ status = "FAILED" /\ why = "deploy" => Rank = 2
    /\ status = "FAILED" /\ why \notin {"nodiff", "nochange", "deploy"} => Rank = 1
    /\ status \in {"DONE", "CANCELLED"} => Rank = 0

\* It is, in this state ...
LEMMA RankNow == RankTable
    BY DEF RankTable, Rank, At, StageRank, PhaseRank

\* ... and in the next.
LEMMA RankNext == RankTable'
    BY DEF RankTable, Rank, At, StageRank, PhaseRank

\* A job to be advanced is above all failures but those with a build or a gate ahead.
LEMMA PendingRank ==
    ASSUME TypeOK, Shape, status = "PENDING"
    PROVE Rank \in 4..20
<1>1. stage \in Stages \ {"DONE"} /\ phase \in {"idle", "absorb", "land", "landed"}
    BY DEF TypeOK, RowType, Shape
<1>2. stage \in {"QUEUED", "PLAN", "FIX", "LINT", "BUILD", "TEST", "REVIEW", "MERGE_VERIFY",
                 "SECURITY", "DESIGN_REVIEW", "DEPLOY"}
    BY <1>1 DEF Stages
<1>3. CASE stage = "PLAN"
    BY <1>3, RankNow DEF RankTable, At
<1>4. CASE stage = "DESIGN_REVIEW"
    BY <1>1, <1>4, RankNow DEF RankTable, At
<1>5. CASE stage \notin {"PLAN", "DESIGN_REVIEW"}
    BY <1>2, <1>5, RankNow DEF RankTable, At
<1> QED BY <1>3, <1>4, <1>5

\* Taking in the base is worth as much as the markers it may leave cost ...
LEMMA TakingBase ==
    ASSUME ~current, current'
    PROVE  Distance' <= Distance /\ (tree' # "markers" => Distance' < Distance)
    BY DEF Distance

\* ... and losing markers as much as the base that is lost with them.
LEMMA LosingMarkers ==
    ASSUME tree = "markers", tree' # "markers"
    PROVE  Distance' <= Distance /\ ((current => current') => Distance' < Distance)
    BY DEF Distance

\* Down the graph, nothing spent.
LEMMA LowerByRank ==
    ASSUME UNCHANGED <<requeues, budgets, crashes, advances>>, Distance' <= Distance,
           Rank' < Rank
    PROVE  Lower
<1>1. Requeuable' = Requeuable /\ Fuel' = Fuel /\ Quiet' = Quiet
    BY DEF Requeuable, Fuel, Quiet, budgets
<1>2. Distance' < Distance \/ Distance' = Distance
    BY DEF Distance
<1> QED BY <1>1, <1>2 DEF Lower

\* A fix, a rebase or a time-out.
LEMMA LowerByFuel ==
    ASSUME TypeOK, TypeOK', UNCHANGED requeues,
           \/ attempts' = attempts + 1 /\ UNCHANGED <<rebases, timeouts>>
           \/ rebases' = rebases + 1 /\ UNCHANGED <<attempts, timeouts>>
           \/ timeouts' = timeouts + 1 /\ UNCHANGED <<attempts, rebases>>
    PROVE  Lower
<1>1. Requeuable' = Requeuable
    BY DEF Requeuable
<1>2. /\ MaxFix \in Nat /\ MaxRebase \in Nat /\ MaxTimeouts \in Nat
      /\ attempts \in Nat /\ rebases \in Nat /\ timeouts \in Nat
    BY BudgetsAssumption DEF TypeOK, CountType
<1>3. Fuel' < Fuel
    BY <1>2 DEF Fuel
<1> QED BY <1>1, <1>3 DEF Lower

\* A requeue by the janitor.
LEMMA LowerByRequeue ==
    ASSUME TypeOK, requeues' = requeues + 1
    PROVE  Lower
    BY BudgetsAssumption DEF Lower, Requeuable, RequeueCap, TypeOK, CountType

\* A gate turns the job down.
LEMMA RetryLowers ==
    ASSUME TypeOK, TypeOK', Shape, status = "PENDING", Distance' <= Distance,
           NEW kind, NEW gate, RetryOrFail(kind, gate)
    PROVE  Lower
<1>1. CASE attempts' = attempts + 1
    BY <1>1, LowerByFuel DEF RetryOrFail
<1>2. CASE Fails("final") /\ UNCHANGED attempts
    <2>1. Rank' = 1
        BY <1>2, RankNext DEF RankTable, Fails
    <2>2. UNCHANGED <<requeues, budgets, crashes, advances>>
        BY <1>2 DEF RetryOrFail, budgets, world
    <2> QED BY <2>1, <2>2, PendingRank, LowerByRank
<1> QED BY <1>1, <1>2 DEF RetryOrFail

\* A conflict with the base.
LEMMA ConflictLowers ==
    ASSUME TypeOK, TypeOK', Shape, status = "PENDING", Distance' <= Distance, RebaseConflict
    PROVE  Lower
<1>1. CASE rebases' = rebases + 1
    BY <1>1, LowerByFuel DEF RebaseConflict
<1>2. CASE Fails("final") /\ UNCHANGED rebases
    <2>1. Rank' = 1
        BY <1>2, RankNext DEF RankTable, Fails
    <2>2. UNCHANGED <<requeues, budgets, crashes, advances>>
        BY <1>2 DEF RebaseConflict, budgets, world
    <2> QED BY <2>1, <2>2, PendingRank, LowerByRank
<1> QED BY <1>1, <1>2 DEF RebaseConflict

\* Every step but an operator's lowers the measure.
LEMMA NextLowers ==
    ASSUME TypeOK, TypeOK', Shape, [Next]_vars
    PROVE  OperatorRequeue \/ Lower \/ UNCHANGED vars
<1> USE DEF At, Moves, Fails, Aborts, Passes, budgets, record, verdicts, work, world,
    merge, RequeueAt
<1>1. CASE Plan
    <2>1. UNCHANGED <<requeues, budgets, crashes, advances>> /\ Distance' <= Distance
        BY <1>1 DEF Plan, Distance
    <2>2. Rank = 20 /\ Rank' = 19
        BY <1>1, RankNow, RankNext DEF Plan, RankTable
    <2> QED BY <2>1, <2>2, LowerByRank
<1>2. CASE PlanSplits
    <2>1. UNCHANGED <<requeues, budgets, crashes, advances>> /\ Distance' <= Distance
        BY <1>2 DEF PlanSplits, Distance
    <2>2. Rank = 20 /\ Rank' = 0
        BY <1>2, RankNow, RankNext DEF PlanSplits, RankTable
    <2> QED BY <2>1, <2>2, LowerByRank
<1>3. CASE PlanFails
    <2>1. UNCHANGED <<requeues, budgets, crashes, advances>> /\ Distance' <= Distance
        BY <1>3 DEF PlanFails, Distance
    <2>2. Rank = 20 /\ Rank' = 1
        BY <1>3, RankNow, RankNext DEF PlanFails, RankTable
    <2> QED BY <2>1, <2>2, LowerByRank
<1>4. CASE Build
    <2>1. UNCHANGED <<requeues, budgets, crashes, advances>> /\ Distance' <= Distance
        BY <1>4 DEF Build, Fresh, Unjudged, Distance
    <2>2. Rank \in {17, 19} /\ Rank' = 14
        BY <1>4, RankNow, RankNext DEF Build, Fresh, Unjudged, RankTable
    <2> QED BY <2>1, <2>2, LowerByRank
<1>5. CASE BuildNothing
    <2>1. UNCHANGED <<requeues, budgets, crashes, advances>> /\ Distance' <= Distance
        BY <1>5 DEF BuildNothing, Fresh, Unjudged, Distance
    <2>2. CASE why = "nodiff"
        <3>1. Rank = 17 /\ Rank' \in {0, 1}
            BY <1>5, <2>2, RankNow, RankNext DEF BuildNothing, Fresh, Unjudged, RankTable
        <3> QED BY <2>1, <3>1, LowerByRank
    <2>3. CASE why # "nodiff"
        <3>1. Rank = 19 /\ Rank' \in {0, 1, 18}
            BY <1>5, <2>3, RankNow, RankNext DEF BuildNothing, Fresh, Unjudged, RankTable
        <3> QED BY <2>1, <3>1, LowerByRank
    <2> QED BY <2>2, <2>3
<1>6. CASE BuildFails
    <2>1. UNCHANGED <<requeues, budgets, crashes, advances>> /\ Distance' <= Distance
        BY <1>6 DEF BuildFails, Fresh, Unjudged, Distance
    <2>2. Rank \in {17, 19} /\ Rank' = 1
        BY <1>6, RankNow, RankNext DEF BuildFails, Fresh, Unjudged, RankTable
    <2> QED BY <2>1, <2>2, LowerByRank
<1>7. CASE LintPasses
    <2>1. UNCHANGED <<requeues, budgets, crashes, advances>> /\ Distance' <= Distance
        BY <1>7 DEF LintPasses, LintFixes, Authored, Unjudged, Distance
    <2>2. Rank = 14 /\ Rank' = 13
        BY <1>7, RankNow, RankNext DEF LintPasses, LintFixes, Authored, Unjudged, RankTable
    <2> QED BY <2>1, <2>2, LowerByRank
<1>8. CASE LintFails
    <2>1. status = "PENDING" /\ Distance' <= Distance
        BY <1>8 DEF LintFails, LintFixes, Authored, Unjudged, Distance
    <2>2. PICK kind \in Kinds, gate \in BOOLEAN : RetryOrFail(kind, gate)
        BY <1>8 DEF LintFails, LintFixes, Authored, Unjudged, Kinds
    <2> QED BY <2>1, <2>2, RetryLowers
<1>9. CASE LintWithoutTree
    <2>1. UNCHANGED <<requeues, budgets, crashes, advances>> /\ Distance' <= Distance
        BY <1>9 DEF LintWithoutTree, Distance
    <2>2. Rank = 14 /\ Rank' = 1
        BY <1>9, RankNow, RankNext DEF LintWithoutTree, RankTable
    <2> QED BY <2>1, <2>2, LowerByRank
<1>10. CASE TestPasses
    <2>1. UNCHANGED <<requeues, budgets, crashes, advances>> /\ Distance' <= Distance
        BY <1>10 DEF TestPasses, Distance
    <2>2. Rank = 13 /\ Rank' = 12
        BY <1>10, RankNow, RankNext DEF TestPasses, RankTable
    <2> QED BY <2>1, <2>2, LowerByRank
<1>11. CASE TestFails
    <2>1. status = "PENDING" /\ Distance' <= Distance
        BY <1>11 DEF TestFails, Distance
    <2>2. PICK kind \in Kinds, gate \in BOOLEAN : RetryOrFail(kind, gate)
        BY <1>11 DEF TestFails, Kinds
    <2> QED BY <2>1, <2>2, RetryLowers
<1>12. CASE TestWithoutTree
    <2>1. UNCHANGED <<requeues, budgets, crashes, advances>> /\ Distance' <= Distance
        BY <1>12 DEF TestWithoutTree, Distance
    <2>2. Rank = 13 /\ Rank' = 1
        BY <1>12, RankNow, RankNext DEF TestWithoutTree, RankTable
    <2> QED BY <2>1, <2>2, LowerByRank
<1>13. CASE Review
    <2>1. status = "PENDING" /\ Distance' <= Distance
        BY <1>13 DEF Review, Approves, RetryOrFail, Distance
    <2>2. CASE Approves("review", "REVIEW")
        <3>1. Rank = 12 /\ Rank' = 11 /\ UNCHANGED <<requeues, budgets, crashes, advances>>
            BY <1>13, <2>2, RankNow, RankNext, Shape DEF Review, Approves, RankTable, Shape
        <3> QED BY <2>1, <3>1, LowerByRank
    <2>3. CASE \E flag \in BOOLEAN : RetryOrFail("other", flag)
        BY <2>1, <2>3, RetryLowers
    <2> QED BY <1>13, <2>2, <2>3 DEF Review
<1>14. CASE Security
    <2>1. status = "PENDING" /\ Distance' <= Distance
        BY <1>14 DEF Security, Approves, RetryOrFail, Distance
    <2>2. CASE Approves("security", "SECURITY")
        <3>1. Rank = 11 /\ Rank' = 9 /\ UNCHANGED <<requeues, budgets, crashes, advances>>
            BY <1>14, <2>2, RankNow, RankNext, Shape DEF Security, Approves, RankTable,
                Shape
        <3> QED BY <2>1, <3>1, LowerByRank
    <2>3. CASE \E flag \in BOOLEAN : RetryOrFail("other", flag)
        BY <2>1, <2>3, RetryLowers
    <2> QED BY <1>14, <2>2, <2>3 DEF Security
<1>15. CASE DesignReview
    <2>1. status = "PENDING" /\ Distance' <= Distance
        BY <1>15 DEF DesignReview, Approves, RetryOrFail, Distance
    <2>2. CASE Approves("design", "DESIGN_REVIEW")
        <3>1. Rank = 9 /\ Rank' = 8 /\ UNCHANGED <<requeues, budgets, crashes, advances>>
            BY <1>15, <2>2, RankNow, RankNext, Shape DEF DesignReview, Approves,
                RankTable, Shape
        <3> QED BY <2>1, <3>1, LowerByRank
    <2>3. CASE \E flag \in BOOLEAN : RetryOrFail("other", flag)
        BY <2>1, <2>3, RetryLowers
    <2> QED BY <1>15, <2>2, <2>3 DEF DesignReview
<1>16. CASE MergeVerifyPasses
    <2>1. UNCHANGED <<requeues, budgets, crashes, advances>> /\ Distance' <= Distance
        BY <1>16 DEF MergeVerifyPasses, Distance
    <2>2. Rank = 10 /\ Rank' = 9
        BY <1>16, RankNow, RankNext DEF MergeVerifyPasses, RankTable
    <2> QED BY <2>1, <2>2, LowerByRank
<1>17. CASE MergeVerifyFails
    <2>1. status = "PENDING" /\ Distance' <= Distance
        BY <1>17 DEF MergeVerifyFails, Distance
    <2>2. PICK kind \in Kinds, gate \in BOOLEAN : RetryOrFail(kind, gate)
        BY <1>17 DEF MergeVerifyFails, Kinds
    <2> QED BY <2>1, <2>2, RetryLowers
<1>18. CASE FixCommits
    <2>1. UNCHANGED <<requeues, budgets, crashes, advances>> /\ Distance' <= Distance
        BY <1>18 DEF FixCommits, FixWork, Authored, Unjudged, Distance
    <2>2. Rank = 16 /\ Rank' \in {10, 14}
        BY <1>18, RankNow, RankNext DEF FixCommits, FixWork, Authored, Unjudged, RankTable
    <2> QED BY <2>1, <2>2, LowerByRank
<1>19. CASE FixPushFails
    <2>1. UNCHANGED <<requeues, budgets, crashes, advances>> /\ Distance' <= Distance
        BY <1>19 DEF FixPushFails, FixWork, Authored, Unjudged, Distance
    <2>2. Rank = 16 /\ Rank' = 1
        BY <1>19, RankNow, RankNext DEF FixPushFails, FixWork, Authored, Unjudged, RankTable
    <2> QED BY <2>1, <2>2, LowerByRank
<1>20. CASE FixNothing
    <2>1. UNCHANGED <<requeues, budgets, crashes, advances>> /\ Distance' <= Distance
        BY <1>20 DEF FixNothing, Distance
    <2>2. Rank = 16 /\ Rank' \in {1, 15}
        BY <1>20, RankNow, RankNext DEF FixNothing, RankTable
    <2> QED BY <2>1, <2>2, LowerByRank
<1>21. CASE FixWithoutTree
    <2>1. UNCHANGED <<requeues, budgets, crashes, advances>> /\ Distance' <= Distance
        BY <1>21 DEF FixWithoutTree, Distance
    <2>2. Rank = 16 /\ Rank' = 1
        BY <1>21, RankNow, RankNext DEF FixWithoutTree, RankTable
    <2> QED BY <2>1, <2>2, LowerByRank
<1>22. CASE MergeBegins
    <2>1. UNCHANGED <<requeues, budgets, crashes, advances>> /\ Distance' <= Distance
        BY <1>22 DEF MergeBegins, Distance
    <2>2. Rank = 8 /\ Rank' = 7
        BY <1>22, RankNow, RankNext DEF MergeBegins, RankTable
    <2> QED BY <2>1, <2>2, LowerByRank
<1>23. CASE Absorb
    <2>1. Distance' < Distance
        <3>1. tree' = "clean" /\ TakesBase
            BY <1>23 DEF Absorb
        <3>2. (tree = "clean" /\ ~current) \/ tree = "markers"
            BY <1>23 DEF Absorb, Behind, TypeOK, WorkType
        <3>3. CASE tree = "clean" /\ ~current
            <4>1. current'
                BY <3>1, <3>3 DEF TakesBase
            <4> QED BY <3>1, <3>3, <4>1, TakingBase
        <3>4. CASE tree = "markers"
            <4>1. current => current'
                BY <3>1 DEF TakesBase
            <4> QED BY <3>1, <3>4, <4>1, LosingMarkers
        <3> QED BY <3>2, <3>3, <3>4
    <2>2. UNCHANGED <<requeues, budgets, crashes, advances>>
        BY <1>23 DEF Absorb, Absorbing, Behind, TakesBase, Joins
    <2>3. Requeuable' = Requeuable /\ Fuel' = Fuel /\ Quiet' = Quiet
        BY <2>2 DEF Requeuable, Fuel, Quiet
    <2> QED BY <2>1, <2>3 DEF Lower
<1>24. CASE AbsorbConflicts
    <2>1. status = "PENDING" /\ tree' = "markers" /\ TakesBase /\ RebaseConflict
        BY <1>24 DEF AbsorbConflicts, Absorbing
    <2>2. (tree = "clean" /\ ~current) \/ tree = "markers"
        BY <1>24 DEF AbsorbConflicts, Behind, TypeOK, WorkType
    <2>3. Distance' <= Distance
        <3>1. CASE tree = "clean" /\ ~current
            <4>1. current'
                BY <2>1, <3>1 DEF TakesBase
            <4> QED BY <3>1, <4>1, TakingBase
        <3>2. CASE tree = "markers"
            <4>1. current => current'
                BY <2>1 DEF TakesBase
            <4> QED BY <2>1, <3>2, <4>1 DEF Distance
        <3> QED BY <2>2, <3>1, <3>2
    <2> QED BY <2>1, <2>3, ConflictLowers
<1>25. CASE AbsorbWithoutTree
    <2>1. status = "PENDING" /\ Distance' <= Distance /\ RebaseConflict
        BY <1>25 DEF AbsorbWithoutTree, Absorbing, Distance
    <2> QED BY <2>1, ConflictLowers
<1>26. CASE MergeReady
    <2>1. UNCHANGED <<requeues, budgets, crashes, advances>> /\ Distance' <= Distance
        BY <1>26 DEF MergeReady, Absorbing, Behind, Distance
    <2>2. Rank = 7 /\ Rank' = 6
        BY <1>26, RankNow, RankNext DEF MergeReady, Absorbing, Behind, RankTable
    <2> QED BY <2>1, <2>2, LowerByRank
<1>27. CASE ValidationOverlaps
    <2>1. status = "PENDING" /\ Distance' <= Distance /\ RebaseConflict
        BY <1>27 DEF ValidationOverlaps, Absorbing, Behind, Distance
    <2> QED BY <2>1, ConflictLowers
<1>28. CASE ValidationFails
    <2>1. status = "PENDING" /\ Distance' <= Distance
        BY <1>28 DEF ValidationFails, Absorbing, Behind, Distance
    <2>2. PICK kind \in Kinds, gate \in BOOLEAN : RetryOrFail(kind, gate)
        BY <1>28 DEF ValidationFails, Absorbing, Behind, Kinds
    <2> QED BY <2>1, <2>2, RetryLowers
<1>29. CASE Squash
    <2>1. UNCHANGED <<requeues, budgets, crashes, advances>> /\ Distance' <= Distance
        BY <1>29 DEF Squash, Lands, LandedAs, Landing, Distance
    <2>2. Rank = 6 /\ Rank' = 5
        BY <1>29, RankNow, RankNext DEF Squash, Lands, LandedAs, Landing, RankTable
    <2> QED BY <2>1, <2>2, LowerByRank
<1>30. CASE LandingFails
    <2>1. UNCHANGED <<requeues, budgets, crashes, advances>> /\ Distance' <= Distance
        BY <1>30 DEF LandingFails, Untyped, Landing, Distance
    <2>2. Rank = 6 /\ Rank' = 1
        BY <1>30, RankNow, RankNext DEF LandingFails, Untyped, Landing, RankTable
    <2> QED BY <2>1, <2>2, LowerByRank
<1>31. CASE PhantomLands
    <2>1. UNCHANGED <<requeues, budgets, crashes, advances>> /\ Distance' <= Distance
        BY <1>31 DEF PhantomLands, Lands, LandedAs, Remerged, Joins, Landing, Distance
    <2>2. Rank = 6 /\ Rank' = 5
        BY <1>31, RankNow, RankNext DEF PhantomLands, Lands, LandedAs, Remerged, Joins,
           Landing,
            RankTable
    <2> QED BY <2>1, <2>2, LowerByRank
<1>32. CASE PhantomFails
    <2>1. UNCHANGED <<requeues, budgets, crashes, advances>> /\ Distance' <= Distance
        BY <1>32 DEF PhantomFails, Remerged, Joins, Untyped, Landing, Distance
    <2>2. Rank = 6 /\ Rank' = 1
        BY <1>32, RankNow, RankNext DEF PhantomFails, Remerged, Joins, Untyped, Landing,
           RankTable
    <2> QED BY <2>1, <2>2, LowerByRank
<1>33. CASE PhantomRetries
    <2>1. status = "PENDING" /\ Distance' <= Distance
        BY <1>33 DEF PhantomRetries, Untyped, Landing, Distance
    <2>2. CASE rebases' = rebases + 1
        BY <1>33, <2>2, LowerByFuel DEF PhantomRetries, Untyped, Landing
    <2>3. CASE UNCHANGED rebases
        <3>1. rebases = MaxRebase
            BY <1>33, <2>3, BudgetsAssumption DEF PhantomRetries, Untyped, Landing,
                TypeOK, CountType
        <3>2. Rank' = 1
            BY <1>33, <3>1, RankNext, BudgetsAssumption DEF PhantomRetries, Untyped,
                Landing, RankTable
        <3>3. UNCHANGED <<requeues, budgets, crashes, advances>>
            BY <1>33, <2>3 DEF PhantomRetries, Untyped, Landing
        <3> QED BY <2>1, <3>2, <3>3, PendingRank, LowerByRank
    <2>4. rebases' = rebases + 1 \/ UNCHANGED rebases
        BY <1>33, BudgetsAssumption DEF PhantomRetries, Untyped, Landing, TypeOK, CountType
    <2> QED BY <2>2, <2>3, <2>4
<1>34. CASE LandingConflicts
    <2>1. status = "PENDING" /\ Distance' <= Distance /\ RebaseConflict
        BY <1>34 DEF LandingConflicts, Landing, Distance
    <2> QED BY <2>1, ConflictLowers
<1>35. CASE MergeEnds
    <2>1. UNCHANGED <<requeues, budgets, crashes, advances>> /\ Distance' <= Distance
        BY <1>35 DEF MergeEnds, Distance
    <2>2. Rank = 5 /\ Rank' = 4
        BY <1>35, RankNow, RankNext DEF MergeEnds, RankTable
    <2> QED BY <2>1, <2>2, LowerByRank
<1>36. CASE Deploy
    <2>1. UNCHANGED <<requeues, budgets, crashes, advances>> /\ Distance' <= Distance
        BY <1>36 DEF Deploy, Finishes, Distance
    <2>2. Rank = 4 /\ Rank' \in {0, 2, 3}
        BY <1>36, RankNow, RankNext DEF Deploy, Finishes, RankTable
    <2> QED BY <2>1, <2>2, LowerByRank
<1>37. CASE DeployVerified
    <2>1. UNCHANGED <<requeues, budgets, crashes, advances>> /\ Distance' <= Distance
        BY <1>37 DEF DeployVerified, Finishes, Distance
    <2>2. Rank = 3 /\ Rank' = 0
        BY <1>37, RankNow, RankNext DEF DeployVerified, Finishes, RankTable
    <2> QED BY <2>1, <2>2, LowerByRank
<1>49. CASE DeployErrs
    <2>1. UNCHANGED <<requeues, budgets, crashes, advances>> /\ Distance' <= Distance
        BY <1>49 DEF DeployErrs, Distance
    <2>2. Rank = 3 /\ Rank' = 1
        BY <1>49, RankNow, RankNext DEF DeployErrs, RankTable
    <2> QED BY <2>1, <2>2, LowerByRank
<1>38. CASE TimesOut
    <2>1. status = "PENDING" /\ Distance' <= Distance
        <3>1. tree' # "markers"
            BY <1>38 DEF TimesOut
        <3>2. status = "PENDING"
            BY <1>38 DEF TimesOut
        <3>3. CASE tree = "markers"
            BY <3>1, <3>2, <3>3, LosingMarkers
        <3>4. CASE tree # "markers"
            <4>1. current' = (current /\ tree # "markers")
                BY <1>38 DEF TimesOut
            <4>2. current => current'
                BY <3>4, <4>1
            <4> QED BY <3>1, <3>2, <3>4, <4>2 DEF Distance
        <3> QED BY <3>3, <3>4
    <2>2. CASE timeouts' = timeouts + 1
        BY <1>38, <2>2, LowerByFuel DEF TimesOut, Smaller
    <2>3. CASE UNCHANGED timeouts
        <3>1. timeouts = MaxTimeouts
            BY <1>38, <2>3, BudgetsAssumption DEF TimesOut, Smaller, TypeOK, CountType
        <3>2. Rank' = 1
            BY <1>38, <3>1, RankNext, BudgetsAssumption DEF TimesOut, Smaller, RankTable
        <3>3. UNCHANGED <<requeues, budgets, crashes, advances>>
            BY <1>38, <2>3 DEF TimesOut, Smaller
        <3> QED BY <2>1, <3>2, <3>3, PendingRank, LowerByRank
    <2>4. timeouts' = timeouts + 1 \/ UNCHANGED timeouts
        BY <1>38, BudgetsAssumption DEF TimesOut, Smaller, TypeOK, CountType
    <2> QED BY <2>2, <2>3, <2>4
<1>39. CASE Errs
    <2>1. UNCHANGED <<requeues, budgets, crashes, advances>>
        BY <1>39 DEF Errs
    <2>2. Distance' <= Distance
        <3>1. CASE UNCHANGED work
            BY <3>1 DEF Distance
        <3>2. CASE Committed
            <4>1. tree' = "clean" /\ current' = current
                BY <3>2 DEF Committed, FixWork, Authored
            <4> QED BY <4>1 DEF Distance
        <3>3. CASE \E t \in {"none", "clean"} : Fresh(t)
            BY <3>3 DEF Fresh, Distance
        <3> QED BY <1>39, <3>1, <3>2, <3>3 DEF Errs
    <2>3. status = "PENDING" /\ Rank' = 1
        BY <1>39, RankNext DEF Errs, RankTable
    <2> QED BY <2>1, <2>2, <2>3, PendingRank, LowerByRank
<1>40. CASE Dies
    <2>1. Requeuable' = Requeuable /\ Fuel' = Fuel
        BY <1>40 DEF Dies, Requeuable, Fuel
    <2>2. Quiet' < Quiet
        BY <1>40, BudgetsAssumption DEF Dies, Quiet, TypeOK, CountType
    <2> QED BY <2>1, <2>2 DEF Lower
<1>41. CASE BaseAdvances
    <2>1. Requeuable' = Requeuable /\ Fuel' = Fuel
        BY <1>41 DEF BaseAdvances, Requeuable, Fuel
    <2>2. Quiet' < Quiet
        BY <1>41, BudgetsAssumption DEF BaseAdvances, Quiet, TypeOK, CountType
    <2> QED BY <2>1, <2>2 DEF Lower
<1>42. CASE RequeueTransient
    BY <1>42, LowerByRequeue DEF RequeueTransient
<1>43. CASE RequeueStale
    BY <1>43, LowerByRequeue DEF RequeueStale
<1>44. CASE RequeueNoDiff
    <2>1. UNCHANGED <<requeues, budgets, crashes, advances>> /\ Distance' <= Distance
        BY <1>44 DEF RequeueNoDiff, Distance
    <2>2. Rank = 18 /\ Rank' = 17
        BY <1>44, RankNow, RankNext DEF RequeueNoDiff, RankTable
    <2> QED BY <2>1, <2>2, LowerByRank
<1>45. CASE RequeueGate
    <2>1. CASE requeues' = requeues + 1
        BY <2>1, LowerByRequeue
    <2>2. CASE UNCHANGED requeues
        <3>1. failure \in {"lint", "collision", "delta"}
            BY <1>45 DEF RequeueGate, Shape
        <3>2. Rank = 15 /\ Rank' \in {10, 13, 14}
            BY <1>45, <3>1, RankNow, RankNext DEF RequeueGate, GateStage, RankTable
        <3>3. UNCHANGED <<requeues, budgets, crashes, advances>> /\ Distance' <= Distance
            BY <1>45, <2>2 DEF RequeueGate, Distance
        <3> QED BY <3>2, <3>3, LowerByRank
    <2> QED BY <1>45, <2>1, <2>2 DEF RequeueGate
<1>46. CASE Reconcile
    <2>1. UNCHANGED <<requeues, budgets, crashes, advances>> /\ Distance' <= Distance
        BY <1>46 DEF Reconcile, Finishes, Distance
    <2>2. Rank = 2 /\ Rank' = 0
        BY <1>46, RankNow, RankNext DEF Reconcile, Finishes, RankTable
    <2> QED BY <2>1, <2>2, LowerByRank
<1>47. CASE OperatorRequeue
    BY <1>47
<1>48. CASE UNCHANGED vars
    BY <1>48
<1> QED
    BY <1>1, <1>2, <1>3, <1>4, <1>5, <1>6, <1>7, <1>8, <1>9, <1>10, <1>11, <1>12,
       <1>13, <1>14, <1>15, <1>16, <1>17, <1>18, <1>19, <1>20, <1>21, <1>22, <1>23, <1>24,
       <1>25, <1>26, <1>27, <1>28, <1>29, <1>30, <1>31, <1>32, <1>33, <1>34, <1>35, <1>36,
       <1>37, <1>38, <1>39, <1>40, <1>41, <1>42, <1>43, <1>44, <1>45, <1>46, <1>47, <1>48,
          <1>49
    DEF Next, Advance, Merge, Disturb, Janitor

\* For all budgets and caps: every step of workers, janitor and environment lowers
\* a well-founded measure, so between two requeues by an operator a job takes
\* finitely many steps (_retry_or_fail, _rebase_conflict, _timed_out, remediate_*).
THEOREM SelfHealingIsBounded == Spec => Progress
<1>1. TypeOK /\ Shape /\ TypeOK' /\ [Next]_vars => [OperatorRequeue \/ Lower]_vars
    BY NextLowers
<1> QED
    BY <1>1, Sound, PTL DEF Spec, Progress

-----------------------------------------------------------------------------
(* The pipeline implements the table *)

\* What a step makes of the row.
RowStep ==
    \/ UNCHANGED <<stage, status>>
    \/ /\ status = "PENDING" /\ status' = "PENDING"
       /\ stage' \in StageGraph[stage] \ {"DONE"}
    \/ /\ status = "PENDING" /\ status' = "DONE"
       /\ "DONE" \in StageGraph[stage] /\ stage' = "DONE"
    \/ /\ status = "PENDING" /\ status' = "DEPLOYING"
       /\ stage = "DEPLOY" /\ stage' = stage
    \/ /\ status \in {"PENDING", "DEPLOYING"} /\ status' = "FAILED" /\ stage' = stage
    \/ /\ status = "PENDING" /\ status' = "CANCELLED" /\ stage' = stage
    \/ /\ status \in {"DEPLOYING", "FAILED"} /\ status' = "DONE" /\ stage' = "DONE"
    \/ /\ status = "FAILED" /\ status' = "PENDING" /\ stage' \in Stages \ {"DONE"}

\* The graph is that of the handlers.
LEMMA NextRow ==
    ASSUME TypeOK, Shape, [Next]_vars
    PROVE  RowStep
<1> USE DEF RowStep, StageGraph, At, Moves, Fails, Aborts, Passes
<1>1. CASE Plan \/ PlanSplits \/ PlanFails \/ Build \/ BuildNothing \/ BuildFails
    BY <1>1 DEF Plan, PlanSplits, PlanFails, Build, BuildNothing, BuildFails
<1>2. CASE \/ LintPasses \/ LintFails \/ LintWithoutTree
           \/ TestPasses \/ TestFails \/ TestWithoutTree
    BY <1>2 DEF LintPasses, LintFails, LintWithoutTree, TestPasses, TestFails,
       TestWithoutTree, RetryOrFail
<1>3. CASE \/ Review \/ Security \/ DesignReview \/ MergeVerifyPasses \/ MergeVerifyFails
    BY <1>3 DEF Review, Security, DesignReview, MergeVerifyPasses, MergeVerifyFails,
       Approves, RetryOrFail
<1>4. CASE FixCommits \/ FixPushFails \/ FixNothing \/ FixWithoutTree
    BY <1>4 DEF FixCommits, FixPushFails, FixNothing, FixWithoutTree
<1>5. CASE Merge
  <2>1. CASE MergeBegins \/ Absorb \/ MergeReady \/ Squash \/ MergeEnds
      BY <2>1 DEF Landing, Absorbing, MergeBegins, Absorb, MergeReady, Squash, Lands,
         MergeEnds
  <2>2. CASE \/ AbsorbConflicts \/ AbsorbWithoutTree \/ ValidationOverlaps
             \/ LandingConflicts
      BY <2>2 DEF Landing, Absorbing, AbsorbConflicts, AbsorbWithoutTree,
         ValidationOverlaps,
         LandingConflicts, RebaseConflict
  <2>3. CASE ValidationFails \/ LandingFails
      BY <2>3 DEF Landing, Absorbing, ValidationFails, LandingFails, RetryOrFail
  <2>4. CASE PhantomLands
      BY <2>4 DEF Landing, PhantomLands, Lands
  <2>5. CASE PhantomFails \/ PhantomRetries
      BY <2>5 DEF Landing, PhantomFails, PhantomRetries
  <2> QED
      BY <1>5, <2>1, <2>2, <2>3, <2>4, <2>5 DEF Merge
<1>6. CASE Deploy \/ DeployVerified \/ Reconcile
    BY <1>6 DEF Deploy, DeployVerified, Reconcile, Finishes
<1>7. CASE Disturb
    BY <1>7 DEF Disturb, TimesOut, Errs, DeployErrs, Dies, BaseAdvances
<1>8. CASE RequeueTransient \/ RequeueStale \/ RequeueNoDiff \/ RequeueGate \/ OperatorRequeue
  <2>1. status = "FAILED" /\ status' = "PENDING"
      BY <1>8 DEF RequeueTransient, RequeueStale, RequeueNoDiff, RequeueGate,
         OperatorRequeue, RequeueAt
  <2>2. CASE RequeueTransient
      BY <2>1, <2>2 DEF RequeueTransient, RequeueAt, TypeOK, RowType, Shape, Stages
  <2>3. CASE RequeueStale \/ RequeueNoDiff
      BY <2>1, <2>3 DEF RequeueStale, RequeueNoDiff, RequeueAt, Stages
  <2>4. CASE RequeueGate
      BY <2>1, <2>4 DEF RequeueGate, RequeueAt, GateStage, Shape, Stages
  <2>5. CASE OperatorRequeue
      BY <2>1, <2>5, SwitchesAssumption DEF OperatorRequeue, RequeueAt
  <2> QED
      BY <1>8, <2>2, <2>3, <2>4, <2>5
<1>9. CASE UNCHANGED vars
    BY <1>9 DEF vars
<1> QED
    BY <1>1, <1>2, <1>3, <1>4, <1>5, <1>6, <1>7, <1>8, <1>9 DEF Next, Advance, Janitor

\* What JobQueue shows for any stage graph it shows for this one: the handlers,
\* the janitor and the operators of the pipeline are covered by the table.
THEOREM PipelineImplementsTheTable == Spec => ImplementsTable
<1> DEFINE it == "job"
<1>1. Init => Table!Init
    BY DEF Init, Table!Init, Stages
<1>2. ASSUME RowStep PROVE Table!Next \/ UNCHANGED Table!vars
  <2>1. CASE UNCHANGED <<stage, status>>
      BY <2>1 DEF Table!vars
  <2>2. Table!Becomes(it, status', stage')
      BY DEF Table!Becomes
  <2>3. CASE /\ status = "PENDING" /\ status' = "PENDING"
             /\ stage' \in StageGraph[stage] \ {"DONE"}
    <3>1. Table!Advance(it)
        BY <2>2, <2>3 DEF Table!Advance, Table!Becomes
    <3> QED
        BY <3>1 DEF Table!Next
  <2>4. CASE /\ status = "PENDING" /\ status' = "DONE"
             /\ "DONE" \in StageGraph[stage] /\ stage' = "DONE"
    <3>1. Table!Finish(it)
        BY <2>2, <2>4 DEF Table!Finish, Table!Becomes
    <3> QED
        BY <3>1 DEF Table!Next
  <2>5. CASE /\ status = "PENDING" /\ status' = "DEPLOYING"
             /\ stage = "DEPLOY" /\ stage' = stage
    <3>1. Table!Restart(it)
        BY <2>2, <2>5 DEF Table!Restart, Table!Becomes
    <3> QED
        BY <3>1 DEF Table!Next
  <2>6. CASE status \in {"PENDING", "DEPLOYING"} /\ status' = "FAILED" /\ stage' = stage
    <3>1. Table!Fail(it)
        BY <2>2, <2>6 DEF Table!Fail, Table!Becomes
    <3> QED
        BY <3>1 DEF Table!Next
  <2>7. CASE status = "PENDING" /\ status' = "CANCELLED" /\ stage' = stage
    <3>1. Table!Drop(it)
        BY <2>2, <2>7 DEF Table!Drop, Table!Becomes
    <3> QED
        BY <3>1 DEF Table!Next
  <2>8. CASE status \in {"DEPLOYING", "FAILED"} /\ status' = "DONE" /\ stage' = "DONE"
    <3>1. Table!Reconcile(it)
        BY <2>2, <2>8 DEF Table!Reconcile, Table!Becomes
    <3> QED
        BY <3>1 DEF Table!Next
  <2>9. CASE status = "FAILED" /\ status' = "PENDING" /\ stage' \in Stages \ {"DONE"}
    <3>1. Table!Requeue(it)
        BY <2>2, <2>9 DEF Table!Requeue, Table!Becomes
    <3> QED
        BY <3>1 DEF Table!Next
  <2> QED
      BY <1>2, <2>1, <2>3, <2>4, <2>5, <2>6, <2>7, <2>8, <2>9 DEF RowStep
<1>3. TypeOK /\ Shape /\ [Next]_vars => [Table!Next]_(Table!vars)
    BY <1>2, NextRow
<1> QED
    BY <1>1, <1>3, Sound, PTL DEF Spec, ImplementsTable, Table!Spec

=============================================================================
