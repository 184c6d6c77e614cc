---------------------------- MODULE MCJobGraph ----------------------------
(***************************************************************************)
(* JobGraph and SplitPlan for TLC: which jobs overlap, and whose files are *)
(* not known.                                                              *)
(***************************************************************************)
EXTENDS JobGraph, SplitPlan

\* Every two jobs overlap but the second and the third.
MostClash == {p \in Ids \X Ids : p[1] # p[2] /\ {p[1], p[2]} # {2, 3}}

\* Every two jobs overlap but the second and the fourth.
LateClash == {p \in Ids \X Ids : p[1] # p[2] /\ {p[1], p[2]} # {2, 4}}

\* Every two jobs overlap but the first and the second.
EarlyClash == {p \in Ids \X Ids : p[1] # p[2] /\ {p[1], p[2]} # {1, 2}}

\* SplitOrdered speaks of plans, not of states: it is looked at once, before the
\* first job is created.  _compute_split_chains, _split_from_saved_plan.
PlansSplitInOrder == made = 0 => SplitOrdered

=============================================================================
