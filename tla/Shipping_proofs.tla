-------------------------- MODULE Shipping_proofs --------------------------
(***************************************************************************)
(* Landing and deploying for every set of jobs, slots and environments,    *)
(* every TTL and every bound.                                              *)
(*                                                                         *)
(* Landing: types, one merger, no landing missed, schema changes in order. *)
(* The locks are what makes these true, and they only do while their       *)
(* holder has not outlived them: each invariant says that whoever is in    *)
(* the section owns the row and the row is not stale.                      *)
(*                                                                         *)
(* Deploys: types, one deploy under the lock of an environment, and a job  *)
(* that is done is in service.  The first rests on the row: a handler in   *)
(* the section owns the row of its environment, is not cancelled and has   *)
(* not outlived it, so that the row can neither be taken over nor swept.   *)
(* The second rests on the first and on an order between the commits: what *)
(* is recorded <= what is served <= what is checked out <= the tip.        *)
(***************************************************************************)
EXTENDS Landing, Deploys, TLAPS

LEMMA LandTypeInit == LandInit => LandTypeOK
  BY LandAssumption DEF LandInit, LandTypeOK, Lock, Running, Settled, Inside, Places

LEMMA LandTypeStep == LandTypeOK /\ [LandNext]_landVars => LandTypeOK'
<1> SUFFICES ASSUME LandTypeOK, [LandNext]_landVars PROVE LandTypeOK'
  OBVIOUS
<1>0. LandTypeOK /\ [LandNext]_landVars
  OBVIOUS
<1>1. QED
  <2>1. ASSUME NEW j \in LandJobs, NEW s \in Slots, Claims(j, s) PROVE LandTypeOK'
    BY <2>1, <1>0, LandAssumption DEF Claims, LandTypeOK, Lock, Running, Settled, Inside, Places, locks, branches, bounds
  <2>2. ASSUME NEW j \in LandJobs, TakesSchemaLock(j) PROVE LandTypeOK'
    BY <2>2, <1>0, LandAssumption DEF TakesSchemaLock, Grants, NeedsSchemaLock, Taken, LandTypeOK, Lock, Running, Settled, Inside, Places, locks, branches, bounds
  <2>3. ASSUME NEW j \in LandJobs, SchemaLockBusy(j) PROVE LandTypeOK'
    BY <2>3, <1>0, LandAssumption DEF SchemaLockBusy, Leaves, Grants, NeedsSchemaLock, Taken, LandTypeOK, Lock, Running, Settled, Inside, Places, locks, branches, bounds
  <2>4. ASSUME NEW j \in LandJobs, TakesMergeLock(j) PROVE LandTypeOK'
    BY <2>4, <1>0, LandAssumption DEF TakesMergeLock, Grants, Taken, LandTypeOK, Lock, Running, Settled, Inside, Places, locks, branches, bounds
  <2>5. ASSUME NEW j \in LandJobs, MergeLockBusy(j) PROVE LandTypeOK'
    BY <2>5, <1>0, LandAssumption DEF MergeLockBusy, Leaves, Grants, Taken, LandTypeOK, Lock, Running, Settled, Inside, Places, locks, branches, bounds
  <2>6. ASSUME NEW j \in LandJobs, Absorbs(j) PROVE LandTypeOK'
    BY <2>6, <1>0, LandAssumption DEF Absorbs, LandTypeOK, Lock, Running, Settled, Inside, Places, locks, branches, bounds
  <2>7. ASSUME NEW j \in LandJobs, AbsorbsTooMuch(j) PROVE LandTypeOK'
    BY <2>7, <1>0, LandAssumption DEF AbsorbsTooMuch, Leaves, Unlocks, Released, Free, LandTypeOK, Lock, Running, Settled, Inside, Places, locks, branches, bounds
  <2>8. ASSUME NEW j \in LandJobs, Conflicts(j) PROVE LandTypeOK'
    BY <2>8, <1>0, LandAssumption DEF Conflicts, Leaves, Unlocks, Released, Free, LandTypeOK, Lock, Running, Settled, Inside, Places, locks, branches, bounds
  <2>9. ASSUME NEW j \in LandJobs, FindsCurrent(j) PROVE LandTypeOK'
    BY <2>9, <1>0, LandAssumption DEF FindsCurrent, LandTypeOK, Lock, Running, Settled, Inside, Places, locks, branches, bounds
  <2>10. ASSUME NEW j \in LandJobs, Lands(j) PROVE LandTypeOK'
    BY <2>10, <1>0, LandAssumption DEF Lands, LandTypeOK, Lock, Running, Settled, Inside, Places, locks, branches, bounds
  <2>11. ASSUME NEW j \in LandJobs, LandsRefreshed(j) PROVE LandTypeOK'
    BY <2>11, <1>0, LandAssumption DEF LandsRefreshed, LandTypeOK, Lock, Running, Settled, Inside, Places, locks, branches, bounds
  <2>12. ASSUME NEW j \in LandJobs, Refused(j) PROVE LandTypeOK'
    BY <2>12, <1>0, LandAssumption DEF Refused, Leaves, Unlocks, Released, Free, LandTypeOK, Lock, Running, Settled, Inside, Places, locks, branches, bounds
  <2>13. ASSUME NEW j \in LandJobs, LeavesLock(j) PROVE LandTypeOK'
    BY <2>13, <1>0, LandAssumption DEF LeavesLock, Unlocks, Released, Free, LandTypeOK, Lock, Running, Settled, Inside, Places, locks, branches, bounds
  <2>14. ASSUME NEW j \in LandJobs, GoesToDeploy(j) PROVE LandTypeOK'
    BY <2>14, <1>0, LandAssumption DEF GoesToDeploy, Leaves, LandTypeOK, Lock, Running, Settled, Inside, Places, locks, branches, bounds
  <2>15. ASSUME NEW j \in LandJobs, Fails(j) PROVE LandTypeOK'
    BY <2>15, <1>0, LandAssumption DEF Fails, Leaves, Unlocks, Released, Free, LandTypeOK, Lock, Running, Settled, Inside, Places, locks, branches, bounds
  <2>16. ASSUME NEW j \in LandJobs, ComesBack(j) PROVE LandTypeOK'
    BY <2>16, <1>0, LandAssumption DEF ComesBack, LandTypeOK, Lock, Running, Settled, Inside, Places, locks, branches, bounds
  <2>17. ASSUME NEW j \in LandJobs, FailsOutside(j) PROVE LandTypeOK'
    BY <2>17, <1>0, LandAssumption DEF FailsOutside, Released, Free, LandTypeOK, Lock, Running, Settled, Inside, Places, locks, branches, bounds
  <2>18. ASSUME NEW j \in LandJobs, Deploys(j) PROVE LandTypeOK'
    BY <2>18, <1>0, LandAssumption DEF Deploys, Released, Free, LandTypeOK, Lock, Running, Settled, Inside, Places, locks, branches, bounds
  <2>19. ASSUME NEW j \in LandJobs, Requeued(j) PROVE LandTypeOK'
    BY <2>19, <1>0, LandAssumption DEF Requeued, LandTypeOK, Lock, Running, Settled, Inside, Places, locks, branches, bounds
  <2>20. ASSUME NEW j \in LandJobs, Reconciled(j) PROVE LandTypeOK'
    BY <2>20, <1>0, LandAssumption DEF Reconciled, Released, Free, LandTypeOK, Lock, Running, Settled, Inside, Places, locks, branches, bounds
  <2>21. ASSUME NEW j \in LandJobs, Cancels(j) PROVE LandTypeOK'
    BY <2>21, <1>0, LandAssumption DEF Cancels, LandTypeOK, Lock, Running, Settled, Inside, Places, locks, branches, bounds
  <2>22. ASSUME NEW j \in LandJobs, Dies(j) PROVE LandTypeOK'
    BY <2>22, <1>0, LandAssumption DEF Dies, Leaves, LandTypeOK, Lock, Running, Settled, Inside, Places, locks, branches, bounds
  <2>23. ASSUME Pushed PROVE LandTypeOK'
    BY <2>23, <1>0, LandAssumption DEF Pushed, LandTypeOK, Lock, Running, Settled, Inside, Places, locks, branches, bounds
  <2>24. ASSUME Tick PROVE LandTypeOK'
    BY <2>24, <1>0, LandAssumption DEF Tick, Older, LandTypeOK, Lock, Running, Settled, Inside, Places, locks, branches, bounds
  <2>25. ASSUME UNCHANGED landVars PROVE LandTypeOK'
    BY <2>25, <1>0, LandAssumption DEF landVars, LandTypeOK, Lock, Running, Settled, Inside, Places, locks, branches, bounds
  <2>26. QED
    BY <1>0, <2>1, <2>2, <2>3, <2>4, <2>5, <2>6, <2>7, <2>8, <2>9, <2>10, <2>11, <2>12, <2>13, <2>14, <2>15, <2>16, <2>17, <2>18, <2>19, <2>20, <2>21, <2>22, <2>23, <2>24, <2>25
       DEF LandNext, Handles, Elsewhere, Disturbs

\* The rows, jobs and counters have their types in every reachable state.
THEOREM LandTypeCorrect == LandSpec => []LandTypeOK
  BY LandTypeInit, LandTypeStep, PTL DEF LandSpec

-----------------------------------------------------------------------------
\* A slot runs one job.
OneJobPerSlot ==
    \A j, k \in LandJobs : by[j] = by[k] /\ by[j] # Nobody => j = k

\* Whoever is inside owns the merge lock, and it is not stale.
MergeHeld ==
    \A j \in LandJobs : at[j] \in Inside =>
        mergeLock.owner = by[j] /\ mergeLock.age <= MergeTTL

MergeInv == OneJobPerSlot /\ MergeHeld /\ LandsOnLanded

LEMMA MergeExcludes == LandTypeOK /\ OneJobPerSlot /\ MergeHeld => OneMerger
  BY DEF LandTypeOK, OneJobPerSlot, MergeHeld, OneMerger, Inside, Running

LEMMA MergeInit == LandInit => MergeInv
  BY LandAssumption DEF LandInit, MergeInv, OneJobPerSlot, MergeHeld, LandsOnLanded, Inside

LEMMA MergeStep ==
    "merge" \notin Overruns /\ LandTypeOK /\ MergeInv /\ [LandNext]_landVars => MergeInv'
<1> SUFFICES ASSUME "merge" \notin Overruns, LandTypeOK, MergeInv, [LandNext]_landVars
             PROVE MergeInv'
  OBVIOUS
<1>0. LandTypeOK /\ MergeInv /\ OneMerger /\ [LandNext]_landVars /\ "merge" \notin Overruns
  BY MergeExcludes DEF MergeInv
<1>1. QED
  <2>1. ASSUME NEW j \in LandJobs, NEW s \in Slots, Claims(j, s) PROVE MergeInv'
    BY <2>1, <1>0, LandAssumption DEF Claims, MergeInv, OneJobPerSlot, MergeHeld, LandsOnLanded, OneMerger,
        LandTypeOK, Lock, Running, Settled, Inside, Places, locks, branches, bounds
  <2>2. ASSUME NEW j \in LandJobs, TakesSchemaLock(j) PROVE MergeInv'
    BY <2>2, <1>0, LandAssumption DEF TakesSchemaLock, Grants, NeedsSchemaLock, Taken, MergeInv, OneJobPerSlot, MergeHeld, LandsOnLanded, OneMerger,
        LandTypeOK, Lock, Running, Settled, Inside, Places, locks, branches, bounds
  <2>3. ASSUME NEW j \in LandJobs, SchemaLockBusy(j) PROVE MergeInv'
    BY <2>3, <1>0, LandAssumption DEF SchemaLockBusy, Leaves, Grants, NeedsSchemaLock, Taken, MergeInv, OneJobPerSlot, MergeHeld, LandsOnLanded, OneMerger,
        LandTypeOK, Lock, Running, Settled, Inside, Places, locks, branches, bounds
  <2>4. ASSUME NEW j \in LandJobs, TakesMergeLock(j) PROVE MergeInv'
    BY <2>4, <1>0, LandAssumption DEF TakesMergeLock, Grants, Taken, MergeInv, OneJobPerSlot, MergeHeld, LandsOnLanded, OneMerger,
        LandTypeOK, Lock, Running, Settled, Inside, Places, locks, branches, bounds
  <2>5. ASSUME NEW j \in LandJobs, MergeLockBusy(j) PROVE MergeInv'
    BY <2>5, <1>0, LandAssumption DEF MergeLockBusy, Leaves, Grants, Taken, MergeInv, OneJobPerSlot, MergeHeld, LandsOnLanded, OneMerger,
        LandTypeOK, Lock, Running, Settled, Inside, Places, locks, branches, bounds
  <2>6. ASSUME NEW j \in LandJobs, Absorbs(j) PROVE MergeInv'
    BY <2>6, <1>0, LandAssumption DEF Absorbs, MergeInv, OneJobPerSlot, MergeHeld, LandsOnLanded, OneMerger,
        LandTypeOK, Lock, Running, Settled, Inside, Places, locks, branches, bounds
  <2>7. ASSUME NEW j \in LandJobs, AbsorbsTooMuch(j) PROVE MergeInv'
    BY <2>7, <1>0, LandAssumption DEF AbsorbsTooMuch, Leaves, Unlocks, Released, Free, MergeInv, OneJobPerSlot, MergeHeld, LandsOnLanded, OneMerger,
        LandTypeOK, Lock, Running, Settled, Inside, Places, locks, branches, bounds
  <2>8. ASSUME NEW j \in LandJobs, Conflicts(j) PROVE MergeInv'
    BY <2>8, <1>0, LandAssumption DEF Conflicts, Leaves, Unlocks, Released, Free, MergeInv, OneJobPerSlot, MergeHeld, LandsOnLanded, OneMerger,
        LandTypeOK, Lock, Running, Settled, Inside, Places, locks, branches, bounds
  <2>9. ASSUME NEW j \in LandJobs, FindsCurrent(j) PROVE MergeInv'
    BY <2>9, <1>0, LandAssumption DEF FindsCurrent, MergeInv, OneJobPerSlot, MergeHeld, LandsOnLanded, OneMerger,
        LandTypeOK, Lock, Running, Settled, Inside, Places, locks, branches, bounds
  <2>10. ASSUME NEW j \in LandJobs, Lands(j) PROVE MergeInv'
    BY <2>10, <1>0, LandAssumption DEF Lands, MergeInv, OneJobPerSlot, MergeHeld, LandsOnLanded, OneMerger,
        LandTypeOK, Lock, Running, Settled, Inside, Places, locks, branches, bounds
  <2>11. ASSUME NEW j \in LandJobs, LandsRefreshed(j) PROVE MergeInv'
    BY <2>11, <1>0, LandAssumption DEF LandsRefreshed, MergeInv, OneJobPerSlot, MergeHeld, LandsOnLanded, OneMerger,
        LandTypeOK, Lock, Running, Settled, Inside, Places, locks, branches, bounds
  <2>12. ASSUME NEW j \in LandJobs, Refused(j) PROVE MergeInv'
    BY <2>12, <1>0, LandAssumption DEF Refused, Leaves, Unlocks, Released, Free, MergeInv, OneJobPerSlot, MergeHeld, LandsOnLanded, OneMerger,
        LandTypeOK, Lock, Running, Settled, Inside, Places, locks, branches, bounds
  <2>13. ASSUME NEW j \in LandJobs, LeavesLock(j) PROVE MergeInv'
    BY <2>13, <1>0, LandAssumption DEF LeavesLock, Unlocks, Released, Free, MergeInv, OneJobPerSlot, MergeHeld, LandsOnLanded, OneMerger,
        LandTypeOK, Lock, Running, Settled, Inside, Places, locks, branches, bounds
  <2>14. ASSUME NEW j \in LandJobs, GoesToDeploy(j) PROVE MergeInv'
    BY <2>14, <1>0, LandAssumption DEF GoesToDeploy, Leaves, MergeInv, OneJobPerSlot, MergeHeld, LandsOnLanded, OneMerger,
        LandTypeOK, Lock, Running, Settled, Inside, Places, locks, branches, bounds
  <2>15. ASSUME NEW j \in LandJobs, Fails(j) PROVE MergeInv'
    BY <2>15, <1>0, LandAssumption DEF Fails, Leaves, Unlocks, Released, Free, MergeInv, OneJobPerSlot, MergeHeld, LandsOnLanded, OneMerger,
        LandTypeOK, Lock, Running, Settled, Inside, Places, locks, branches, bounds
  <2>16. ASSUME NEW j \in LandJobs, ComesBack(j) PROVE MergeInv'
    BY <2>16, <1>0, LandAssumption DEF ComesBack, MergeInv, OneJobPerSlot, MergeHeld, LandsOnLanded, OneMerger,
        LandTypeOK, Lock, Running, Settled, Inside, Places, locks, branches, bounds
  <2>17. ASSUME NEW j \in LandJobs, FailsOutside(j) PROVE MergeInv'
    BY <2>17, <1>0, LandAssumption DEF FailsOutside, Released, Free, MergeInv, OneJobPerSlot, MergeHeld, LandsOnLanded, OneMerger,
        LandTypeOK, Lock, Running, Settled, Inside, Places, locks, branches, bounds
  <2>18. ASSUME NEW j \in LandJobs, Deploys(j) PROVE MergeInv'
    BY <2>18, <1>0, LandAssumption DEF Deploys, Released, Free, MergeInv, OneJobPerSlot, MergeHeld, LandsOnLanded, OneMerger,
        LandTypeOK, Lock, Running, Settled, Inside, Places, locks, branches, bounds
  <2>19. ASSUME NEW j \in LandJobs, Requeued(j) PROVE MergeInv'
    BY <2>19, <1>0, LandAssumption DEF Requeued, MergeInv, OneJobPerSlot, MergeHeld, LandsOnLanded, OneMerger,
        LandTypeOK, Lock, Running, Settled, Inside, Places, locks, branches, bounds
  <2>20. ASSUME NEW j \in LandJobs, Reconciled(j) PROVE MergeInv'
    BY <2>20, <1>0, LandAssumption DEF Reconciled, Released, Free, MergeInv, OneJobPerSlot, MergeHeld, LandsOnLanded, OneMerger,
        LandTypeOK, Lock, Running, Settled, Inside, Places, locks, branches, bounds
  <2>21. ASSUME NEW j \in LandJobs, Cancels(j) PROVE MergeInv'
    BY <2>21, <1>0, LandAssumption DEF Cancels, MergeInv, OneJobPerSlot, MergeHeld, LandsOnLanded, OneMerger,
        LandTypeOK, Lock, Running, Settled, Inside, Places, locks, branches, bounds
  <2>22. ASSUME NEW j \in LandJobs, Dies(j) PROVE MergeInv'
    BY <2>22, <1>0, LandAssumption DEF Dies, Leaves, MergeInv, OneJobPerSlot, MergeHeld, LandsOnLanded, OneMerger,
        LandTypeOK, Lock, Running, Settled, Inside, Places, locks, branches, bounds
  <2>23. ASSUME Pushed PROVE MergeInv'
    BY <2>23, <1>0, LandAssumption DEF Pushed, MergeInv, OneJobPerSlot, MergeHeld, LandsOnLanded, OneMerger,
        LandTypeOK, Lock, Running, Settled, Inside, Places, locks, branches, bounds
  <2>24. ASSUME Tick PROVE MergeInv'
    BY <2>24, <1>0, LandAssumption DEF Tick, Older, MergeInv, OneJobPerSlot, MergeHeld, LandsOnLanded, OneMerger,
        LandTypeOK, Lock, Running, Settled, Inside, Places, locks, branches, bounds
  <2>25. ASSUME UNCHANGED landVars PROVE MergeInv'
    BY <2>25, <1>0, LandAssumption DEF landVars, MergeInv, OneJobPerSlot, MergeHeld, LandsOnLanded, OneMerger,
        LandTypeOK, Lock, Running, Settled, Inside, Places, locks, branches, bounds
  <2>26. QED
    BY <1>0, <2>1, <2>2, <2>3, <2>4, <2>5, <2>6, <2>7, <2>8, <2>9, <2>10, <2>11, <2>12, <2>13, <2>14, <2>15, <2>16, <2>17, <2>18, <2>19, <2>20, <2>21, <2>22, <2>23, <2>24, <2>25
       DEF LandNext, Handles, Elsewhere, Disturbs

\* No two jobs are inside the merge lock, unless a handler outlives merge_lock_ttl.
THEOREM LandingExclusive ==
    "merge" \notin Overruns => (LandSpec => []OneMerger)
<1> SUFFICES ASSUME "merge" \notin Overruns PROVE LandSpec => []OneMerger
  OBVIOUS
<1>1. LandTypeOK /\ MergeInv => OneMerger
  BY MergeExcludes DEF MergeInv
<1>2. LandTypeOK /\ MergeInv /\ [LandNext]_landVars => MergeInv'
  BY MergeStep
<1>3. QED
  BY <1>1, <1>2, LandTypeInit, LandTypeStep, MergeInit, PTL DEF LandSpec

\* What lands contains every landing before it, under the same condition.
THEOREM LandingComplete ==
    "merge" \notin Overruns => (LandSpec => []LandsOnLanded)
<1> SUFFICES ASSUME "merge" \notin Overruns PROVE LandSpec => []LandsOnLanded
  OBVIOUS
<1>1. MergeInv => LandsOnLanded
  BY DEF MergeInv
<1>2. LandTypeOK /\ MergeInv /\ [LandNext]_landVars => MergeInv'
  BY MergeStep
<1>3. QED
  BY <1>1, <1>2, LandTypeInit, LandTypeStep, MergeInit, PTL DEF LandSpec

-----------------------------------------------------------------------------
\* Whoever counts on the schema lock owns it, and it is not stale.
SchemaHeld ==
    \A j \in LandJobs :
        /\ InWindow(j) => schemaLock.owner = j /\ schemaLock.age <= SchemaTTL
        /\ at[j] = "current" => j \notin merged

LEMMA SchemaInit == LandInit => SchemaHeld
  BY LandAssumption DEF LandInit, SchemaHeld, InWindow

LEMMA SchemaStep ==
    "schema" \notin Overruns /\ LandTypeOK /\ SchemaHeld /\ [LandNext]_landVars => SchemaHeld'
<1> SUFFICES ASSUME "schema" \notin Overruns, LandTypeOK, SchemaHeld, [LandNext]_landVars
             PROVE SchemaHeld'
  OBVIOUS
<1>0. LandTypeOK /\ SchemaHeld /\ [LandNext]_landVars /\ "schema" \notin Overruns
  OBVIOUS
<1>1. QED
  <2>1. ASSUME NEW j \in LandJobs, NEW s \in Slots, Claims(j, s) PROVE SchemaHeld'
    BY <2>1, <1>0, LandAssumption DEF Claims, SchemaHeld, InWindow, LandTypeOK, Lock,
        Running, Settled, Inside, Places, locks, branches, bounds
  <2>2. ASSUME NEW j \in LandJobs, TakesSchemaLock(j) PROVE SchemaHeld'
    BY <2>2, <1>0, LandAssumption DEF TakesSchemaLock, Grants, NeedsSchemaLock, Taken, SchemaHeld, InWindow, LandTypeOK, Lock,
        Running, Settled, Inside, Places, locks, branches, bounds
  <2>3. ASSUME NEW j \in LandJobs, SchemaLockBusy(j) PROVE SchemaHeld'
    BY <2>3, <1>0, LandAssumption DEF SchemaLockBusy, Leaves, Grants, NeedsSchemaLock, Taken, SchemaHeld, InWindow, LandTypeOK, Lock,
        Running, Settled, Inside, Places, locks, branches, bounds
  <2>4. ASSUME NEW j \in LandJobs, TakesMergeLock(j) PROVE SchemaHeld'
    BY <2>4, <1>0, LandAssumption DEF TakesMergeLock, Grants, Taken, SchemaHeld, InWindow, LandTypeOK, Lock,
        Running, Settled, Inside, Places, locks, branches, bounds
  <2>5. ASSUME NEW j \in LandJobs, MergeLockBusy(j) PROVE SchemaHeld'
    BY <2>5, <1>0, LandAssumption DEF MergeLockBusy, Leaves, Grants, Taken, SchemaHeld, InWindow, LandTypeOK, Lock,
        Running, Settled, Inside, Places, locks, branches, bounds
  <2>6. ASSUME NEW j \in LandJobs, Absorbs(j) PROVE SchemaHeld'
    BY <2>6, <1>0, LandAssumption DEF Absorbs, SchemaHeld, InWindow, LandTypeOK, Lock,
        Running, Settled, Inside, Places, locks, branches, bounds
  <2>7. ASSUME NEW j \in LandJobs, AbsorbsTooMuch(j) PROVE SchemaHeld'
    BY <2>7, <1>0, LandAssumption DEF AbsorbsTooMuch, Leaves, Unlocks, Released, Free, SchemaHeld, InWindow, LandTypeOK, Lock,
        Running, Settled, Inside, Places, locks, branches, bounds
  <2>8. ASSUME NEW j \in LandJobs, Conflicts(j) PROVE SchemaHeld'
    BY <2>8, <1>0, LandAssumption DEF Conflicts, Leaves, Unlocks, Released, Free, SchemaHeld, InWindow, LandTypeOK, Lock,
        Running, Settled, Inside, Places, locks, branches, bounds
  <2>9. ASSUME NEW j \in LandJobs, FindsCurrent(j) PROVE SchemaHeld'
    BY <2>9, <1>0, LandAssumption DEF FindsCurrent, SchemaHeld, InWindow, LandTypeOK, Lock,
        Running, Settled, Inside, Places, locks, branches, bounds
  <2>10. ASSUME NEW j \in LandJobs, Lands(j) PROVE SchemaHeld'
    BY <2>10, <1>0, LandAssumption DEF Lands, SchemaHeld, InWindow, LandTypeOK, Lock,
        Running, Settled, Inside, Places, locks, branches, bounds
  <2>11. ASSUME NEW j \in LandJobs, LandsRefreshed(j) PROVE SchemaHeld'
    BY <2>11, <1>0, LandAssumption DEF LandsRefreshed, SchemaHeld, InWindow, LandTypeOK, Lock,
        Running, Settled, Inside, Places, locks, branches, bounds
  <2>12. ASSUME NEW j \in LandJobs, Refused(j) PROVE SchemaHeld'
    BY <2>12, <1>0, LandAssumption DEF Refused, Leaves, Unlocks, Released, Free, SchemaHeld, InWindow, LandTypeOK, Lock,
        Running, Settled, Inside, Places, locks, branches, bounds
  <2>13. ASSUME NEW j \in LandJobs, LeavesLock(j) PROVE SchemaHeld'
    BY <2>13, <1>0, LandAssumption DEF LeavesLock, Unlocks, Released, Free, SchemaHeld, InWindow, LandTypeOK, Lock,
        Running, Settled, Inside, Places, locks, branches, bounds
  <2>14. ASSUME NEW j \in LandJobs, GoesToDeploy(j) PROVE SchemaHeld'
    BY <2>14, <1>0, LandAssumption DEF GoesToDeploy, Leaves, SchemaHeld, InWindow, LandTypeOK, Lock,
        Running, Settled, Inside, Places, locks, branches, bounds
  <2>15. ASSUME NEW j \in LandJobs, Fails(j) PROVE SchemaHeld'
    BY <2>15, <1>0, LandAssumption DEF Fails, Leaves, Unlocks, Released, Free, SchemaHeld, InWindow, LandTypeOK, Lock,
        Running, Settled, Inside, Places, locks, branches, bounds
  <2>16. ASSUME NEW j \in LandJobs, ComesBack(j) PROVE SchemaHeld'
    BY <2>16, <1>0, LandAssumption DEF ComesBack, SchemaHeld, InWindow, LandTypeOK, Lock,
        Running, Settled, Inside, Places, locks, branches, bounds
  <2>17. ASSUME NEW j \in LandJobs, FailsOutside(j) PROVE SchemaHeld'
    BY <2>17, <1>0, LandAssumption DEF FailsOutside, Released, Free, SchemaHeld, InWindow, LandTypeOK, Lock,
        Running, Settled, Inside, Places, locks, branches, bounds
  <2>18. ASSUME NEW j \in LandJobs, Deploys(j) PROVE SchemaHeld'
    BY <2>18, <1>0, LandAssumption DEF Deploys, Released, Free, SchemaHeld, InWindow, LandTypeOK, Lock,
        Running, Settled, Inside, Places, locks, branches, bounds
  <2>19. ASSUME NEW j \in LandJobs, Requeued(j) PROVE SchemaHeld'
    BY <2>19, <1>0, LandAssumption DEF Requeued, SchemaHeld, InWindow, LandTypeOK, Lock,
        Running, Settled, Inside, Places, locks, branches, bounds
  <2>20. ASSUME NEW j \in LandJobs, Reconciled(j) PROVE SchemaHeld'
    BY <2>20, <1>0, LandAssumption DEF Reconciled, Released, Free, SchemaHeld, InWindow, LandTypeOK, Lock,
        Running, Settled, Inside, Places, locks, branches, bounds
  <2>21. ASSUME NEW j \in LandJobs, Cancels(j) PROVE SchemaHeld'
    BY <2>21, <1>0, LandAssumption DEF Cancels, SchemaHeld, InWindow, LandTypeOK, Lock,
        Running, Settled, Inside, Places, locks, branches, bounds
  <2>22. ASSUME NEW j \in LandJobs, Dies(j) PROVE SchemaHeld'
    BY <2>22, <1>0, LandAssumption DEF Dies, Leaves, SchemaHeld, InWindow, LandTypeOK, Lock,
        Running, Settled, Inside, Places, locks, branches, bounds
  <2>23. ASSUME Pushed PROVE SchemaHeld'
    BY <2>23, <1>0, LandAssumption DEF Pushed, SchemaHeld, InWindow, LandTypeOK, Lock,
        Running, Settled, Inside, Places, locks, branches, bounds
  <2>24. ASSUME Tick PROVE SchemaHeld'
    BY <2>24, <1>0, LandAssumption DEF Tick, Older, SchemaHeld, InWindow, LandTypeOK, Lock,
        Running, Settled, Inside, Places, locks, branches, bounds
  <2>25. ASSUME UNCHANGED landVars PROVE SchemaHeld'
    BY <2>25, <1>0, LandAssumption DEF landVars, SchemaHeld, InWindow, LandTypeOK, Lock,
        Running, Settled, Inside, Places, locks, branches, bounds
  <2>26. QED
    BY <1>0, <2>1, <2>2, <2>3, <2>4, <2>5, <2>6, <2>7, <2>8, <2>9, <2>10, <2>11, <2>12, <2>13, <2>14, <2>15, <2>16, <2>17, <2>18, <2>19, <2>20, <2>21, <2>22, <2>23, <2>24, <2>25
       DEF LandNext, Handles, Elsewhere, Disturbs

\* A step that lands a schema job does so while it owns the lock.
LEMMA SchemaOrderStep ==
    LandTypeOK /\ SchemaHeld /\ [LandNext]_landVars =>
        \A j \in SchemaJobs : j \in merged' \ merged =>
            \A k \in SchemaJobs \ {j} : at[k] \notin {"landed", "unlocked", "deploy"}
<1> SUFFICES ASSUME LandTypeOK, SchemaHeld, [LandNext]_landVars,
                    NEW j \in SchemaJobs, j \in merged' \ merged,
                    NEW k \in SchemaJobs \ {j}
             PROVE at[k] \notin {"landed", "unlocked", "deploy"}
  OBVIOUS
<1>1. at[j] = "current"
  <2>1. ASSUME NEW i \in LandJobs, NEW s \in Slots, Claims(i, s) PROVE FALSE
    BY <2>1 DEF Claims
  <2>2. ASSUME NEW i \in LandJobs, TakesSchemaLock(i) PROVE FALSE
    BY <2>2 DEF TakesSchemaLock
  <2>3. ASSUME NEW i \in LandJobs, SchemaLockBusy(i) PROVE FALSE
    BY <2>3 DEF SchemaLockBusy
  <2>4. ASSUME NEW i \in LandJobs, TakesMergeLock(i) PROVE FALSE
    BY <2>4 DEF TakesMergeLock
  <2>5. ASSUME NEW i \in LandJobs, MergeLockBusy(i) PROVE FALSE
    BY <2>5 DEF MergeLockBusy
  <2>6. ASSUME NEW i \in LandJobs, Absorbs(i) PROVE FALSE
    BY <2>6 DEF Absorbs
  <2>7. ASSUME NEW i \in LandJobs, AbsorbsTooMuch(i) PROVE FALSE
    BY <2>7 DEF AbsorbsTooMuch
  <2>8. ASSUME NEW i \in LandJobs, Conflicts(i) PROVE FALSE
    BY <2>8 DEF Conflicts
  <2>9. ASSUME NEW i \in LandJobs, FindsCurrent(i) PROVE FALSE
    BY <2>9 DEF FindsCurrent
  <2>10. ASSUME NEW i \in LandJobs, Lands(i) PROVE at[j] = "current"
    BY <2>10 DEF Lands
  <2>11. ASSUME NEW i \in LandJobs, LandsRefreshed(i) PROVE at[j] = "current"
    BY <2>11 DEF LandsRefreshed
  <2>12. ASSUME NEW i \in LandJobs, Refused(i) PROVE FALSE
    BY <2>12 DEF Refused
  <2>13. ASSUME NEW i \in LandJobs, LeavesLock(i) PROVE FALSE
    BY <2>13 DEF LeavesLock
  <2>14. ASSUME NEW i \in LandJobs, GoesToDeploy(i) PROVE FALSE
    BY <2>14 DEF GoesToDeploy
  <2>15. ASSUME NEW i \in LandJobs, Fails(i) PROVE FALSE
    BY <2>15 DEF Fails
  <2>16. ASSUME NEW i \in LandJobs, ComesBack(i) PROVE FALSE
    BY <2>16 DEF ComesBack
  <2>17. ASSUME NEW i \in LandJobs, FailsOutside(i) PROVE FALSE
    BY <2>17 DEF FailsOutside
  <2>18. ASSUME NEW i \in LandJobs, Deploys(i) PROVE FALSE
    BY <2>18 DEF Deploys
  <2>19. ASSUME NEW i \in LandJobs, Requeued(i) PROVE FALSE
    BY <2>19 DEF Requeued
  <2>20. ASSUME NEW i \in LandJobs, Reconciled(i) PROVE FALSE
    BY <2>20 DEF Reconciled
  <2>21. ASSUME NEW i \in LandJobs, Cancels(i) PROVE FALSE
    BY <2>21 DEF Cancels
  <2>22. ASSUME NEW i \in LandJobs, Dies(i) PROVE FALSE
    BY <2>22 DEF Dies
  <2>23. ASSUME Pushed PROVE FALSE
    BY <2>23 DEF Pushed
  <2>24. ASSUME Tick PROVE FALSE
    BY <2>24 DEF Tick
  <2>25. ASSUME UNCHANGED landVars PROVE FALSE
    BY <2>25 DEF landVars
  <2>26. QED
    BY <2>1, <2>2, <2>3, <2>4, <2>5, <2>6, <2>7, <2>8, <2>9, <2>10, <2>11, <2>12, <2>13, <2>14, <2>15, <2>16, <2>17, <2>18, <2>19, <2>20, <2>21, <2>22, <2>23, <2>24, <2>25
       DEF LandNext, Handles, Elsewhere, Disturbs
<1>2. schemaLock.owner = j
  BY <1>1, LandAssumption DEF SchemaHeld, InWindow
<1>3. InWindow(k) => schemaLock.owner = k
  BY LandAssumption DEF SchemaHeld
<1>4. QED
  BY <1>2, <1>3 DEF InWindow

\* Schema changes land one deploy after the other, unless a holder outlives the
\* schema lock.
THEOREM LandingInOrder ==
    "schema" \notin Overruns => (LandSpec => SchemaInOrder)
<1> SUFFICES ASSUME "schema" \notin Overruns PROVE LandSpec => SchemaInOrder
  OBVIOUS
<1>1. LandTypeOK /\ SchemaHeld /\ [LandNext]_landVars => SchemaHeld'
  BY SchemaStep
<1>2. QED
  BY <1>1, SchemaOrderStep, LandTypeInit, LandTypeStep, SchemaInit, PTL
     DEF LandSpec, SchemaInOrder

-----------------------------------------------------------------------------
LEMMA DeployTypeInit == DeployInit => DeployTypeOK
  BY DeployAssumption DEF DeployInit, DeployTypeOK, JobTypes, HostTypes, RowTypes, Phases, Handled, HasLock, Over, Commits

LEMMA DeployTypeStep == DeployTypeOK /\ [DeployNext]_deployVars => DeployTypeOK'
<1> SUFFICES ASSUME DeployTypeOK, [DeployNext]_deployVars PROVE DeployTypeOK'
  OBVIOUS
<1>0. JobTypes /\ HostTypes /\ RowTypes /\ [DeployNext]_deployVars
  BY DEF DeployTypeOK
<1>1. JobTypes'
  <2>1. ASSUME NEW j \in DeployJobs, Ships(j) PROVE JobTypes'
    BY <2>1, <1>0, DeployAssumption
       DEF Ships, Queues, lockRows, hostVars, JobTypes, HostTypes, Phases, Handled, HasLock, Over, Commits, jobVars
  <2>2. ASSUME NEW j \in DeployJobs, Asks(j) PROVE JobTypes'
    BY <2>2, <1>0, DeployAssumption
       DEF Asks, Queues, lockRows, hostVars, JobTypes, HostTypes, Phases, Handled, HasLock, Over, Commits, jobVars
  <2>3. ASSUME NEW j \in DeployJobs, Promoted(j) PROVE JobTypes'
    BY <2>3, <1>0, DeployAssumption
       DEF Promoted, Queues, lockRows, hostVars, JobTypes, HostTypes, Phases, Handled, HasLock, Over, Commits, jobVars
  <2>4. ASSUME NEW j \in DeployJobs, AutoFiles(j) PROVE JobTypes'
    BY <2>4, <1>0, DeployAssumption
       DEF AutoFiles, Queues, lockRows, hostVars, JobTypes, HostTypes, Phases, Handled, HasLock, Over, Commits, jobVars
  <2>5. ASSUME NEW j \in DeployJobs, Starts(j) PROVE JobTypes'
    BY <2>5, <1>0, DeployAssumption
       DEF Starts, lockRows, hostVars, JobTypes, HostTypes, Phases, Handled, HasLock, Over, Commits, jobVars
  <2>6. ASSUME NEW j \in DeployJobs, GetsLock(j) PROVE JobTypes'
    BY <2>6, <1>0, DeployAssumption
       DEF GetsLock, hostVars, JobTypes, HostTypes, Phases, Handled, HasLock, Over, Commits, jobVars
  <2>7. ASSUME NEW j \in DeployJobs, GivesUp(j) PROVE JobTypes'
    BY <2>7, <1>0, DeployAssumption
       DEF GivesUp, Ends, lockRows, hostVars, JobTypes, HostTypes, Phases, Handled, HasLock, Over, Commits, jobVars
  <2>8. ASSUME NEW j \in DeployJobs, Coalesces(j) PROVE JobTypes'
    BY <2>8, <1>0, DeployAssumption
       DEF Coalesces, Ends, GivesBack, hostVars, JobTypes, HostTypes, Phases, Handled, HasLock, Over, Commits, jobVars
  <2>9. ASSUME NEW j \in DeployJobs, Syncs(j) PROVE JobTypes'
    BY <2>9, <1>0, DeployAssumption
       DEF Syncs, lockRows, JobTypes, HostTypes, Phases, Handled, HasLock, Over, Commits, jobVars
  <2>10. ASSUME NEW j \in DeployJobs, Breaks(j) PROVE JobTypes'
    BY <2>10, <1>0, DeployAssumption
       DEF Breaks, EndsFailed, hostVars, Ends, GivesBack, JobTypes, HostTypes, Phases, Handled, HasLock, Over, Commits, jobVars
  <2>11. ASSUME NEW j \in DeployJobs, FailsLive(j) PROVE JobTypes'
    BY <2>11, <1>0, DeployAssumption
       DEF FailsLive, EndsFailed, Ends, GivesBack, JobTypes, HostTypes, Phases, Handled, HasLock, Over, Commits, jobVars
  <2>12. ASSUME NEW j \in DeployJobs, ComesUpDead(j) PROVE JobTypes'
    BY <2>12, <1>0, DeployAssumption
       DEF ComesUpDead, EndsFailed, Ends, GivesBack, JobTypes, HostTypes, Phases, Handled, HasLock, Over, Commits, jobVars
  <2>13. ASSUME NEW j \in DeployJobs, Swaps(j) PROVE JobTypes'
    BY <2>13, <1>0, DeployAssumption
       DEF Swaps, GivesBack, JobTypes, HostTypes, Phases, Handled, HasLock, Over, Commits, jobVars
  <2>14. ASSUME NEW j \in DeployJobs, ReadsHead(j) PROVE JobTypes'
    BY <2>14, <1>0, DeployAssumption
       DEF ReadsHead, lockRows, hostVars, JobTypes, HostTypes, Phases, Handled, HasLock, Over, Commits, jobVars
  <2>15. ASSUME NEW j \in DeployJobs, FailsLate(j) PROVE JobTypes'
    BY <2>15, <1>0, DeployAssumption
       DEF FailsLate, Unverified, Ends, lockRows, hostVars, JobTypes, HostTypes, Phases, Handled, HasLock, Over, Commits, jobVars
  <2>16. ASSUME NEW j \in DeployJobs, Finishes(j) PROVE JobTypes'
    BY <2>16, <1>0, DeployAssumption
       DEF Finishes, Ends, lockRows, hostVars, JobTypes, HostTypes, Phases, Handled, HasLock, Over, Commits, jobVars
  <2>17. ASSUME NEW j \in DeployJobs, Restarts(j) PROVE JobTypes'
    BY <2>17, <1>0, DeployAssumption
       DEF Restarts, Ends, lockRows, hostVars, JobTypes, HostTypes, Phases, Handled, HasLock, Over, Commits, jobVars
  <2>18. ASSUME NEW j \in DeployJobs, Reconciles(j) PROVE JobTypes'
    BY <2>18, <1>0, DeployAssumption
       DEF Reconciles, Ends, lockRows, hostVars, JobTypes, HostTypes, Phases, Handled, HasLock, Over, Commits, jobVars
  <2>19. ASSUME NEW j \in DeployJobs, CancelsDeploy(j) PROVE JobTypes'
    BY <2>19, <1>0, DeployAssumption
       DEF CancelsDeploy, lockRows, hostVars, JobTypes, HostTypes, Phases, Handled, HasLock, Over, Commits, jobVars
  <2>20. ASSUME NEW j \in DeployJobs, HandlerDies(j) PROVE JobTypes'
    BY <2>20, <1>0, DeployAssumption
       DEF HandlerDies, Ends, lockRows, JobTypes, HostTypes, Phases, Handled, HasLock, Over, Commits, jobVars
  <2>21. ASSUME NEW e \in Envs, Ages(e) PROVE JobTypes'
    BY <2>21, <1>0, DeployAssumption
       DEF Ages, hostVars, JobTypes, HostTypes, Phases, Handled, HasLock, Over, Commits, jobVars
  <2>22. ASSUME BootSweeps PROVE JobTypes'
    BY <2>22, <1>0, DeployAssumption
       DEF BootSweeps, Terminal, hostVars, JobTypes, HostTypes, Phases, Handled, HasLock, Over, Commits, jobVars
  <2>23. ASSUME UNCHANGED deployVars PROVE JobTypes'
    BY <2>23, <1>0, DeployAssumption
       DEF deployVars, JobTypes, HostTypes, Phases, Handled, HasLock, Over, Commits, jobVars
  <2>24. QED
    BY <1>0, <2>1, <2>2, <2>3, <2>4, <2>5, <2>6, <2>7, <2>8, <2>9, <2>10, <2>11, <2>12, <2>13, <2>14, <2>15, <2>16, <2>17, <2>18, <2>19, <2>20, <2>21, <2>22, <2>23
       DEF DeployNext, DeployHandler
<1>2. HostTypes'
  <2>1. ASSUME NEW j \in DeployJobs, Ships(j) PROVE HostTypes'
    BY <2>1, <1>0, DeployAssumption
       DEF Ships, Queues, lockRows, JobTypes, HostTypes, Commits, hostVars
  <2>2. ASSUME NEW j \in DeployJobs, Asks(j) PROVE HostTypes'
    BY <2>2, <1>0, DeployAssumption
       DEF Asks, Queues, lockRows, JobTypes, HostTypes, Commits, hostVars
  <2>3. ASSUME NEW j \in DeployJobs, Promoted(j) PROVE HostTypes'
    BY <2>3, <1>0, DeployAssumption
       DEF Promoted, Queues, lockRows, JobTypes, HostTypes, Commits, hostVars
  <2>4. ASSUME NEW j \in DeployJobs, AutoFiles(j) PROVE HostTypes'
    BY <2>4, <1>0, DeployAssumption
       DEF AutoFiles, Queues, lockRows, JobTypes, HostTypes, Commits, hostVars
  <2>5. ASSUME NEW j \in DeployJobs, Starts(j) PROVE HostTypes'
    BY <2>5, <1>0, DeployAssumption
       DEF Starts, lockRows, JobTypes, HostTypes, Commits, hostVars
  <2>6. ASSUME NEW j \in DeployJobs, GetsLock(j) PROVE HostTypes'
    BY <2>6, <1>0, DeployAssumption
       DEF GetsLock, JobTypes, HostTypes, Commits, hostVars
  <2>7. ASSUME NEW j \in DeployJobs, GivesUp(j) PROVE HostTypes'
    BY <2>7, <1>0, DeployAssumption
       DEF GivesUp, lockRows, JobTypes, HostTypes, Commits, hostVars
  <2>8. ASSUME NEW j \in DeployJobs, Coalesces(j) PROVE HostTypes'
    BY <2>8, <1>0, DeployAssumption
       DEF Coalesces, JobTypes, HostTypes, Commits, hostVars
  <2>9. ASSUME NEW j \in DeployJobs, Syncs(j) PROVE HostTypes'
    BY <2>9, <1>0, DeployAssumption
       DEF Syncs, lockRows, JobTypes, HostTypes, Commits, hostVars
  <2>10. ASSUME NEW j \in DeployJobs, Breaks(j) PROVE HostTypes'
    BY <2>10, <1>0, DeployAssumption
       DEF Breaks, HasLock, EndsFailed, JobTypes, HostTypes, Commits, hostVars
  <2>11. ASSUME NEW j \in DeployJobs, FailsLive(j) PROVE HostTypes'
    BY <2>11, <1>0, DeployAssumption
       DEF FailsLive, EndsFailed, JobTypes, HostTypes, Commits, hostVars
  <2>12. ASSUME NEW j \in DeployJobs, ComesUpDead(j) PROVE HostTypes'
    BY <2>12, <1>0, DeployAssumption
       DEF ComesUpDead, EndsFailed, JobTypes, HostTypes, Commits, hostVars
  <2>13. ASSUME NEW j \in DeployJobs, Swaps(j) PROVE HostTypes'
    BY <2>13, <1>0, DeployAssumption
       DEF Swaps, JobTypes, HostTypes, Commits, hostVars
  <2>14. ASSUME NEW j \in DeployJobs, ReadsHead(j) PROVE HostTypes'
    BY <2>14, <1>0, DeployAssumption
       DEF ReadsHead, lockRows, JobTypes, HostTypes, Commits, hostVars
  <2>15. ASSUME NEW j \in DeployJobs, FailsLate(j) PROVE HostTypes'
    BY <2>15, <1>0, DeployAssumption
       DEF FailsLate, Unverified, lockRows, JobTypes, HostTypes, Commits, hostVars
  <2>16. ASSUME NEW j \in DeployJobs, Finishes(j) PROVE HostTypes'
    BY <2>16, <1>0, DeployAssumption
       DEF Finishes, lockRows, JobTypes, HostTypes, Commits, hostVars
  <2>17. ASSUME NEW j \in DeployJobs, Restarts(j) PROVE HostTypes'
    BY <2>17, <1>0, DeployAssumption
       DEF Restarts, lockRows, JobTypes, HostTypes, Commits, hostVars
  <2>18. ASSUME NEW j \in DeployJobs, Reconciles(j) PROVE HostTypes'
    BY <2>18, <1>0, DeployAssumption
       DEF Reconciles, lockRows, JobTypes, HostTypes, Commits, hostVars
  <2>19. ASSUME NEW j \in DeployJobs, CancelsDeploy(j) PROVE HostTypes'
    BY <2>19, <1>0, DeployAssumption
       DEF CancelsDeploy, Handled, lockRows, HasLock, JobTypes, HostTypes, Commits, hostVars
  <2>20. ASSUME NEW j \in DeployJobs, HandlerDies(j) PROVE HostTypes'
    BY <2>20, <1>0, DeployAssumption
       DEF HandlerDies, Handled, lockRows, HasLock, JobTypes, HostTypes, Commits, hostVars
  <2>21. ASSUME NEW e \in Envs, Ages(e) PROVE HostTypes'
    BY <2>21, <1>0, DeployAssumption
       DEF Ages, HasLock, jobVars, JobTypes, HostTypes, Commits, hostVars
  <2>22. ASSUME BootSweeps PROVE HostTypes'
    BY <2>22, <1>0, DeployAssumption
       DEF BootSweeps, Terminal, jobVars, Over, JobTypes, HostTypes, Commits, hostVars
  <2>23. ASSUME UNCHANGED deployVars PROVE HostTypes'
    BY <2>23, <1>0, DeployAssumption
       DEF deployVars, JobTypes, HostTypes, Commits, hostVars
  <2>24. QED
    BY <1>0, <2>1, <2>2, <2>3, <2>4, <2>5, <2>6, <2>7, <2>8, <2>9, <2>10, <2>11, <2>12, <2>13, <2>14, <2>15, <2>16, <2>17, <2>18, <2>19, <2>20, <2>21, <2>22, <2>23
       DEF DeployNext, DeployHandler
<1>3. RowTypes'
  <2>1. ASSUME NEW j \in DeployJobs, Ships(j) PROVE RowTypes'
    BY <2>1, <1>0, DeployAssumption
       DEF Ships, Queues, hostVars, JobTypes, HostTypes, RowTypes, lockRows
  <2>2. ASSUME NEW j \in DeployJobs, Asks(j) PROVE RowTypes'
    BY <2>2, <1>0, DeployAssumption
       DEF Asks, Queues, hostVars, JobTypes, HostTypes, RowTypes, lockRows
  <2>3. ASSUME NEW j \in DeployJobs, Promoted(j) PROVE RowTypes'
    BY <2>3, <1>0, DeployAssumption
       DEF Promoted, Queues, hostVars, JobTypes, HostTypes, RowTypes, lockRows
  <2>4. ASSUME NEW j \in DeployJobs, AutoFiles(j) PROVE RowTypes'
    BY <2>4, <1>0, DeployAssumption
       DEF AutoFiles, Queues, hostVars, JobTypes, HostTypes, RowTypes, lockRows
  <2>5. ASSUME NEW j \in DeployJobs, Starts(j) PROVE RowTypes'
    BY <2>5, <1>0, DeployAssumption
       DEF Starts, hostVars, JobTypes, HostTypes, RowTypes, lockRows
  <2>6. ASSUME NEW j \in DeployJobs, GetsLock(j) PROVE RowTypes'
    BY <2>6, <1>0, DeployAssumption
       DEF GetsLock, hostVars, JobTypes, HostTypes, RowTypes, lockRows
  <2>7. ASSUME NEW j \in DeployJobs, GivesUp(j) PROVE RowTypes'
    BY <2>7, <1>0, DeployAssumption
       DEF GivesUp, hostVars, JobTypes, HostTypes, RowTypes, lockRows
  <2>8. ASSUME NEW j \in DeployJobs, Coalesces(j) PROVE RowTypes'
    BY <2>8, <1>0, DeployAssumption
       DEF Coalesces, GivesBack, hostVars, JobTypes, HostTypes, RowTypes, lockRows
  <2>9. ASSUME NEW j \in DeployJobs, Syncs(j) PROVE RowTypes'
    BY <2>9, <1>0, DeployAssumption
       DEF Syncs, JobTypes, HostTypes, RowTypes, lockRows
  <2>10. ASSUME NEW j \in DeployJobs, Breaks(j) PROVE RowTypes'
    BY <2>10, <1>0, DeployAssumption
       DEF Breaks, HasLock, EndsFailed, hostVars, GivesBack, JobTypes, HostTypes, RowTypes, lockRows
  <2>11. ASSUME NEW j \in DeployJobs, FailsLive(j) PROVE RowTypes'
    BY <2>11, <1>0, DeployAssumption
       DEF FailsLive, EndsFailed, GivesBack, JobTypes, HostTypes, RowTypes, lockRows
  <2>12. ASSUME NEW j \in DeployJobs, ComesUpDead(j) PROVE RowTypes'
    BY <2>12, <1>0, DeployAssumption
       DEF ComesUpDead, Mishap, EndsFailed, GivesBack, JobTypes, HostTypes, RowTypes, lockRows
  <2>13. ASSUME NEW j \in DeployJobs, Swaps(j) PROVE RowTypes'
    BY <2>13, <1>0, DeployAssumption
       DEF Swaps, GivesBack, JobTypes, HostTypes, RowTypes, lockRows
  <2>14. ASSUME NEW j \in DeployJobs, ReadsHead(j) PROVE RowTypes'
    BY <2>14, <1>0, DeployAssumption
       DEF ReadsHead, Misreads, hostVars, JobTypes, HostTypes, RowTypes, lockRows
  <2>15. ASSUME NEW j \in DeployJobs, FailsLate(j) PROVE RowTypes'
    BY <2>15, <1>0, DeployAssumption
       DEF FailsLate, Unverified, hostVars, JobTypes, HostTypes, RowTypes, lockRows
  <2>16. ASSUME NEW j \in DeployJobs, Finishes(j) PROVE RowTypes'
    BY <2>16, <1>0, DeployAssumption
       DEF Finishes, hostVars, JobTypes, HostTypes, RowTypes, lockRows
  <2>17. ASSUME NEW j \in DeployJobs, Restarts(j) PROVE RowTypes'
    BY <2>17, <1>0, DeployAssumption
       DEF Restarts, hostVars, JobTypes, HostTypes, RowTypes, lockRows
  <2>18. ASSUME NEW j \in DeployJobs, Reconciles(j) PROVE RowTypes'
    BY <2>18, <1>0, DeployAssumption
       DEF Reconciles, Misreads, hostVars, JobTypes, HostTypes, RowTypes, lockRows
  <2>19. ASSUME NEW j \in DeployJobs, CancelsDeploy(j) PROVE RowTypes'
    BY <2>19, <1>0, DeployAssumption
       DEF CancelsDeploy, Handled, Mishap, hostVars, HasLock, JobTypes, HostTypes, RowTypes, lockRows
  <2>20. ASSUME NEW j \in DeployJobs, HandlerDies(j) PROVE RowTypes'
    BY <2>20, <1>0, DeployAssumption
       DEF HandlerDies, Handled, Mishap, HasLock, JobTypes, HostTypes, RowTypes, lockRows
  <2>21. ASSUME NEW e \in Envs, Ages(e) PROVE RowTypes'
    BY <2>21, <1>0, DeployAssumption
       DEF Ages, HasLock, Mishap, jobVars, hostVars, JobTypes, HostTypes, RowTypes, lockRows
  <2>22. ASSUME BootSweeps PROVE RowTypes'
    BY <2>22, <1>0, DeployAssumption
       DEF BootSweeps, Terminal, jobVars, hostVars, Over, JobTypes, HostTypes, RowTypes, lockRows
  <2>23. ASSUME UNCHANGED deployVars PROVE RowTypes'
    BY <2>23, <1>0, DeployAssumption
       DEF deployVars, JobTypes, HostTypes, RowTypes, lockRows
  <2>24. QED
    BY <1>0, <2>1, <2>2, <2>3, <2>4, <2>5, <2>6, <2>7, <2>8, <2>9, <2>10, <2>11, <2>12, <2>13, <2>14, <2>15, <2>16, <2>17, <2>18, <2>19, <2>20, <2>21, <2>22, <2>23
       DEF DeployNext, DeployHandler
<1>4. QED
  BY <1>1, <1>2, <1>3 DEF DeployTypeOK

\* The state of the deploys has its type in every reachable state.
THEOREM DeployTypeCorrect == DeploySpec => []DeployTypeOK
  BY DeployTypeInit, DeployTypeStep, PTL DEF DeploySpec

-----------------------------------------------------------------------------
\* Only a cancel makes a zombie.
ZombiesCancelled == zombies # {} => "cancel" \in mishaps

\* Whoever is under the lock owns the row, and nobody may take it.
RowHeld ==
    mishaps \intersect {"cancel", "stale"} = {} =>
        \A j \in DeployJobs : phase[j] \in HasLock => row[env[j]] = j /\ env[j] \notin overdue

LockInv == ZombiesCancelled /\ RowHeld

LEMMA LockExcludes == LockInv => OneDeploy
  BY DEF LockInv, RowHeld, OneDeploy

LEMMA LockInit == DeployInit => LockInv
  BY DEF DeployInit, LockInv, ZombiesCancelled, RowHeld, HasLock

LEMMA LockStep == DeployTypeOK /\ LockInv /\ [DeployNext]_deployVars => LockInv'
<1> SUFFICES ASSUME DeployTypeOK, LockInv, [DeployNext]_deployVars PROVE LockInv'
  OBVIOUS
<1>0. JobTypes /\ RowTypes /\ ZombiesCancelled /\ RowHeld /\ [DeployNext]_deployVars
  BY DEF DeployTypeOK, LockInv
<1>1. ZombiesCancelled'
  <2>1. ASSUME NEW j \in DeployJobs, Ships(j) PROVE ZombiesCancelled'
    BY <2>1, <1>0
       DEF Ships, Queues, lockRows, hostVars, ZombiesCancelled, JobTypes, jobVars
  <2>2. ASSUME NEW j \in DeployJobs, Asks(j) PROVE ZombiesCancelled'
    BY <2>2, <1>0
       DEF Asks, Queues, lockRows, hostVars, ZombiesCancelled, JobTypes, jobVars
  <2>3. ASSUME NEW j \in DeployJobs, Promoted(j) PROVE ZombiesCancelled'
    BY <2>3, <1>0
       DEF Promoted, Queues, lockRows, hostVars, ZombiesCancelled, JobTypes, jobVars
  <2>4. ASSUME NEW j \in DeployJobs, AutoFiles(j) PROVE ZombiesCancelled'
    BY <2>4, <1>0
       DEF AutoFiles, Queues, lockRows, hostVars, ZombiesCancelled, JobTypes, jobVars
  <2>5. ASSUME NEW j \in DeployJobs, Starts(j) PROVE ZombiesCancelled'
    BY <2>5, <1>0
       DEF Starts, lockRows, hostVars, ZombiesCancelled, JobTypes, jobVars
  <2>6. ASSUME NEW j \in DeployJobs, GetsLock(j) PROVE ZombiesCancelled'
    BY <2>6, <1>0
       DEF GetsLock, hostVars, ZombiesCancelled, JobTypes, jobVars
  <2>7. ASSUME NEW j \in DeployJobs, GivesUp(j) PROVE ZombiesCancelled'
    BY <2>7, <1>0
       DEF GivesUp, Ends, lockRows, hostVars, ZombiesCancelled, JobTypes, jobVars
  <2>8. ASSUME NEW j \in DeployJobs, Coalesces(j) PROVE ZombiesCancelled'
    BY <2>8, <1>0
       DEF Coalesces, Ends, hostVars, ZombiesCancelled, JobTypes, jobVars
  <2>9. ASSUME NEW j \in DeployJobs, Syncs(j) PROVE ZombiesCancelled'
    BY <2>9, <1>0
       DEF Syncs, lockRows, ZombiesCancelled, JobTypes, jobVars
  <2>10. ASSUME NEW j \in DeployJobs, Breaks(j) PROVE ZombiesCancelled'
    BY <2>10, <1>0
       DEF Breaks, HasLock, EndsFailed, hostVars, Ends, ZombiesCancelled, JobTypes, jobVars
  <2>11. ASSUME NEW j \in DeployJobs, FailsLive(j) PROVE ZombiesCancelled'
    BY <2>11, <1>0
       DEF FailsLive, EndsFailed, Ends, ZombiesCancelled, JobTypes, jobVars
  <2>12. ASSUME NEW j \in DeployJobs, ComesUpDead(j) PROVE ZombiesCancelled'
    BY <2>12, <1>0
       DEF ComesUpDead, Mishap, EndsFailed, Ends, ZombiesCancelled, JobTypes, jobVars
  <2>13. ASSUME NEW j \in DeployJobs, Swaps(j) PROVE ZombiesCancelled'
    BY <2>13, <1>0
       DEF Swaps, ZombiesCancelled, JobTypes, jobVars
  <2>14. ASSUME NEW j \in DeployJobs, ReadsHead(j) PROVE ZombiesCancelled'
    BY <2>14, <1>0
       DEF ReadsHead, Misreads, lockRows, hostVars, ZombiesCancelled, JobTypes, jobVars
  <2>15. ASSUME NEW j \in DeployJobs, FailsLate(j) PROVE ZombiesCancelled'
    BY <2>15, <1>0
       DEF FailsLate, Unverified, Ends, lockRows, hostVars, ZombiesCancelled, JobTypes, jobVars
  <2>16. ASSUME NEW j \in DeployJobs, Finishes(j) PROVE ZombiesCancelled'
    BY <2>16, <1>0
       DEF Finishes, Ends, lockRows, hostVars, ZombiesCancelled, JobTypes, jobVars
  <2>17. ASSUME NEW j \in DeployJobs, Restarts(j) PROVE ZombiesCancelled'
    BY <2>17, <1>0
       DEF Restarts, Ends, lockRows, hostVars, ZombiesCancelled, JobTypes, jobVars
  <2>18. ASSUME NEW j \in DeployJobs, Reconciles(j) PROVE ZombiesCancelled'
    BY <2>18, <1>0
       DEF Reconciles, Misreads, Ends, lockRows, hostVars, ZombiesCancelled, JobTypes, jobVars
  <2>19. ASSUME NEW j \in DeployJobs, CancelsDeploy(j) PROVE ZombiesCancelled'
    BY <2>19, <1>0
       DEF CancelsDeploy, Handled, Mishap, lockRows, hostVars, HasLock, ZombiesCancelled, JobTypes, jobVars
  <2>20. ASSUME NEW j \in DeployJobs, HandlerDies(j) PROVE ZombiesCancelled'
    BY <2>20, <1>0
       DEF HandlerDies, Handled, Ends, Mishap, lockRows, HasLock, ZombiesCancelled, JobTypes, jobVars
  <2>21. ASSUME NEW e \in Envs, Ages(e) PROVE ZombiesCancelled'
    BY <2>21, <1>0
       DEF Ages, HasLock, Mishap, hostVars, ZombiesCancelled, JobTypes, jobVars
  <2>22. ASSUME BootSweeps PROVE ZombiesCancelled'
    BY <2>22, <1>0
       DEF BootSweeps, Terminal, hostVars, Over, ZombiesCancelled, JobTypes, jobVars
  <2>23. ASSUME UNCHANGED deployVars PROVE ZombiesCancelled'
    BY <2>23, <1>0
       DEF deployVars, ZombiesCancelled, JobTypes, jobVars
  <2>24. QED
    BY <1>0, <2>1, <2>2, <2>3, <2>4, <2>5, <2>6, <2>7, <2>8, <2>9, <2>10, <2>11, <2>12, <2>13, <2>14, <2>15, <2>16, <2>17, <2>18, <2>19, <2>20, <2>21, <2>22, <2>23
       DEF DeployNext, DeployHandler
<1>2. ASSUME NEW k \in DeployJobs, mishaps' \intersect {"cancel", "stale"} = {},
             (phase[k] \in HasLock)'
      PROVE (row[env[k]] = k /\ env[k] \notin overdue)'
  <2>1. ASSUME NEW j \in DeployJobs, Ships(j) PROVE (row[env[k]] = k /\ env[k] \notin overdue)'
    BY <2>1, <1>0, <1>2, DeployAssumption
       DEF Ships, Queues, hostVars, JobTypes, RowTypes, ZombiesCancelled, RowHeld, HasLock, Handled, Over, jobVars, lockRows
  <2>2. ASSUME NEW j \in DeployJobs, Asks(j) PROVE (row[env[k]] = k /\ env[k] \notin overdue)'
    BY <2>2, <1>0, <1>2, DeployAssumption
       DEF Asks, Queues, hostVars, JobTypes, RowTypes, ZombiesCancelled, RowHeld, HasLock, Handled, Over, jobVars, lockRows
  <2>3. ASSUME NEW j \in DeployJobs, Promoted(j) PROVE (row[env[k]] = k /\ env[k] \notin overdue)'
    BY <2>3, <1>0, <1>2, DeployAssumption
       DEF Promoted, Queues, hostVars, JobTypes, RowTypes, ZombiesCancelled, RowHeld, HasLock, Handled, Over, jobVars, lockRows
  <2>4. ASSUME NEW j \in DeployJobs, AutoFiles(j) PROVE (row[env[k]] = k /\ env[k] \notin overdue)'
    BY <2>4, <1>0, <1>2, DeployAssumption
       DEF AutoFiles, Queues, hostVars, JobTypes, RowTypes, ZombiesCancelled, RowHeld, HasLock, Handled, Over, jobVars, lockRows
  <2>5. ASSUME NEW j \in DeployJobs, Starts(j) PROVE (row[env[k]] = k /\ env[k] \notin overdue)'
    BY <2>5, <1>0, <1>2, DeployAssumption
       DEF Starts, hostVars, JobTypes, RowTypes, ZombiesCancelled, RowHeld, HasLock, Handled, Over, jobVars, lockRows
  <2>6. ASSUME NEW j \in DeployJobs, GetsLock(j) PROVE (row[env[k]] = k /\ env[k] \notin overdue)'
    BY <2>6, <1>0, <1>2, DeployAssumption
       DEF GetsLock, Available, hostVars, Reapable, Terminal, JobTypes, RowTypes, ZombiesCancelled, RowHeld, HasLock, Handled, Over, jobVars, lockRows
  <2>7. ASSUME NEW j \in DeployJobs, GivesUp(j) PROVE (row[env[k]] = k /\ env[k] \notin overdue)'
    BY <2>7, <1>0, <1>2, DeployAssumption
       DEF GivesUp, Available, Ends, hostVars, Reapable, Terminal, JobTypes, RowTypes, ZombiesCancelled, RowHeld, HasLock, Handled, Over, jobVars, lockRows
  <2>8. ASSUME NEW j \in DeployJobs, Coalesces(j) PROVE (row[env[k]] = k /\ env[k] \notin overdue)'
    BY <2>8, <1>0, <1>2, DeployAssumption
       DEF Coalesces, Ends, GivesBack, hostVars, JobTypes, RowTypes, ZombiesCancelled, RowHeld, HasLock, Handled, Over, jobVars, lockRows
  <2>9. ASSUME NEW j \in DeployJobs, Syncs(j) PROVE (row[env[k]] = k /\ env[k] \notin overdue)'
    BY <2>9, <1>0, <1>2, DeployAssumption
       DEF Syncs, JobTypes, RowTypes, ZombiesCancelled, RowHeld, HasLock, Handled, Over, jobVars, lockRows
  <2>10. ASSUME NEW j \in DeployJobs, Breaks(j) PROVE (row[env[k]] = k /\ env[k] \notin overdue)'
    BY <2>10, <1>0, <1>2, DeployAssumption
       DEF Breaks, EndsFailed, hostVars, Ends, GivesBack, JobTypes, RowTypes, ZombiesCancelled, RowHeld, HasLock, Handled, Over, jobVars, lockRows
  <2>11. ASSUME NEW j \in DeployJobs, FailsLive(j) PROVE (row[env[k]] = k /\ env[k] \notin overdue)'
    BY <2>11, <1>0, <1>2, DeployAssumption
       DEF FailsLive, EndsFailed, Ends, GivesBack, JobTypes, RowTypes, ZombiesCancelled, RowHeld, HasLock, Handled, Over, jobVars, lockRows
  <2>12. ASSUME NEW j \in DeployJobs, ComesUpDead(j) PROVE (row[env[k]] = k /\ env[k] \notin overdue)'
    BY <2>12, <1>0, <1>2, DeployAssumption
       DEF ComesUpDead, Mishap, EndsFailed, Ends, GivesBack, JobTypes, RowTypes, ZombiesCancelled, RowHeld, HasLock, Handled, Over, jobVars, lockRows
  <2>13. ASSUME NEW j \in DeployJobs, Swaps(j) PROVE (row[env[k]] = k /\ env[k] \notin overdue)'
    BY <2>13, <1>0, <1>2, DeployAssumption
       DEF Swaps, GivesBack, JobTypes, RowTypes, ZombiesCancelled, RowHeld, HasLock, Handled, Over, jobVars, lockRows
  <2>14. ASSUME NEW j \in DeployJobs, ReadsHead(j) PROVE (row[env[k]] = k /\ env[k] \notin overdue)'
    BY <2>14, <1>0, <1>2, DeployAssumption
       DEF ReadsHead, Misreads, hostVars, JobTypes, RowTypes, ZombiesCancelled, RowHeld, HasLock, Handled, Over, jobVars, lockRows
  <2>15. ASSUME NEW j \in DeployJobs, FailsLate(j) PROVE (row[env[k]] = k /\ env[k] \notin overdue)'
    BY <2>15, <1>0, <1>2, DeployAssumption
       DEF FailsLate, Unverified, Ends, hostVars, JobTypes, RowTypes, ZombiesCancelled, RowHeld, HasLock, Handled, Over, jobVars, lockRows
  <2>16. ASSUME NEW j \in DeployJobs, Finishes(j) PROVE (row[env[k]] = k /\ env[k] \notin overdue)'
    BY <2>16, <1>0, <1>2, DeployAssumption
       DEF Finishes, Ends, hostVars, JobTypes, RowTypes, ZombiesCancelled, RowHeld, HasLock, Handled, Over, jobVars, lockRows
  <2>17. ASSUME NEW j \in DeployJobs, Restarts(j) PROVE (row[env[k]] = k /\ env[k] \notin overdue)'
    BY <2>17, <1>0, <1>2, DeployAssumption
       DEF Restarts, Ends, hostVars, JobTypes, RowTypes, ZombiesCancelled, RowHeld, HasLock, Handled, Over, jobVars, lockRows
  <2>18. ASSUME NEW j \in DeployJobs, Reconciles(j) PROVE (row[env[k]] = k /\ env[k] \notin overdue)'
    BY <2>18, <1>0, <1>2, DeployAssumption
       DEF Reconciles, Misreads, Ends, hostVars, JobTypes, RowTypes, ZombiesCancelled, RowHeld, HasLock, Handled, Over, jobVars, lockRows
  <2>19. ASSUME NEW j \in DeployJobs, CancelsDeploy(j) PROVE (row[env[k]] = k /\ env[k] \notin overdue)'
    BY <2>19, <1>0, <1>2, DeployAssumption
       DEF CancelsDeploy, Mishap, hostVars, JobTypes, RowTypes, ZombiesCancelled, RowHeld, HasLock, Handled, Over, jobVars, lockRows
  <2>20. ASSUME NEW j \in DeployJobs, HandlerDies(j) PROVE (row[env[k]] = k /\ env[k] \notin overdue)'
    BY <2>20, <1>0, <1>2, DeployAssumption
       DEF HandlerDies, Ends, Mishap, JobTypes, RowTypes, ZombiesCancelled, RowHeld, HasLock, Handled, Over, jobVars, lockRows
  <2>21. ASSUME NEW e \in Envs, Ages(e) PROVE (row[env[k]] = k /\ env[k] \notin overdue)'
    BY <2>21, <1>0, <1>2, DeployAssumption
       DEF Ages, Reapable, Mishap, hostVars, Terminal, JobTypes, RowTypes, ZombiesCancelled, RowHeld, HasLock, Handled, Over, jobVars, lockRows
  <2>22. ASSUME BootSweeps PROVE (row[env[k]] = k /\ env[k] \notin overdue)'
    BY <2>22, <1>0, <1>2, DeployAssumption
       DEF BootSweeps, Terminal, hostVars, JobTypes, RowTypes, ZombiesCancelled, RowHeld, HasLock, Handled, Over, jobVars, lockRows
  <2>23. ASSUME UNCHANGED deployVars PROVE (row[env[k]] = k /\ env[k] \notin overdue)'
    BY <2>23, <1>0, <1>2, DeployAssumption
       DEF deployVars, JobTypes, RowTypes, ZombiesCancelled, RowHeld, HasLock, Handled, Over, jobVars, lockRows
  <2>24. QED
    BY <1>0, <2>1, <2>2, <2>3, <2>4, <2>5, <2>6, <2>7, <2>8, <2>9, <2>10, <2>11, <2>12, <2>13, <2>14, <2>15, <2>16, <2>17, <2>18, <2>19, <2>20, <2>21, <2>22, <2>23
       DEF DeployNext, DeployHandler
<1>3. QED
  BY <1>1, <1>2 DEF LockInv, RowHeld

\* Until a running deploy is cancelled or outlives its row, an environment has
\* one job under the deploy lock.
THEOREM DeployExclusive == DeploySpec => []OneDeploy
  BY DeployTypeInit, DeployTypeStep, LockInit, LockStep, LockExcludes, PTL DEF DeploySpec

-----------------------------------------------------------------------------
\* Recorded, served, checked out, tip: in this order, until a mishap.
Ordered ==
    /\ \A e \in Envs : checkout[e] <= origin
    /\ mishaps = {} =>
        \A e \in Envs : ledger[e] <= serving[e] /\ serving[e] <= checkout[e]

\* What a job was filed for is in what its handler builds and records.
Carries(j) ==
    /\ need[j] <= origin /\ commit[j] <= origin
    /\ mishaps = {} =>
        /\ phase[j] = "new" => before[j] = 0
        /\ before[j] <= serving[env[j]]
        /\ phase[j] \in {"building", "shipped", "named", "deploying"} => need[j] <= commit[j]
        /\ phase[j] = "building" => commit[j] = checkout[env[j]]
        /\ phase[j] \in {"shipped", "named", "deploying"} => commit[j] <= serving[env[j]]
        /\ phase[j] = "done" => need[j] <= serving[env[j]]

Carried == \A j \in DeployJobs : Carries(j)

ServedInv == Ordered /\ Carried

LEMMA ServedSuffices == ServedInv => DoneIsServed
  BY DEF ServedInv, Ordered, Carried, Carries, DoneIsServed

LEMMA ServedInit == DeployInit => ServedInv
  BY DeployAssumption DEF DeployInit, ServedInv, Ordered, Carried, Carries

LEMMA ServedStep ==
    DeployTypeOK /\ OneDeploy /\ ServedInv /\ [DeployNext]_deployVars => ServedInv'
<1> SUFFICES ASSUME DeployTypeOK, OneDeploy, ServedInv, [DeployNext]_deployVars PROVE ServedInv'
  OBVIOUS
<1>0. JobTypes /\ HostTypes /\ OneDeploy /\ Ordered /\ Carried /\ [DeployNext]_deployVars
  BY DEF DeployTypeOK, ServedInv
<1>a. \A i \in DeployJobs : Carries(i)
  BY <1>0 DEF Carried
<1>1. Ordered'
  <2>1. ASSUME NEW j \in DeployJobs, Ships(j) PROVE Ordered'
    BY <2>1, <1>0, <1>a, DeployAssumption
       DEF Ships, Queues, lockRows, JobTypes, HostTypes, Commits, Ordered, Carries, jobVars, hostVars
  <2>2. ASSUME NEW j \in DeployJobs, Asks(j) PROVE Ordered'
    BY <2>2, <1>0, <1>a, DeployAssumption
       DEF Asks, Queues, lockRows, JobTypes, HostTypes, Commits, Ordered, Carries, jobVars, hostVars
  <2>3. ASSUME NEW j \in DeployJobs, Promoted(j) PROVE Ordered'
    BY <2>3, <1>0, <1>a, DeployAssumption
       DEF Promoted, Queues, lockRows, JobTypes, HostTypes, Commits, Ordered, Carries, jobVars, hostVars
  <2>4. ASSUME NEW j \in DeployJobs, AutoFiles(j) PROVE Ordered'
    BY <2>4, <1>0, <1>a, DeployAssumption
       DEF AutoFiles, Queues, lockRows, JobTypes, HostTypes, Commits, Ordered, Carries, jobVars, hostVars
  <2>5. ASSUME NEW j \in DeployJobs, Starts(j) PROVE Ordered'
    BY <2>5, <1>0, <1>a, DeployAssumption
       DEF Starts, lockRows, JobTypes, HostTypes, Commits, Ordered, Carries, jobVars, hostVars
  <2>6. ASSUME NEW j \in DeployJobs, GetsLock(j) PROVE Ordered'
    BY <2>6, <1>0, <1>a, DeployAssumption
       DEF GetsLock, JobTypes, HostTypes, Commits, Ordered, Carries, jobVars, hostVars
  <2>7. ASSUME NEW j \in DeployJobs, GivesUp(j) PROVE Ordered'
    BY <2>7, <1>0, <1>a, DeployAssumption
       DEF GivesUp, lockRows, JobTypes, HostTypes, Commits, Ordered, Carries, jobVars, hostVars
  <2>8. ASSUME NEW j \in DeployJobs, Coalesces(j) PROVE Ordered'
    BY <2>8, <1>0, <1>a, DeployAssumption
       DEF Coalesces, JobTypes, HostTypes, Commits, Ordered, Carries, jobVars, hostVars
  <2>9. ASSUME NEW j \in DeployJobs, Syncs(j) PROVE Ordered'
    BY <2>9, <1>0, <1>a, DeployAssumption
       DEF Syncs, lockRows, JobTypes, HostTypes, Commits, Ordered, Carries, jobVars, hostVars
  <2>10. ASSUME NEW j \in DeployJobs, Breaks(j) PROVE Ordered'
    BY <2>10, <1>0, <1>a, DeployAssumption
       DEF Breaks, HasLock, EndsFailed, JobTypes, HostTypes, Commits, Ordered, Carries, jobVars, hostVars
  <2>11. ASSUME NEW j \in DeployJobs, FailsLive(j) PROVE Ordered'
    BY <2>11, <1>0, <1>a, DeployAssumption
       DEF FailsLive, EndsFailed, JobTypes, HostTypes, Commits, Ordered, Carries, jobVars, hostVars
  <2>12. ASSUME NEW j \in DeployJobs, ComesUpDead(j) PROVE Ordered'
    BY <2>12, <1>0, <1>a, DeployAssumption
       DEF ComesUpDead, Mishap, EndsFailed, JobTypes, HostTypes, Commits, Ordered, Carries, jobVars, hostVars
  <2>13. ASSUME NEW j \in DeployJobs, Swaps(j) PROVE Ordered'
    BY <2>13, <1>0, <1>a, DeployAssumption
       DEF Swaps, JobTypes, HostTypes, Commits, Ordered, Carries, jobVars, hostVars
  <2>14. ASSUME NEW j \in DeployJobs, ReadsHead(j) PROVE Ordered'
    BY <2>14, <1>0, <1>a, DeployAssumption
       DEF ReadsHead, Misreads, lockRows, HeadMatches, JobTypes, HostTypes, Commits, Ordered, Carries, jobVars, hostVars
  <2>15. ASSUME NEW j \in DeployJobs, FailsLate(j) PROVE Ordered'
    BY <2>15, <1>0, <1>a, DeployAssumption
       DEF FailsLate, Unverified, lockRows, JobTypes, HostTypes, Commits, Ordered, Carries, jobVars, hostVars
  <2>16. ASSUME NEW j \in DeployJobs, Finishes(j) PROVE Ordered'
    BY <2>16, <1>0, <1>a, DeployAssumption
       DEF Finishes, lockRows, JobTypes, HostTypes, Commits, Ordered, Carries, jobVars, hostVars
  <2>17. ASSUME NEW j \in DeployJobs, Restarts(j) PROVE Ordered'
    BY <2>17, <1>0, <1>a, DeployAssumption
       DEF Restarts, lockRows, JobTypes, HostTypes, Commits, Ordered, Carries, jobVars, hostVars
  <2>18. ASSUME NEW j \in DeployJobs, Reconciles(j) PROVE Ordered'
    BY <2>18, <1>0, <1>a, DeployAssumption
       DEF Reconciles, Misreads, lockRows, HeadMatches, JobTypes, HostTypes, Commits, Ordered, Carries, jobVars, hostVars
  <2>19. ASSUME NEW j \in DeployJobs, CancelsDeploy(j) PROVE Ordered'
    BY <2>19, <1>0, <1>a, DeployAssumption
       DEF CancelsDeploy, Handled, Mishap, lockRows, HasLock, JobTypes, HostTypes, Commits, Ordered, Carries, jobVars, hostVars
  <2>20. ASSUME NEW j \in DeployJobs, HandlerDies(j) PROVE Ordered'
    BY <2>20, <1>0, <1>a, DeployAssumption, SMTT(30)
       DEF HandlerDies, Handled, Mishap, lockRows, HasLock, JobTypes, HostTypes, Commits, Ordered, Carries, jobVars, hostVars
  <2>21. ASSUME NEW e \in Envs, Ages(e) PROVE Ordered'
    BY <2>21, <1>0, <1>a, DeployAssumption
       DEF Ages, HasLock, Mishap, JobTypes, HostTypes, Commits, Ordered, Carries, jobVars, hostVars
  <2>22. ASSUME BootSweeps PROVE Ordered'
    BY <2>22, <1>0, <1>a, DeployAssumption
       DEF BootSweeps, Terminal, Over, JobTypes, HostTypes, Commits, Ordered, Carries, jobVars, hostVars
  <2>23. ASSUME UNCHANGED deployVars PROVE Ordered'
    BY <2>23, <1>0, <1>a, DeployAssumption
       DEF deployVars, JobTypes, HostTypes, Commits, Ordered, Carries, jobVars, hostVars
  <2>24. QED
    BY <1>0, <2>1, <2>2, <2>3, <2>4, <2>5, <2>6, <2>7, <2>8, <2>9, <2>10, <2>11, <2>12, <2>13, <2>14, <2>15, <2>16, <2>17, <2>18, <2>19, <2>20, <2>21, <2>22, <2>23
       DEF DeployNext, DeployHandler
<1>2. ASSUME NEW k \in DeployJobs PROVE Carries(k)'
  <2>1. ASSUME NEW j \in DeployJobs, Ships(j) PROVE Carries(k)'
    BY <2>1, <1>0, <1>a, DeployAssumption
       DEF Ships, Queues, lockRows, JobTypes, HostTypes, OneDeploy, Ordered, Carries, Commits, HasLock, jobVars, hostVars
  <2>2. ASSUME NEW j \in DeployJobs, Asks(j) PROVE Carries(k)'
    BY <2>2, <1>0, <1>a, DeployAssumption
       DEF Asks, Queues, lockRows, JobTypes, HostTypes, OneDeploy, Ordered, Carries, Commits, HasLock, jobVars, hostVars
  <2>3. ASSUME NEW j \in DeployJobs, Promoted(j) PROVE Carries(k)'
    BY <2>3, <1>0, <1>a, DeployAssumption
       DEF Promoted, Queues, lockRows, JobTypes, HostTypes, OneDeploy, Ordered, Carries, Commits, HasLock, jobVars, hostVars
  <2>4. ASSUME NEW j \in DeployJobs, AutoFiles(j) PROVE Carries(k)'
    BY <2>4, <1>0, <1>a, DeployAssumption
       DEF AutoFiles, Queues, lockRows, JobTypes, HostTypes, OneDeploy, Ordered, Carries, Commits, HasLock, jobVars, hostVars
  <2>5. ASSUME NEW j \in DeployJobs, Starts(j) PROVE Carries(k)'
    BY <2>5, <1>0, <1>a, DeployAssumption
       DEF Starts, lockRows, JobTypes, HostTypes, OneDeploy, Ordered, Carries, Commits, HasLock, jobVars, hostVars
  <2>6. ASSUME NEW j \in DeployJobs, GetsLock(j) PROVE Carries(k)'
    BY <2>6, <1>0, <1>a, DeployAssumption
       DEF GetsLock, JobTypes, HostTypes, OneDeploy, Ordered, Carries, Commits, HasLock, jobVars, hostVars
  <2>7. ASSUME NEW j \in DeployJobs, GivesUp(j) PROVE Carries(k)'
    BY <2>7, <1>0, <1>a, DeployAssumption
       DEF GivesUp, Ends, lockRows, JobTypes, HostTypes, OneDeploy, Ordered, Carries, Commits, HasLock, jobVars, hostVars
  <2>8. ASSUME NEW j \in DeployJobs, Coalesces(j) PROVE Carries(k)'
    BY <2>8, <1>0, <1>a, DeployAssumption
       DEF Coalesces, Ends, JobTypes, HostTypes, OneDeploy, Ordered, Carries, Commits, HasLock, jobVars, hostVars
  <2>9. ASSUME NEW j \in DeployJobs, Syncs(j) PROVE Carries(k)'
    BY <2>9, <1>0, <1>a, DeployAssumption
       DEF Syncs, lockRows, JobTypes, HostTypes, OneDeploy, Ordered, Carries, Commits, HasLock, jobVars, hostVars
  <2>10. ASSUME NEW j \in DeployJobs, Breaks(j) PROVE Carries(k)'
    BY <2>10, <1>0, <1>a, DeployAssumption
       DEF Breaks, EndsFailed, Ends, JobTypes, HostTypes, OneDeploy, Ordered, Carries, Commits, HasLock, jobVars, hostVars
  <2>11. ASSUME NEW j \in DeployJobs, FailsLive(j) PROVE Carries(k)'
    BY <2>11, <1>0, <1>a, DeployAssumption
       DEF FailsLive, EndsFailed, Ends, JobTypes, HostTypes, OneDeploy, Ordered, Carries, Commits, HasLock, jobVars, hostVars
  <2>12. ASSUME NEW j \in DeployJobs, ComesUpDead(j) PROVE Carries(k)'
    BY <2>12, <1>0, <1>a, DeployAssumption
       DEF ComesUpDead, Mishap, EndsFailed, Ends, JobTypes, HostTypes, OneDeploy, Ordered, Carries, Commits, HasLock, jobVars, hostVars
  <2>13. ASSUME NEW j \in DeployJobs, Swaps(j) PROVE Carries(k)'
    BY <2>13, <1>0, <1>a, DeployAssumption
       DEF Swaps, JobTypes, HostTypes, OneDeploy, Ordered, Carries, Commits, HasLock, jobVars, hostVars
  <2>14. ASSUME NEW j \in DeployJobs, ReadsHead(j) PROVE Carries(k)'
    BY <2>14, <1>0, <1>a, DeployAssumption
       DEF ReadsHead, Misreads, lockRows, HeadMatches, JobTypes, HostTypes, OneDeploy, Ordered, Carries, Commits, HasLock, jobVars, hostVars
  <2>15. ASSUME NEW j \in DeployJobs, FailsLate(j) PROVE Carries(k)'
    BY <2>15, <1>0, <1>a, DeployAssumption
       DEF FailsLate, Unverified, Ends, lockRows, JobTypes, HostTypes, OneDeploy, Ordered, Carries, Commits, HasLock, jobVars, hostVars
  <2>16. ASSUME NEW j \in DeployJobs, Finishes(j) PROVE Carries(k)'
    BY <2>16, <1>0, <1>a, DeployAssumption
       DEF Finishes, Ends, lockRows, JobTypes, HostTypes, OneDeploy, Ordered, Carries, Commits, HasLock, jobVars, hostVars
  <2>17. ASSUME NEW j \in DeployJobs, Restarts(j) PROVE Carries(k)'
    BY <2>17, <1>0, <1>a, DeployAssumption
       DEF Restarts, Ends, lockRows, JobTypes, HostTypes, OneDeploy, Ordered, Carries, Commits, HasLock, jobVars, hostVars
  <2>18. ASSUME NEW j \in DeployJobs, Reconciles(j) PROVE Carries(k)'
    BY <2>18, <1>0, <1>a, DeployAssumption
       DEF Reconciles, Misreads, Ends, lockRows, HeadMatches, JobTypes, HostTypes, OneDeploy, Ordered, Carries, Commits, HasLock, jobVars, hostVars
  <2>19. ASSUME NEW j \in DeployJobs, CancelsDeploy(j) PROVE Carries(k)'
    BY <2>19, <1>0, <1>a, DeployAssumption
       DEF CancelsDeploy, Handled, Mishap, lockRows, JobTypes, HostTypes, OneDeploy, Ordered, Carries, Commits, HasLock, jobVars, hostVars
  <2>20. ASSUME NEW j \in DeployJobs, HandlerDies(j) PROVE Carries(k)'
    <3>1. CASE UNCHANGED <<serving, mishaps>>
      BY <2>20, <3>1, <1>0, <1>a, DeployAssumption, SMTT(60)
         DEF HandlerDies, Handled, Ends, Mishap, lockRows, JobTypes, HostTypes, OneDeploy, Ordered, Carries, Commits, HasLock, jobVars, hostVars
    <3>2. CASE phase[j] = "building" /\ serving' = [serving EXCEPT ![env[j]] = commit[j]] /\ UNCHANGED mishaps
      BY <2>20, <3>2, <1>0, <1>a, DeployAssumption, SMTT(60)
         DEF HandlerDies, Handled, Ends, Mishap, lockRows, JobTypes, HostTypes, OneDeploy, Ordered, Carries, Commits, HasLock, jobVars, hostVars
    <3>3. CASE phase[j] = "building" /\ serving' = [serving EXCEPT ![env[j]] = 0] /\ Mishap("dead")
      BY <2>20, <3>3, <1>0, <1>a, DeployAssumption, SMTT(60)
         DEF HandlerDies, Handled, Ends, Mishap, lockRows, JobTypes, HostTypes, OneDeploy, Ordered, Carries, Commits, HasLock, jobVars, hostVars
    <3> QED
      BY <2>20, <3>1, <3>2, <3>3 DEF HandlerDies
  <2>21. ASSUME NEW e \in Envs, Ages(e) PROVE Carries(k)'
    BY <2>21, <1>0, <1>a, DeployAssumption
       DEF Ages, Mishap, JobTypes, HostTypes, OneDeploy, Ordered, Carries, Commits, HasLock, jobVars, hostVars
  <2>22. ASSUME BootSweeps PROVE Carries(k)'
    BY <2>22, <1>0, <1>a, DeployAssumption
       DEF BootSweeps, Terminal, Over, JobTypes, HostTypes, OneDeploy, Ordered, Carries, Commits, HasLock, jobVars, hostVars
  <2>23. ASSUME UNCHANGED deployVars PROVE Carries(k)'
    BY <2>23, <1>0, <1>a, DeployAssumption
       DEF deployVars, JobTypes, HostTypes, OneDeploy, Ordered, Carries, Commits, HasLock, jobVars, hostVars
  <2>24. QED
    BY <1>0, <2>1, <2>2, <2>3, <2>4, <2>5, <2>6, <2>7, <2>8, <2>9, <2>10, <2>11, <2>12, <2>13, <2>14, <2>15, <2>16, <2>17, <2>18, <2>19, <2>20, <2>21, <2>22, <2>23
       DEF DeployNext, DeployHandler
<1>3. QED
  BY <1>1, <1>2 DEF ServedInv, Carried

\* Until a mishap, what is done is in service, and the ledger is true.
THEOREM DeployTruth == DeploySpec => []DoneIsServed
  BY DeployTypeInit, DeployTypeStep, LockInit, LockStep, LockExcludes,
     ServedInit, ServedStep, ServedSuffices, PTL DEF DeploySpec

=============================================================================
