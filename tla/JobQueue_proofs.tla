--------------------------- MODULE JobQueue_proofs ---------------------------
(***************************************************************************)
(* What holds of JobQueue for any number of jobs, workers, agents and      *)
(* stages.  Type correctness and the agents' capacity need no assumption   *)
(* on timing; exclusive execution and what follows from it is proved for   *)
(* the paths on which heartbeats are timely (CleanPaths).                  *)
(***************************************************************************)
EXTENDS JobQueue, FiniteSetTheorems, TLAPS

-----------------------------------------------------------------------------
(* Type correctness, part by part *)

\* A worker that has claimed a job holds a job object of the right type.
LEMMA HoldType ==
    ASSUME TypeOK, NEW w \in Worker, NEW j \in Job, NEW a \in Agent \union {None},
           Hold(w, j, a)
    PROVE  WorkerTypeOK'
<1> USE DEF TypeOK, RowTypeOK, WorkerTypeOK, Hold
<1>1. pc' \in [Worker -> PC] /\ mjob' \in [Worker -> Job \union {None}]
    BY DEF PC
<1>2. \A v \in Worker : pc'[v] \notin {"idle", "down"} => mjob'[v] \in Job
    OBVIOUS
<1>3. mstage' \in [Worker -> Stage] /\ magent' \in [Worker -> Agent \union {None}]
    OBVIOUS
<1>4. mowned' \in [Worker -> BOOLEAN] /\ mresolved' \in [Worker -> BOOLEAN]
    OBVIOUS
<1>5. mlease' \in [Worker -> NoLease..TTL] /\ beat' \in [Worker -> 0..Beat]
    BY TimeAssumption DEF NoLease
<1> QED
    BY <1>1, <1>2, <1>3, <1>4, <1>5

\* So does a worker that has let go of its job.
LEMMA LetGoType ==
    ASSUME TypeOK, NEW w \in Worker, LetGo(w)
    PROVE  WorkerTypeOK'
<1> USE DEF TypeOK, WorkerTypeOK, LetGo
<1>1. pc' \in [Worker -> PC] /\ mjob' \in [Worker -> Job \union {None}]
    BY DEF PC
<1>2. \A v \in Worker : pc'[v] \notin {"idle", "down"} => mjob'[v] \in Job
    OBVIOUS
<1>3. mstage' \in [Worker -> Stage] /\ magent' \in [Worker -> Agent \union {None}]
    BY StageAssumption
<1>4. mowned' \in [Worker -> BOOLEAN] /\ mresolved' \in [Worker -> BOOLEAN]
    OBVIOUS
<1>5. mlease' \in [Worker -> NoLease..TTL] /\ beat' \in [Worker -> 0..Beat]
    BY TimeAssumption DEF NoLease
<1> QED
    BY <1>1, <1>2, <1>3, <1>4, <1>5

\* So does a worker that has saved its job for the last time.
LEMMA ToTailType ==
    ASSUME TypeOK, NEW w \in Worker, NEW s \in Stage, NEW o \in BOOLEAN,
           InHandler(w), ToTail(w, s, o)
    PROVE  WorkerTypeOK'
<1> USE DEF TypeOK, WorkerTypeOK, ToTail, InHandler
<1>1. pc' \in [Worker -> PC]
    BY DEF PC
<1>2. \A v \in Worker : pc'[v] \notin {"idle", "down"} => mjob'[v] \in Job
    OBVIOUS
<1>3. mstage' \in [Worker -> Stage] /\ mowned' \in [Worker -> BOOLEAN]
    OBVIOUS
<1>4. beat' \in [Worker -> 0..Beat]
    BY TimeAssumption
<1> QED
    BY <1>1, <1>2, <1>3, <1>4

\* A save leaves a row of the right type.
LEMMA SaveType ==
    ASSUME TypeOK, NEW w \in Worker, mjob[w] \in Job,
           NEW st \in Status, NEW s \in Stage, NEW o \in Worker \union {None},
           NEW l \in NoLease..TTL, NEW c \in 0..Backoff,
           Save(w, st, s, o, l, c), UNCHANGED paused
    PROVE  RowTypeOK'
<1> USE DEF TypeOK, RowTypeOK, WorkerTypeOK
<1>1. CASE status[mjob[w]] \in Terminal
    BY <1>1 DEF Save, row
<1>2. CASE status[mjob[w]] \notin Terminal
  <2>1. Write(w, st, s, o, l, c)
      BY <1>2 DEF Save
  <2>2. status' \in [Job -> Status] /\ stage' \in [Job -> Stage]
      BY <2>1 DEF Write
  <2>3. owner' \in [Job -> Worker \union {None}] /\ agent' \in [Job -> Agent \union {None}]
      BY <2>1 DEF Write
  <2>4. lease' \in [Job -> NoLease..TTL] /\ cool' \in [Job -> 0..Backoff]
      BY <2>1 DEF Write
  <2>5. resolved' \subseteq Job
      BY <2>1 DEF Write
  <2> QED
      BY <2>2, <2>3, <2>4, <2>5
<1> QED
    BY <1>1, <1>2

\* The saves of a handler: the row and the worker that goes on to its tail.
LEMMA FinalSaveType ==
    ASSUME TypeOK, NEW w \in Worker, InHandler(w),
           NEW st \in Status, NEW s \in Stage, NEW o \in Worker \union {None},
           NEW c \in 0..Backoff, NEW b \in BOOLEAN,
           Save(w, st, s, o, NoLease, c), ToTail(w, s, b), UNCHANGED paused
    PROVE  TypeOK'
<1>1. mjob[w] \in Job
    BY DEF TypeOK, WorkerTypeOK, InHandler
<1>2. NoLease \in NoLease..TTL
    BY TimeAssumption DEF NoLease
<1>3. RowTypeOK'
    BY <1>1, <1>2, SaveType
<1>4. WorkerTypeOK'
    BY ToTailType
<1> QED
    BY <1>3, <1>4 DEF TypeOK

LEMMA InitType == Init => TypeOK
BY StageAssumption, TimeAssumption
   DEF Init, TypeOK, RowTypeOK, WorkerTypeOK, Status, PC, NoLease

\* Every step keeps the types.
LEMMA NextType == TypeOK /\ [Next]_vars => TypeOK'
<1> SUFFICES ASSUME TypeOK, [Next]_vars PROVE TypeOK'
    OBVIOUS
<1>0. /\ NoLease \in NoLease..TTL /\ TTL \in NoLease..TTL
      /\ 0 \in 0..Backoff /\ Backoff \in 0..Backoff /\ 0 \in 0..Beat /\ Pause \in 0..Pause
    BY TimeAssumption DEF NoLease
<1>st. /\ "PENDING" \in Status /\ "RUNNING" \in Status /\ "DEPLOYING" \in Status
       /\ "DONE" \in Status /\ "FAILED" \in Status /\ "CANCELLED" \in Status
    BY DEF Status
<1>held. \A w \in Worker : Held(w) \in Worker \union {None}
    BY DEF Held
<1>typed. \A w \in Worker : /\ mstage[w] \in Stage /\ mowned[w] \in BOOLEAN
                            /\ InHandler(w) \/ pc[w] \in {"raised", "failing"}
                                 => mjob[w] \in Job
    BY DEF TypeOK, WorkerTypeOK, InHandler
<1>tgt. \A s \in Stage : Target[s] \subseteq Stage
    BY StageAssumption
<1>reclaimed. Reclaimed \in [Job -> Status]
    BY <1>st DEF TypeOK, RowTypeOK, Reclaimed
<1>1. ASSUME NEW w \in Worker, Claim(w) PROVE TypeOK'
  <2>1. PICK j \in Job, a \in Agent \union {None} :
            /\ status' = [Reclaimed EXCEPT ![j] = "RUNNING"]
            /\ owner' = [k \in Job |-> IF k = j THEN w
                                       ELSE IF k \in Expired THEN None ELSE owner[k]]
            /\ lease' = [k \in Job |-> IF k = j THEN TTL
                                       ELSE IF k \in Expired THEN NoLease ELSE lease[k]]
            /\ agent' = [agent EXCEPT ![j] = a]
            /\ Hold(w, j, a)
      BY <1>1 DEF Claim
  <2>2. WorkerTypeOK'
      BY <2>1, HoldType
  <2>3. RowTypeOK'
      BY <1>1, <2>1, <1>0, <1>st, <1>reclaimed DEF Claim, TypeOK, RowTypeOK
  <2> QED
      BY <2>2, <2>3 DEF TypeOK
<1>2. ASSUME NEW w \in Worker, ClaimNothing(w) PROVE TypeOK'
    BY <1>2, <1>0, <1>reclaimed DEF ClaimNothing, TypeOK, RowTypeOK, WorkerTypeOK, worker
<1>3. ASSUME NEW w \in Worker, ClaimFastpath(w) PROVE TypeOK'
  <2>1. mjob[w] \in Job
      BY <1>3 DEF ClaimFastpath, TypeOK, WorkerTypeOK
  <2>2. WorkerTypeOK'
      BY <1>3, <2>1, HoldType DEF ClaimFastpath
  <2>3. RowTypeOK'
      BY <1>3, <2>1, <1>0, <1>st DEF ClaimFastpath, TypeOK, RowTypeOK
  <2> QED
      BY <2>2, <2>3 DEF TypeOK
<1>4. ASSUME NEW w \in Worker, BackToPolling(w) \/ DropJob(w) \/ NoticeCancel(w)
      PROVE  TypeOK'
  <2>1. LetGo(w) /\ UNCHANGED <<row, resolved, paused>>
      BY <1>4 DEF BackToPolling, DropJob, NoticeCancel
  <2>2. WorkerTypeOK'
      BY <2>1, LetGoType
  <2> QED
      BY <2>1, <2>2 DEF TypeOK, RowTypeOK, row
<1>5. ASSUME NEW w \in Worker, Rerun(w) PROVE TypeOK'
    BY <1>5, <1>0 DEF Rerun, TypeOK, RowTypeOK, WorkerTypeOK, row, PC
<1>6. ASSUME NEW w \in Worker, Renew(w) PROVE TypeOK'
    BY <1>6, <1>0, <1>typed DEF Renew, TypeOK, RowTypeOK, WorkerTypeOK
<1>7. ASSUME NEW w \in Worker, Advance(w) PROVE TypeOK'
  <2>1. PICK s \in Target[mstage[w]] \ {DoneStage} :
            Save(w, "PENDING", s, Held(w), NoLease, 0) /\ ToTail(w, s, mowned[w])
      BY <1>7 DEF Advance
  <2> QED
      BY <1>7, <2>1, <1>0, <1>st, <1>held, <1>typed, <1>tgt, FinalSaveType DEF Advance
<1>8. ASSUME NEW w \in Worker, Yield(w) PROVE TypeOK'
  <2>1. PICK s \in (Target[mstage[w]] \union {mstage[w]}) \ {DoneStage} :
            Save(w, "PENDING", s, None, NoLease, Backoff) /\ ToTail(w, s, FALSE)
      BY <1>8 DEF Yield
  <2>2. s \in Stage
      BY <1>typed, <1>tgt
  <2> QED
      BY <1>8, <2>1, <2>2, <1>0, <1>st, FinalSaveType DEF Yield
<1>9. ASSUME NEW w \in Worker, HandlerTimeout(w) PROVE TypeOK'
    BY <1>9, <1>0, <1>st, <1>typed, FinalSaveType DEF HandlerTimeout
<1>10. ASSUME NEW w \in Worker, Finish(w) PROVE TypeOK'
    BY <1>10, <1>0, <1>st, <1>held, <1>typed, StageAssumption, FinalSaveType DEF Finish
<1>11. ASSUME NEW w \in Worker, GiveUp(w) PROVE TypeOK'
    BY <1>11, <1>0, <1>st, <1>held, <1>typed, FinalSaveType DEF GiveUp
<1>12. ASSUME NEW w \in Worker, Supersede(w) PROVE TypeOK'
    BY <1>12, <1>0, <1>st, <1>held, <1>typed, StageAssumption, FinalSaveType DEF Supersede
<1>13. ASSUME NEW w \in Worker, DeployDone(w) \/ DeployRestart(w) PROVE TypeOK'
  <2>1. PICK st \in {"DONE", "DEPLOYING"}, s \in {DoneStage, mstage[w]} :
            DeployWrite(w, st, s)
      BY <1>13 DEF DeployDone, DeployRestart
  <2>2. st \in Status /\ s \in Stage /\ mjob[w] \in Job
      BY <2>1, <1>st, <1>typed, StageAssumption DEF DeployWrite
  <2>3. WorkerTypeOK'
      BY <2>1, <2>2, <1>typed, ToTailType DEF DeployWrite
  <2>4. RowTypeOK'
      BY <2>1, <2>2, <1>0 DEF DeployWrite, TypeOK, RowTypeOK, row
  <2> QED
      BY <2>3, <2>4 DEF TypeOK
<1>14. ASSUME NEW w \in Worker, MidSave(w) PROVE TypeOK'
  <2>1. mlease[w] \in NoLease..TTL /\ mjob[w] \in Job
      BY <1>14, <1>typed DEF MidSave, InHandler, TypeOK, WorkerTypeOK
  <2>2. RowTypeOK'
      BY <1>14, <2>1, <1>0, <1>st, <1>held, <1>typed, SaveType DEF MidSave
  <2>3. WorkerTypeOK'
      BY <1>14, <2>1 DEF MidSave, TypeOK, WorkerTypeOK, PC
  <2> QED
      BY <2>2, <2>3 DEF TypeOK
<1>15. ASSUME NEW w \in Worker, BaselineBlock(w) PROVE TypeOK'
  <2>1. WorkerTypeOK'
      BY <1>15, <1>typed, ToTailType DEF BaselineBlock
  <2>2. RowTypeOK'
      BY <1>15, <1>0, <1>st, <1>typed DEF BaselineBlock, TypeOK, RowTypeOK
  <2> QED
      BY <2>1, <2>2 DEF TypeOK
<1>16. ASSUME NEW w \in Worker, Raise(w) PROVE TypeOK'
    BY <1>16 DEF Raise, InHandler, TypeOK, RowTypeOK, WorkerTypeOK, PC, row
<1>17. ASSUME NEW w \in Worker, TimedOut(w) PROVE TypeOK'
  <2>1. RowTypeOK'
      BY <1>17, <1>0, <1>st, <1>typed, SaveType DEF TimedOut
  <2> QED
      BY <1>17, <2>1, LetGoType DEF TimedOut, TypeOK
<1>18. ASSUME NEW w \in Worker, FailJob(w) PROVE TypeOK'
  <2>1. RowTypeOK'
      BY <1>18, <1>0, <1>st, <1>held, <1>typed, SaveType DEF FailJob
  <2> QED
      BY <1>18, <2>1, LetGoType DEF FailJob, TypeOK
<1>19. ASSUME NEW w \in Worker, Failover(w) PROVE TypeOK'
  <2>1. RowTypeOK'
      BY <1>19, <1>0, <1>st, <1>typed DEF Failover, FailsOver, TypeOK, RowTypeOK, row
  <2> QED
      BY <1>19, <2>1, LetGoType DEF Failover, FailsOver, TypeOK
<1>20. ASSUME NEW w \in Worker, SaveFails(w) PROVE TypeOK'
  <2>1. PICK s \in Target[mstage[w]] \union {mstage[w]} :
            mstage' = [mstage EXCEPT ![w] = s]
      BY <1>20 DEF SaveFails
  <2>2. s \in Stage
      BY <1>typed, <1>tgt
  <2>3. mowned' \in [Worker -> BOOLEAN]
      BY <1>20, <1>typed DEF SaveFails, TypeOK, WorkerTypeOK
  <2> QED
      BY <1>20, <2>1, <2>2, <2>3
         DEF SaveFails, InHandler, TypeOK, RowTypeOK, WorkerTypeOK, PC, row
<1>21. ASSUME NEW w \in Worker, ClearFails(w) \/ TailError(w) PROVE TypeOK'
    BY <1>21 DEF ClearFails, TailError, TypeOK, RowTypeOK, WorkerTypeOK, PC, row
<1>22. ASSUME NEW w \in Worker, Crash(w) PROVE TypeOK'
    BY <1>22, <1>0, StageAssumption
       DEF Crash, TypeOK, RowTypeOK, WorkerTypeOK, PC, row
<1>23. ASSUME NEW j \in Job, JobStep(j) PROVE TypeOK'
  <2>1. CASE Cancel(j)
      BY <2>1, <1>0, <1>st DEF Cancel, TypeOK, RowTypeOK, WorkerTypeOK, worker
  <2>2. CASE Retry(j)
      BY <2>2, <1>0, <1>st, StageAssumption
         DEF Retry, Reopen, TypeOK, RowTypeOK, WorkerTypeOK, worker
  <2>3. CASE Requeue(j)
    <3>1. PICK s \in RequeueStage \union {FirstStage} : Reopen(j, s)
        BY <2>3 DEF Requeue
    <3>2. s \in Stage /\ cool' \in [Job -> 0..Backoff]
        BY <2>3, <1>0, StageAssumption DEF Requeue, TypeOK, RowTypeOK
    <3> QED
        BY <3>1, <3>2, <1>0, <1>st DEF Reopen, TypeOK, RowTypeOK, WorkerTypeOK, worker
  <2>4. CASE ReconcileToDone(j) \/ FinalizeDeploying(j) \/ StartupReconcile(j)
    <3>1. CASE ReconcileToDone(j)
        BY <3>1, <1>0, <1>st, StageAssumption DEF ReconcileToDone, TypeOK, RowTypeOK, WorkerTypeOK, worker
    <3>2. CASE FinalizeDeploying(j)
        BY <3>2, <1>0, <1>st, StageAssumption DEF FinalizeDeploying, TypeOK, RowTypeOK, WorkerTypeOK, worker
    <3>3. CASE StartupReconcile(j)
        BY <3>3, <1>0, <1>st, StageAssumption DEF StartupReconcile, TypeOK, RowTypeOK, WorkerTypeOK, worker
    <3> QED
        BY <2>4, <3>1, <3>2, <3>3
  <2>5. CASE Resolve(j)
      BY <2>5 DEF Resolve, TypeOK, RowTypeOK, WorkerTypeOK, worker, row
  <2>6. CASE SupersedeFailed(j) \/ BlockDependent(j)
      BY <2>6, <1>0, <1>st
         DEF SupersedeFailed, BlockDependent, TypeOK, RowTypeOK, WorkerTypeOK, worker
  <2> QED
      BY <1>23, <2>1, <2>2, <2>3, <2>4, <2>5, <2>6 DEF JobStep
<1>24. CASE Tick
  <2>1. \A t \in NoLease..TTL : Older(t) \in NoLease..TTL
      BY TimeAssumption DEF Older, NoLease
  <2>2. \A n \in Nat : \A t \in 0..n : Sooner(t) \in 0..n
      BY DEF Sooner
  <2>3. lease' \in [Job -> NoLease..TTL] /\ mlease' \in [Worker -> NoLease..TTL]
      BY <1>24, <2>1 DEF Tick, TypeOK, RowTypeOK, WorkerTypeOK
  <2>4. cool' \in [Job -> 0..Backoff]
      BY <1>24, <2>2, TimeAssumption DEF Tick, TypeOK, RowTypeOK
  <2>5. paused' \in [{Provider[a] : a \in Agent} -> 0..Pause]
      BY <1>24, <2>2, TimeAssumption DEF Tick, TypeOK, RowTypeOK
  <2>6. beat' \in [Worker -> 0..Beat]
      BY <1>24, TimeAssumption DEF Tick, TypeOK, WorkerTypeOK
  <2> QED
      BY <1>24, <2>3, <2>4, <2>5, <2>6 DEF Tick, TypeOK, RowTypeOK, WorkerTypeOK
<1>25. CASE UNCHANGED vars
    BY <1>25 DEF vars, row, worker, TypeOK, RowTypeOK, WorkerTypeOK
<1> QED
    BY <1>1, <1>2, <1>3, <1>4, <1>5, <1>6, <1>7, <1>8, <1>9, <1>10, <1>11, <1>12,
       <1>13, <1>14, <1>15, <1>16, <1>17, <1>18, <1>19, <1>20, <1>21, <1>22,
       <1>23, <1>24, <1>25
       DEF Next, WorkerStep

\* The types of the rows and of the workers' job objects.
THEOREM TypeCorrect == Spec => []TypeOK
BY InitType, NextType, PTL DEF Spec

-----------------------------------------------------------------------------
(* What holds without timely heartbeats *)

\* Only a claim makes a row RUNNING: any other write that leaves it RUNNING
\* leaves its agent alone.  (A handler that saves in mid-flight is the exception.)
LEMMA OnlyClaimsRun ==
    ASSUME TypeOK, "mid_save" \notin Races, [Next]_vars,
           \A w \in Worker : ~Claim(w) /\ ~ClaimFastpath(w)
    PROVE  \A j \in Job : status'[j] = "RUNNING" =>
                              status[j] = "RUNNING" /\ agent'[j] = agent[j]
<1> DEFINE Kept == \A j \in Job : status'[j] = "RUNNING" =>
                              status[j] = "RUNNING" /\ agent'[j] = agent[j]
<1>1. ASSUME NEW w \in Worker, mjob[w] \in Job,
             NEW st \in Status \ {"RUNNING"}, NEW s, NEW o, NEW l, NEW c,
             Save(w, st, s, o, l, c)
      PROVE  Kept
  <2>1. CASE status[mjob[w]] \in Terminal
      BY <1>1, <2>1 DEF Save, row
  <2>2. CASE status[mjob[w]] \notin Terminal
      BY <1>1, <2>2 DEF Save, Write, TypeOK, RowTypeOK
  <2> QED
      BY <2>1, <2>2
<1>2. ASSUME NEW w \in Worker, WorkerStep(w) PROVE Kept
  <2>0. \A st \in {"PENDING", "DONE", "FAILED", "CANCELLED"} : st \in Status \ {"RUNNING"}
      BY DEF Status
  <2>1. InHandler(w) \/ pc[w] \in {"raised", "failing"} => mjob[w] \in Job
      BY DEF TypeOK, WorkerTypeOK, InHandler
  <2>2. CASE Advance(w)
      BY <1>1, <2>0, <2>1, <2>2 DEF Advance
  <2>3. CASE Yield(w)
      BY <1>1, <2>0, <2>1, <2>3 DEF Yield
  <2>4. CASE HandlerTimeout(w)
      BY <1>1, <2>0, <2>1, <2>4 DEF HandlerTimeout
  <2>5. CASE Finish(w)
      BY <1>1, <2>0, <2>1, <2>5 DEF Finish
  <2>6. CASE GiveUp(w)
      BY <1>1, <2>0, <2>1, <2>6 DEF GiveUp
  <2>7. CASE Supersede(w)
      BY <1>1, <2>0, <2>1, <2>7 DEF Supersede
  <2>8. CASE DeployDone(w) \/ DeployRestart(w)
      BY <2>1, <2>8 DEF DeployDone, DeployRestart, DeployWrite, row, TypeOK, RowTypeOK
  <2>9. CASE BaselineBlock(w)
      BY <2>1, <2>9 DEF BaselineBlock, TypeOK, RowTypeOK
  <2>10. CASE TimedOut(w)
      BY <1>1, <2>0, <2>1, <2>10 DEF TimedOut
  <2>11. CASE FailJob(w)
      BY <1>1, <2>0, <2>1, <2>11 DEF FailJob
  <2>12. CASE Failover(w)
      BY <2>1, <2>12 DEF Failover, FailsOver, row, TypeOK, RowTypeOK
  <2>13. CASE ClaimNothing(w)
      BY <2>13 DEF ClaimNothing, Reclaimed
  <2>14. CASE \/ BackToPolling(w) \/ Rerun(w) \/ Renew(w) \/ Raise(w)
              \/ NoticeCancel(w) \/ DropJob(w) \/ SaveFails(w) \/ ClearFails(w)
              \/ TailError(w) \/ Crash(w)
      BY <2>14 DEF BackToPolling, Rerun, Renew, Raise, NoticeCancel, DropJob,
                   SaveFails, ClearFails, TailError, Crash, row
  <2>15. ~MidSave(w)
      BY DEF MidSave
  <2> QED
      BY <1>2, <2>2, <2>3, <2>4, <2>5, <2>6, <2>7, <2>8, <2>9, <2>10, <2>11, <2>12,
         <2>13, <2>14, <2>15 DEF WorkerStep
<1>3. ASSUME NEW j \in Job, JobStep(j) PROVE Kept
    BY <1>3 DEF JobStep, Cancel, Retry, Requeue, Reopen, ReconcileToDone,
                SupersedeFailed, BlockDependent, FinalizeDeploying,
                StartupReconcile, Terminal, Resolve, row, TypeOK, RowTypeOK
<1>4. CASE Tick \/ UNCHANGED vars
    BY <1>4 DEF Tick, vars, row
<1> QED
    BY <1>2, <1>3, <1>4 DEF Next

\* The load of an agent grows by the claim that is given to it, and by nothing else.
LEMMA CapacityStep ==
    ASSUME TypeOK, AgentCapacity, "mid_save" \notin Races, [Next]_vars
    PROVE  AgentCapacity'
<1> SUFFICES ASSUME NEW a \in Agent PROVE Load(a, status)' <= MaxConcurrency[a]
    BY DEF AgentCapacity
<1> DEFINE Busy == {j \in Job : status[j] = "RUNNING" /\ agent[j] = a}
<1>1. /\ IsFiniteSet(Busy) /\ Cardinality(Busy) \in Nat
      /\ Cardinality(Busy) <= MaxConcurrency[a] /\ MaxConcurrency[a] \in Nat
    BY JobAssumption, AgentAssumption, FS_Subset, FS_CardinalityType
       DEF AgentCapacity, Load
<1>2. ASSUME Busy' \subseteq Busy PROVE Cardinality(Busy') <= MaxConcurrency[a]
  <2>1. Cardinality(Busy') <= Cardinality(Busy) /\ Cardinality(Busy') \in Nat
      BY <1>1, <1>2, FS_Subset, FS_CardinalityType
  <2> QED
      BY <1>1, <2>1
<1>3. ASSUME NEW w \in Worker, Claim(w) PROVE Cardinality(Busy') <= MaxConcurrency[a]
  <2>1. PICK j \in Job, b \in Agent \union {None} :
            /\ Picked(b, stage[j], Reclaimed)
            /\ status' = [Reclaimed EXCEPT ![j] = "RUNNING"]
            /\ agent' = [agent EXCEPT ![j] = b]
      BY <1>3 DEF Claim
  <2>2. \A k \in Job \ {j} : k \in Busy' => k \in Busy
      BY <2>1 DEF Reclaimed
  <2>3. CASE b # a
    <3>1. j \notin Busy'
        BY <2>1, <2>3 DEF TypeOK, RowTypeOK
    <3> QED
        BY <1>2, <2>2, <3>1
  <2>4. CASE b = a
    <3> DEFINE Rest == {k \in Job : Reclaimed[k] = "RUNNING" /\ agent[k] = a}
    <3>1. Cardinality(Rest) < MaxConcurrency[a]
        BY <2>1, <2>4, NoneAssumption DEF Picked, Available, Load
    <3>2. IsFiniteSet(Rest) /\ Cardinality(Rest) \in Nat
        BY JobAssumption, FS_Subset, FS_CardinalityType
    <3>3. Busy' \subseteq Rest \union {j}
        BY <2>1, <2>4 DEF Reclaimed
    <3>4. /\ IsFiniteSet(Rest \union {j})
          /\ Cardinality(Rest \union {j}) \in Nat
          /\ Cardinality(Rest \union {j}) <= Cardinality(Rest) + 1
      <4> HIDE DEF Rest
      <4>1. /\ IsFiniteSet(Rest \union {j})
            /\ Cardinality(Rest \union {j}) =
                   IF j \in Rest THEN Cardinality(Rest) ELSE Cardinality(Rest) + 1
          BY <3>2, FS_AddElement
      <4> QED
          BY <3>2, <4>1
    <3>5. Cardinality(Busy') <= Cardinality(Rest \union {j}) /\ Cardinality(Busy') \in Nat
        BY <3>3, <3>4, FS_Subset, FS_CardinalityType
    <3> QED
        BY <1>1, <3>1, <3>2, <3>4, <3>5
  <2> QED
      BY <2>3, <2>4
<1>4. ASSUME NEW w \in Worker, ClaimFastpath(w)
      PROVE  Cardinality(Busy') <= MaxConcurrency[a]
  <2>1. Busy' \subseteq Busy
    <3>1. mjob[w] \in Job
        BY <1>4 DEF ClaimFastpath, TypeOK, WorkerTypeOK
    <3>2. agent'[mjob[w]] = None /\ a # None
        BY <1>4, <3>1, NoneAssumption DEF ClaimFastpath, TypeOK, RowTypeOK
    <3>3. \A k \in Job \ {mjob[w]} : k \in Busy' => k \in Busy
        BY <1>4, <3>1 DEF ClaimFastpath
    <3> QED
        BY <3>2, <3>3
  <2> QED
      BY <1>2, <2>1
<1>5. ASSUME \A w \in Worker : ~Claim(w) /\ ~ClaimFastpath(w)
      PROVE  Cardinality(Busy') <= MaxConcurrency[a]
  <2>1. Busy' \subseteq Busy
      BY <1>5, OnlyClaimsRun
  <2> QED
      BY <1>2, <2>1
<1>6. Cardinality(Busy') <= MaxConcurrency[a]
    BY <1>3, <1>4, <1>5
<1> QED
    BY <1>6 DEF Load

\* No agent is ever given more jobs than max_concurrency: not even when heartbeats
\* stop, workers die, and stages are run twice.
THEOREM CapacityHonored ==
    ASSUME "mid_save" \notin Races PROVE Spec => []AgentCapacity
<1>1. Init => TypeOK /\ AgentCapacity
  <2>1. ASSUME Init, NEW a \in Agent PROVE Load(a, status) <= MaxConcurrency[a]
    <3>1. {j \in Job : status[j] = "RUNNING" /\ agent[j] = a} = {}
        BY <2>1 DEF Init
    <3>2. Load(a, status) = 0
        BY <3>1, FS_EmptySet DEF Load
    <3> QED
        BY <3>2, AgentAssumption
  <2> QED
      BY <2>1, InitType DEF AgentCapacity
<1>2. TypeOK /\ AgentCapacity /\ [Next]_vars => (TypeOK /\ AgentCapacity)'
    BY NextType, CapacityStep
<1> QED
    BY <1>1, <1>2, PTL DEF Spec

\* Nothing but a retry touches the status of a cancelled row.
LEMMA CancelledStep ==
    ASSUME TypeOK, "baseline_block" \notin Races, [Next]_vars,
           NEW j \in Job, status[j] = "CANCELLED", ~Retry(j)
    PROVE  status'[j] = "CANCELLED"
<1>1. ASSUME NEW w \in Worker, mjob[w] \in Job,
             NEW st, NEW s, NEW o, NEW l, NEW c, Save(w, st, s, o, l, c)
      PROVE  status'[j] = "CANCELLED"
    BY <1>1 DEF Save, Write, Terminal, row, TypeOK, RowTypeOK
<1>2. ASSUME NEW w \in Worker, WorkerStep(w) PROVE status'[j] = "CANCELLED"
  <2>1. /\ InHandler(w) \/ pc[w] \in {"raised", "failing", "tail"} => mjob[w] \in Job
        /\ pc[w] \in {"run", "again"} => InHandler(w)
      BY DEF TypeOK, WorkerTypeOK, InHandler
  <2>2. CASE Advance(w) \/ Yield(w)
      BY <1>1, <2>1, <2>2 DEF Advance, Yield
  <2>3. CASE HandlerTimeout(w) \/ Finish(w)
      BY <1>1, <2>1, <2>3 DEF HandlerTimeout, Finish
  <2>4. CASE GiveUp(w) \/ Supersede(w)
      BY <1>1, <2>1, <2>4 DEF GiveUp, Supersede
  <2>5. CASE TimedOut(w) \/ FailJob(w)
      BY <1>1, <2>1, <2>5 DEF TimedOut, FailJob
  <2>6. CASE DeployDone(w) \/ DeployRestart(w)
      BY <2>1, <2>6 DEF DeployDone, DeployRestart, DeployWrite, row, TypeOK, RowTypeOK
  <2>7. CASE Failover(w)
      BY <2>1, <2>7 DEF Failover, FailsOver, OwnsClaim, row, TypeOK, RowTypeOK
  <2>8. CASE Claim(w) \/ ClaimNothing(w)
      BY <2>8 DEF Claim, ClaimNothing, Runnable, Reclaimed, Expired, TypeOK, RowTypeOK
  <2>9. CASE ClaimFastpath(w)
      BY <2>1, <2>9 DEF ClaimFastpath, FastpathEligible, Runnable, TypeOK, RowTypeOK
  <2>10. CASE \/ BackToPolling(w) \/ Rerun(w) \/ Renew(w) \/ Raise(w)
              \/ NoticeCancel(w) \/ DropJob(w) \/ SaveFails(w) \/ ClearFails(w)
              \/ TailError(w) \/ Crash(w)
      BY <2>10 DEF BackToPolling, Rerun, Renew, Raise, NoticeCancel, DropJob,
                   SaveFails, ClearFails, TailError, Crash, row
  <2>11. ~BaselineBlock(w)
      BY DEF BaselineBlock
  <2>12. CASE MidSave(w)
    <3>1. mjob[w] \in Job
        BY <2>1, <2>12 DEF MidSave
    <3>2. PICK st, l : Save(w, st, mstage[w], Held(w), l, 0)
        BY <2>12 DEF MidSave
    <3> QED
        BY <1>1, <3>1, <3>2
  <2> QED
      BY <1>2, <2>2, <2>3, <2>4, <2>5, <2>6, <2>7, <2>8, <2>9, <2>10, <2>11, <2>12
         DEF WorkerStep
<1>3. ASSUME NEW k \in Job, JobStep(k) PROVE status'[j] = "CANCELLED"
    BY <1>3 DEF JobStep, Cancel, Retry, Requeue, Reopen, ReconcileToDone,
                SupersedeFailed, BlockDependent, FinalizeDeploying,
                StartupReconcile, Terminal, Resolve, row, TypeOK, RowTypeOK
<1>4. CASE Tick \/ UNCHANGED vars
    BY <1>4 DEF Tick, vars, row
<1> QED
    BY <1>2, <1>3, <1>4 DEF Next

\* Where the baseline gate does not write, a cancelled job stays cancelled until it
\* is retried: late saves, double runs and failovers included.
THEOREM CancelledForGood ==
    ASSUME "baseline_block" \notin Races PROVE Spec => CancelledStays
<1>1. TypeOK /\ [Next]_vars =>
          [\A j \in Job : status[j] = "CANCELLED" /\ status'[j] # "CANCELLED"
              => Retry(j)]_vars
    BY CancelledStep
<1> QED
    BY <1>1, TypeCorrect, PTL DEF Spec, CancelledStays

-----------------------------------------------------------------------------
(* What one step does, seen from the jobs and from the workers that run them *)

\* The paths on which a handler's heartbeat is timely and nothing but the final
\* save of a handler is written under its claim.
CleanPaths == Races \subseteq {"baseline_block"}

\* A cancelled job does not leave its stage either while a worker is still at it.
AtStage == \A w \in Worker : Executing(w) => stage[mjob[w]] = mstage[w]

\* The inductive invariant: the promise, the reason for it, and the exits that
\* the clean paths do not take.
IInv ==
    /\ ExclusiveExecution
    /\ ClaimHeld
    /\ AtStage
    /\ \A w \in Worker : pc[w] \notin {"saved", "rerun", "again", "failing"}

SameWorker(v) ==
    /\ pc'[v] = pc[v] /\ mjob'[v] = mjob[v] /\ mstage'[v] = mstage[v]
    /\ mowned'[v] = mowned[v] /\ mresolved'[v] = mresolved[v] /\ beat'[v] = beat[v]

SameRow(k) ==
    /\ status'[k] = status[k] /\ owner'[k] = owner[k] /\ lease'[k] = lease[k]
    /\ stage'[k] = stage[k] /\ (k \in resolved' <=> k \in resolved)

\* Worker w takes job j; leases that have run out are reclaimed on the way.
Taken(w, j) ==
    /\ pc[w] \in {"idle", "tail"} /\ pc'[w] = "run" /\ mjob'[w] = j
    /\ Runnable(j, Reclaimed)
    /\ Holds(w)'
    /\ stage' = stage /\ resolved' = resolved
    /\ \A v \in Worker \ {w} : SameWorker(v)
    /\ \A k \in Job \ {j} : SameRow(k) \/ (k \in Expired /\ status'[k] = "PENDING")

\* Worker w stops carrying out its job, and writes no other row.
Ended(w) ==
    /\ Executing(w) /\ pc'[w] \in {"idle", "tail", "down"}
    /\ resolved' = resolved
    /\ \A v \in Worker \ {w} : SameWorker(v)
    /\ \A k \in Job \ {mjob[w]} : SameRow(k)
    /\ status'[mjob[w]] = "RUNNING" => SameRow(mjob[w])

\* Nobody starts or stops: a heartbeat, a tick, a poll, an operator.  A row that
\* somebody works on stays as it is or is cancelled.
Quiet ==
    /\ \A v \in Worker :
          /\ pc'[v] \notin {"saved", "rerun", "again", "failing"}
          /\ Executing(v)' <=> Executing(v)
          /\ Executing(v) => /\ mjob'[v] = mjob[v] /\ mstage'[v] = mstage[v]
                             /\ stage'[mjob[v]] = stage[mjob[v]]
                             /\ Holds(v) => Holds(v)' \/ status'[mjob[v]] = "CANCELLED"
                             /\ status[mjob[v]] = "CANCELLED"
                                  => status'[mjob[v]] = "CANCELLED"
    /\ \A k \in Job :
          /\ status'[k] = "RUNNING" => status[k] = "RUNNING"
          /\ stage'[k] # stage[k] => status[k] \in {"FAILED", "CANCELLED", "DEPLOYING"}

\* Of the quiet steps, those after which the same jobs are done and excused;
\* those that declare a job done nobody works on; those that excuse a job.
NoNews ==
    /\ Quiet
    /\ resolved' = resolved
    /\ \A k \in Job : status'[k] = "DONE" <=> status[k] = "DONE"

DeclaredDone(j) ==
    /\ Quiet
    /\ resolved' = resolved
    /\ \A v \in Worker : Executing(v) => mjob[v] # j
    /\ \A k \in Job : status'[k] = "DONE" <=> k = j \/ status[k] = "DONE"

Excused(j) ==
    /\ Quiet
    /\ resolved' = resolved \union {j}
    /\ \A k \in Job : status'[k] = "DONE" <=> status[k] = "DONE"

\* The row of a job somebody works on is RUNNING with a live lease, or cancelled.
LEMMA HeldRow ==
    ASSUME TypeOK, IInv, NEW w \in Worker, Executing(w)
    PROVE  /\ mjob[w] \in Job
           /\ mjob[w] \notin Expired
           /\ status[mjob[w]] \in {"RUNNING", "CANCELLED"}
           /\ Reclaimed[mjob[w]] # "PENDING"
<1>1. mjob[w] \in Job
    BY DEF TypeOK, WorkerTypeOK, Executing
<1>2. Holds(w) \/ status[mjob[w]] = "CANCELLED"
    BY DEF IInv, ClaimHeld
<1>3. Holds(w) => ~(lease[mjob[w]] < 0)
    BY <1>1, TimeAssumption DEF Holds, TypeOK, RowTypeOK, WorkerTypeOK, NoLease
<1> QED
    BY <1>1, <1>2, <1>3 DEF Holds, Expired, Reclaimed

\* A save touches the row of the worker's job and no other.
LEMMA SaveOthers ==
    ASSUME TypeOK, NEW w \in Worker, mjob[w] \in Job,
           NEW st, NEW s, NEW o, NEW l, NEW c, Save(w, st, s, o, l, c)
    PROVE  \A k \in Job \ {mjob[w]} : SameRow(k)
<1>1. CASE status[mjob[w]] \in Terminal
    BY <1>1 DEF Save, row, SameRow
<1>2. CASE status[mjob[w]] \notin Terminal
    BY <1>2 DEF Save, Write, SameRow, TypeOK, RowTypeOK
<1> QED
    BY <1>1, <1>2

\* A save under a claim writes back the resolution it found.
LEMMA SaveEnds ==
    ASSUME TypeOK, IInv, NEW w \in Worker, Executing(w),
           NEW st \in Status \ {"RUNNING"}, NEW s, NEW o, NEW l, NEW c,
           Save(w, st, s, o, l, c)
    PROVE  /\ resolved' = resolved
           /\ \A k \in Job \ {mjob[w]} : SameRow(k)
           /\ status'[mjob[w]] # "RUNNING"
<1>1. mjob[w] \in Job /\ status[mjob[w]] \in {"RUNNING", "CANCELLED"}
    BY HeldRow
<1>2. \A k \in Job \ {mjob[w]} : SameRow(k)
    BY <1>1, SaveOthers
<1>3. CASE status[mjob[w]] = "CANCELLED"
    BY <1>2, <1>3 DEF Save, Terminal, row
<1>4. CASE status[mjob[w]] = "RUNNING"
  <2>1. Write(w, st, s, o, l, c)
      BY <1>4 DEF Save, Terminal
  <2>2. mresolved[w] = (mjob[w] \in resolved)
      BY <1>4 DEF IInv, ClaimHeld, Holds
  <2>3. resolved' = resolved
      BY <2>1, <2>2 DEF Write
  <2>4. status'[mjob[w]] = st
      BY <1>1, <2>1 DEF Write, TypeOK, RowTypeOK
  <2> QED
      BY <1>2, <2>3, <2>4
<1> QED
    BY <1>1, <1>3, <1>4

\* A claim, on the normal path or on the fast path, takes a job nobody holds.
LEMMA HoldTakes ==
    ASSUME TypeOK, IInv, NEW w \in Worker, NEW j \in Job, NEW a,
           pc[w] \in {"idle", "tail"}, Hold(w, j, a),
           Runnable(j, Reclaimed),
           status'[j] = "RUNNING", owner'[j] = w, lease'[j] = TTL,
           stage' = stage, resolved' = resolved,
           \A k \in Job \ {j} : SameRow(k) \/ (k \in Expired /\ status'[k] = "PENDING")
    PROVE  Taken(w, j)
<1>1. pc'[w] = "run" /\ mjob'[w] = j
    BY DEF Hold, TypeOK, WorkerTypeOK
<1>2. \A v \in Worker \ {w} : SameWorker(v)
    BY DEF Hold, SameWorker, TypeOK, WorkerTypeOK
<1>3. /\ mowned'[w] /\ mstage'[w] = stage[j] /\ mresolved'[w] = (j \in resolved)
      /\ beat'[w] = 0
    BY DEF Hold, TypeOK, WorkerTypeOK
<1>4. Holds(w)'
    BY <1>1, <1>3, TimeAssumption DEF Holds
<1> QED
    BY <1>1, <1>2, <1>4 DEF Taken

LEMMA ClaimTakes ==
    ASSUME TypeOK, IInv, NEW w \in Worker, Claim(w) \/ ClaimFastpath(w)
    PROVE  \E j \in Job : Taken(w, j)
<1>1. CASE Claim(w)
  <2>1. PICK j \in Job, a \in Agent \union {None} :
            /\ Runnable(j, Reclaimed)
            /\ status' = [Reclaimed EXCEPT ![j] = "RUNNING"]
            /\ owner' = [k \in Job |-> IF k = j THEN w
                                       ELSE IF k \in Expired THEN None ELSE owner[k]]
            /\ lease' = [k \in Job |-> IF k = j THEN TTL
                                       ELSE IF k \in Expired THEN NoLease ELSE lease[k]]
            /\ Hold(w, j, a)
      BY <1>1 DEF Claim
  <2>2. /\ status'[j] = "RUNNING" /\ owner'[j] = w /\ lease'[j] = TTL
        /\ stage' = stage /\ resolved' = resolved /\ pc[w] = "idle"
      BY <1>1, <2>1 DEF Claim, Reclaimed
  <2>3. ASSUME NEW k \in Job \ {j}
        PROVE  SameRow(k) \/ (k \in Expired /\ status'[k] = "PENDING")
    <3>1. status'[k] = Reclaimed[k]
        BY <2>1 DEF Reclaimed
    <3> QED
        BY <2>1, <2>2, <3>1 DEF SameRow, Reclaimed
  <2> QED
      BY <2>1, <2>2, <2>3, HoldTakes
<1>2. CASE ClaimFastpath(w)
  <2> DEFINE j == mjob[w]
  <2>1. j \in Job /\ Hold(w, j, None) /\ Runnable(j, status) /\ pc[w] = "tail"
      BY <1>2 DEF ClaimFastpath, FastpathEligible, TypeOK, WorkerTypeOK
  <2>2. Runnable(j, Reclaimed)
      BY <2>1 DEF Runnable, Reclaimed, Expired
  <2>3. /\ status'[j] = "RUNNING" /\ owner'[j] = w /\ lease'[j] = TTL
        /\ stage' = stage /\ resolved' = resolved
      BY <1>2, <2>1 DEF ClaimFastpath, TypeOK, RowTypeOK
  <2>4. \A k \in Job \ {j} : SameRow(k)
      BY <1>2, <2>1 DEF ClaimFastpath, SameRow, TypeOK, RowTypeOK
  <2> QED
      BY <2>1, <2>2, <2>3, <2>4, HoldTakes
<1> QED
    BY <1>1, <1>2

\* Every way out of a stage ends the worker's hold on the job.
LEMMA EndStep ==
    ASSUME TypeOK, IInv, NEW w \in Worker, Executing(w),
           \/ Advance(w) \/ Yield(w) \/ HandlerTimeout(w) \/ Finish(w) \/ GiveUp(w)
           \/ Supersede(w) \/ DeployDone(w) \/ DeployRestart(w) \/ BaselineBlock(w)
           \/ NoticeCancel(w) \/ TimedOut(w) \/ FailJob(w) \/ DropJob(w)
           \/ Failover(w) \/ Crash(w)
    PROVE  Ended(w)
<1>0. /\ mjob[w] \in Job /\ status[mjob[w]] \in {"RUNNING", "CANCELLED"}
      /\ \A st \in {"PENDING", "DONE", "FAILED", "CANCELLED"} : st \in Status \ {"RUNNING"}
    BY HeldRow DEF Status
<1>1. ASSUME LetGo(w)
      PROVE  pc'[w] = "idle" /\ \A v \in Worker \ {w} : SameWorker(v)
    BY <1>1 DEF LetGo, SameWorker, TypeOK, WorkerTypeOK
<1>2. ASSUME NEW s, NEW b, ToTail(w, s, b)
      PROVE  pc'[w] = "tail" /\ \A v \in Worker \ {w} : SameWorker(v)
    BY <1>2 DEF ToTail, SameWorker, TypeOK, WorkerTypeOK
<1>3. ASSUME NEW st \in Status \ {"RUNNING"}, NEW s, NEW o, NEW l, NEW c,
             Save(w, st, s, o, l, c), (\E b : ToTail(w, s, b)) \/ LetGo(w)
      PROVE  Ended(w)
    BY <1>1, <1>2, <1>3, SaveEnds DEF Ended
<1>4. CASE \/ Advance(w) \/ Yield(w) \/ HandlerTimeout(w) \/ Finish(w) \/ GiveUp(w)
           \/ Supersede(w)
  <2>1. PICK st \in {"PENDING", "DONE", "FAILED", "CANCELLED"}, s \in Stage,
             o \in Worker \union {None}, c \in {0, Backoff}, b \in BOOLEAN :
            Save(w, st, s, o, NoLease, c) /\ ToTail(w, s, b)
    <3>1. /\ Held(w) \in Worker \union {None} /\ mowned[w] \in BOOLEAN
          /\ mstage[w] \in Stage /\ Target[mstage[w]] \subseteq Stage
          /\ DoneStage \in Stage /\ FirstStage \in Stage
        BY StageAssumption DEF Held, TypeOK, WorkerTypeOK
    <3>2. CASE Advance(w)
        BY <3>1, <3>2 DEF Advance
    <3>3. CASE Yield(w)
        BY <3>1, <3>3 DEF Yield
    <3>4. CASE HandlerTimeout(w) \/ Finish(w)
        BY <3>1, <3>4 DEF HandlerTimeout, Finish
    <3>5. CASE GiveUp(w) \/ Supersede(w)
        BY <3>1, <3>5 DEF GiveUp, Supersede
    <3> QED
        BY <1>4, <3>2, <3>3, <3>4, <3>5
  <2> QED
      BY <2>1, <1>0, <1>3
<1>5. CASE DeployDone(w) \/ DeployRestart(w)
  <2>1. PICK st \in {"DONE", "DEPLOYING"}, s \in {DoneStage, mstage[w]} : DeployWrite(w, st, s)
      BY <1>5 DEF DeployDone, DeployRestart
  <2>2. /\ resolved' = resolved /\ status'[mjob[w]] # "RUNNING"
        /\ \A k \in Job \ {mjob[w]} : SameRow(k)
      BY <2>1, <1>0 DEF DeployWrite, SameRow, row, TypeOK, RowTypeOK
  <2> QED
      BY <2>1, <2>2, <1>2 DEF DeployWrite, Ended
<1>6. CASE BaselineBlock(w)
  <2>1. /\ resolved' = resolved /\ status'[mjob[w]] # "RUNNING"
        /\ \A k \in Job \ {mjob[w]} : SameRow(k)
      BY <1>6, <1>0 DEF BaselineBlock, SameRow, TypeOK, RowTypeOK
  <2> QED
      BY <1>6, <2>1, <1>2 DEF BaselineBlock, Ended
<1>7. CASE NoticeCancel(w) \/ DropJob(w)
  <2>1. LetGo(w) /\ UNCHANGED <<row, resolved>>
      BY <1>7 DEF NoticeCancel, DropJob
  <2> QED
      BY <2>1, <1>0, <1>1 DEF Ended, SameRow, row
<1>8. CASE TimedOut(w)
    BY <1>8, <1>0, <1>3 DEF TimedOut
<1>9. CASE FailJob(w)
    BY <1>9, <1>0, <1>3 DEF FailJob
<1>10. CASE Failover(w)
  <2>1. /\ resolved' = resolved /\ LetGo(w)
        /\ \A k \in Job \ {mjob[w]} : SameRow(k)
        /\ status'[mjob[w]] = "RUNNING" => SameRow(mjob[w])
      BY <1>10, <1>0 DEF Failover, FailsOver, SameRow, row, TypeOK, RowTypeOK
  <2> QED
      BY <2>1, <1>1 DEF Ended
<1>11. CASE Crash(w)
  <2>1. pc'[w] = "down" /\ \A v \in Worker \ {w} : SameWorker(v)
      BY <1>11 DEF Crash, SameWorker, TypeOK, WorkerTypeOK
  <2>2. resolved' = resolved /\ \A k \in Job : SameRow(k)
      BY <1>11 DEF Crash, SameRow, row
  <2> QED
      BY <2>1, <2>2, <1>0 DEF Ended
<1> QED
    BY <1>4, <1>5, <1>6, <1>7, <1>8, <1>9, <1>10, <1>11

\* A step that leaves every held row and its holder alone, or cancels the job, is
\* quiet if it makes no row RUNNING and moves no stage it must not.
LEMMA QuietRows ==
    ASSUME TypeOK, IInv, UNCHANGED worker,
           \A v \in Worker : Executing(v) =>
               \/ SameRow(mjob[v])
               \/ status'[mjob[v]] = "CANCELLED" /\ stage'[mjob[v]] = stage[mjob[v]],
           \A k \in Job : status'[k] = "RUNNING" => status[k] = "RUNNING",
           \A k \in Job : stage'[k] # stage[k] =>
                              status[k] \in {"FAILED", "CANCELLED", "DEPLOYING"}
    PROVE  Quiet
<1>1. ASSUME NEW v \in Worker
      PROVE  /\ pc'[v] = pc[v] /\ mjob'[v] = mjob[v] /\ mowned'[v] = mowned[v]
             /\ mstage'[v] = mstage[v] /\ mresolved'[v] = mresolved[v]
             /\ beat'[v] = beat[v]
    BY DEF worker
<1>2. ASSUME NEW v \in Worker, Executing(v), Holds(v)
      PROVE  Holds(v)' \/ status'[mjob[v]] = "CANCELLED"
    BY <1>1, <1>2 DEF Holds, SameRow
<1>3. \A v \in Worker : Executing(v)' <=> Executing(v)
    BY <1>1 DEF Executing
<1>4. \A v \in Worker : pc'[v] \notin {"saved", "rerun", "again", "failing"}
    BY <1>1 DEF IInv
<1>5. \A v \in Worker : Executing(v) =>
          /\ status[mjob[v]] = "CANCELLED" => status'[mjob[v]] = "CANCELLED"
          /\ stage'[mjob[v]] = stage[mjob[v]]
    BY DEF SameRow
<1> QED
    BY <1>1, <1>2, <1>3, <1>4, <1>5 DEF Quiet

\* The operator's and the janitor's writes.
LEMMA JobStepQuiet ==
    ASSUME TypeOK, IInv, CleanPaths, NEW j \in Job, JobStep(j)
    PROVE  NoNews \/ (\E k \in Job : DeclaredDone(k) \/ Excused(k))
<1>1. \A v \in Worker : Executing(v) =>
          mjob[v] \in Job /\ status[mjob[v]] \in {"RUNNING", "CANCELLED"}
    BY HeldRow
<1>2. UNCHANGED worker
    BY DEF JobStep, Cancel, Retry, Requeue, SupersedeFailed, BlockDependent,
           ReconcileToDone, FinalizeDeploying, StartupReconcile, CleanPaths,
           Resolve, Reopen
<1>3. CASE Cancel(j)
  <2>1. resolved' = resolved /\ status'[j] = "CANCELLED" /\ stage' = stage
        /\ \A k \in Job \ {j} : SameRow(k)
      BY <1>3 DEF Cancel, SameRow, TypeOK, RowTypeOK
  <2>2. \A k \in Job : /\ status'[k] = "RUNNING" => status[k] = "RUNNING"
                       /\ status'[k] = "DONE" <=> status[k] = "DONE"
      BY <1>3, <2>1 DEF Cancel, SameRow, Terminal
  <2>3. Quiet
      BY <1>1, <1>2, <2>1, <2>2, QuietRows
  <2> QED
      BY <2>1, <2>2, <2>3 DEF NoNews
<1>4. CASE Retry(j) \/ Requeue(j)
  <2>1. \A v \in Worker : Executing(v) => mjob[v] # j
      BY <1>4, <1>1 DEF Retry, Requeue, CleanPaths
  <2>2. PICK s : Reopen(j, s) /\ status[j] \in {"FAILED", "CANCELLED"}
      BY <1>4 DEF Retry, Requeue
  <2>3. resolved' = resolved /\ status'[j] = "PENDING"
        /\ \A k \in Job \ {j} : SameRow(k)
      BY <2>2 DEF Reopen, SameRow, TypeOK, RowTypeOK
  <2>4. \A k \in Job : /\ status'[k] = "RUNNING" => status[k] = "RUNNING"
                       /\ status'[k] = "DONE" <=> status[k] = "DONE"
                       /\ stage'[k] # stage[k] =>
                              status[k] \in {"FAILED", "CANCELLED", "DEPLOYING"}
      BY <2>2, <2>3 DEF SameRow
  <2>5. Quiet
      BY <1>1, <1>2, <2>1, <2>3, <2>4, QuietRows
  <2> QED
      BY <2>3, <2>4, <2>5 DEF NoNews
<1>5. CASE ReconcileToDone(j) \/ FinalizeDeploying(j)
  <2>1. status[j] \in {"FAILED", "DEPLOYING"}
      BY <1>5 DEF ReconcileToDone, FinalizeDeploying
  <2>2. resolved' = resolved /\ status'[j] = "DONE"
        /\ \A k \in Job \ {j} : SameRow(k)
      BY <1>5 DEF ReconcileToDone, FinalizeDeploying, SameRow, TypeOK, RowTypeOK
  <2>3. \A v \in Worker : Executing(v) => mjob[v] # j
      BY <1>1, <2>1
  <2>4. \A k \in Job : /\ status'[k] = "RUNNING" => status[k] = "RUNNING"
                       /\ status'[k] = "DONE" <=> k = j \/ status[k] = "DONE"
                       /\ stage'[k] # stage[k] =>
                              status[k] \in {"FAILED", "CANCELLED", "DEPLOYING"}
      BY <2>1, <2>2 DEF SameRow
  <2>5. Quiet
      BY <1>1, <1>2, <2>2, <2>3, <2>4, QuietRows
  <2> QED
      BY <2>2, <2>3, <2>4, <2>5 DEF DeclaredDone
<1>6. CASE Resolve(j)
  <2>1. /\ resolved' = resolved \union {j} /\ UNCHANGED <<status, stage, owner, lease>>
        /\ status[j] \in {"FAILED", "CANCELLED"}
      BY <1>6 DEF Resolve, row
  <2>2. \A k \in Job \ {j} : SameRow(k)
      BY <2>1 DEF SameRow
  <2>3. \A v \in Worker : Executing(v) =>
            \/ SameRow(mjob[v])
            \/ status'[mjob[v]] = "CANCELLED" /\ stage'[mjob[v]] = stage[mjob[v]]
      BY <1>1, <2>1, <2>2
  <2>4. Quiet
      BY <1>2, <2>1, <2>3, QuietRows
  <2> QED
      BY <2>1, <2>4 DEF Excused
<1>7. CASE SupersedeFailed(j) \/ BlockDependent(j)
  <2>1. /\ resolved' = resolved /\ stage' = stage
        /\ status[j] \in {"PENDING", "FAILED"}
        /\ status'[j] \in {"FAILED", "CANCELLED"}
        /\ \A k \in Job \ {j} : SameRow(k)
      BY <1>7 DEF SupersedeFailed, BlockDependent, SameRow, TypeOK, RowTypeOK
  <2>2. \A v \in Worker : Executing(v) => mjob[v] # j
      BY <1>1, <2>1
  <2>3. \A k \in Job : /\ status'[k] = "RUNNING" => status[k] = "RUNNING"
                       /\ status'[k] = "DONE" <=> status[k] = "DONE"
                       /\ stage'[k] = stage[k]
      BY <2>1 DEF SameRow
  <2>4. Quiet
      BY <1>1, <1>2, <2>1, <2>2, <2>3, QuietRows
  <2> QED
      BY <2>1, <2>3, <2>4 DEF NoNews
<1> QED
    BY <1>3, <1>4, <1>5, <1>6, <1>7 DEF JobStep, StartupReconcile, CleanPaths

\* A heartbeat, an exception, a poll that finds nothing, and a slot that had
\* nothing to do with the job any more.
LEMMA IdleStepQuiet ==
    ASSUME TypeOK, IInv, NEW w \in Worker,
           \/ ClaimNothing(w) \/ BackToPolling(w) \/ Renew(w) \/ Raise(w)
           \/ (Crash(w) /\ ~Executing(w))
    PROVE  NoNews
<1>1. \A v \in Worker : Executing(v) =>
          /\ mjob[v] \in Job /\ mjob[v] \notin Expired
          /\ status[mjob[v]] \in {"RUNNING", "CANCELLED"}
    BY HeldRow
<1>2. CASE ClaimNothing(w)
  <2>1. /\ resolved' = resolved /\ stage' = stage /\ UNCHANGED worker
        /\ \A k \in Job : SameRow(k) \/ (k \in Expired /\ status'[k] = "PENDING")
      BY <1>2 DEF ClaimNothing, SameRow, Reclaimed
  <2>2. \A k \in Job : /\ status'[k] = "RUNNING" => status[k] = "RUNNING"
                       /\ status'[k] = "DONE" <=> status[k] = "DONE"
      BY <2>1 DEF SameRow, Expired
  <2>3. Quiet
      BY <1>1, <2>1, <2>2, QuietRows
  <2> QED
      BY <2>1, <2>2, <2>3 DEF NoNews
<1>3. CASE Renew(w)
  <2> DEFINE j == mjob[w]
  <2>1. /\ Executing(w) /\ j \in Job
        /\ UNCHANGED <<status, stage, owner, resolved, pc, mjob, mstage, mowned, mresolved>>
      BY <1>1, <1>3 DEF Renew, InHandler, Executing
  <2>2. ASSUME NEW v \in Worker, Executing(v), Holds(v) PROVE Holds(v)'
    <3>1. CASE v = w
      <4>1. lease'[j] = TTL /\ beat'[w] = 0
          BY <1>3, <2>1, <2>2, <3>1 DEF Renew, Holds, TypeOK, RowTypeOK, WorkerTypeOK
      <4> QED
          BY <2>1, <2>2, <3>1, <4>1, TimeAssumption DEF Holds
    <3>2. CASE v # w
      <4>1. mjob[v] # j
          BY <2>1, <2>2, <3>2 DEF IInv, ExclusiveExecution
      <4>2. lease'[mjob[v]] = lease[mjob[v]] /\ beat'[v] = beat[v]
          BY <1>1, <1>3, <2>1, <2>2, <3>2, <4>1
             DEF Renew, TypeOK, RowTypeOK, WorkerTypeOK
      <4> QED
          BY <2>1, <2>2, <4>2 DEF Holds
    <3> QED
        BY <3>1, <3>2
  <2>3. Quiet
      BY <2>1, <2>2 DEF Quiet, Executing, IInv
  <2> QED
      BY <2>1, <2>3 DEF NoNews
<1>4. CASE BackToPolling(w) \/ Raise(w) \/ (Crash(w) /\ ~Executing(w))
  <2>1. UNCHANGED <<row, resolved>>
      BY <1>4 DEF BackToPolling, Raise, Crash
  <2>2. \A v \in Worker \ {w} : SameWorker(v)
      BY <1>4 DEF BackToPolling, LetGo, Raise, Crash, SameWorker, TypeOK, WorkerTypeOK
  <2>3. /\ pc'[w] \in {"idle", "down", "raised"}
        /\ Executing(w)' <=> Executing(w)
        /\ Executing(w) => UNCHANGED <<mjob, mstage, mowned, mresolved, beat>>
      BY <1>4 DEF BackToPolling, LetGo, Raise, Crash, InHandler, Executing,
                  TypeOK, WorkerTypeOK
  <2>4. ASSUME NEW v \in Worker
        PROVE  /\ pc'[v] \notin {"saved", "rerun", "again", "failing"}
               /\ Executing(v)' <=> Executing(v)
               /\ Executing(v) => /\ mjob'[v] = mjob[v] /\ mstage'[v] = mstage[v]
                                  /\ Holds(v) => Holds(v)'
    <3>1. CASE v = w
        BY <2>1, <2>3, <3>1 DEF Holds, row
    <3>2. CASE v # w
        BY <2>1, <2>2, <3>2 DEF SameWorker, Holds, Executing, row, IInv
    <3> QED
        BY <3>1, <3>2
  <2>5. Quiet
      BY <2>1, <2>4 DEF Quiet, row
  <2> QED
      BY <2>1, <2>5 DEF NoNews, row
<1> QED
    BY <1>2, <1>3, <1>4

\* Time never runs out on a lease whose worker is due to renew it.
LEMMA TickQuiet ==
    ASSUME TypeOK, IInv, CleanPaths, Tick
    PROVE  NoNews
<1>1. UNCHANGED <<status, stage, owner, resolved, pc, mjob, mstage, mowned, mresolved>>
    BY DEF Tick
<1>2. ASSUME NEW v \in Worker, Executing(v), Holds(v) PROVE Holds(v)'
  <2>1. mjob[v] \in Job
      BY <1>2, HeldRow
  <2>2. beat[v] < Beat
      BY <1>2 DEF Tick, CleanPaths
  <2>3. beat'[v] = beat[v] + 1
      BY <1>2, <2>2 DEF Tick
  <2>4. lease[mjob[v]] >= 0
      BY <1>2, <2>1, <2>2, TimeAssumption DEF Holds, TypeOK, RowTypeOK, WorkerTypeOK
  <2>5. lease'[mjob[v]] = lease[mjob[v]] - 1
      BY <1>2, <2>1, <2>4 DEF Tick, Holds, Older, TypeOK, RowTypeOK
  <2>6. lease'[mjob[v]] + beat'[v] = lease[mjob[v]] + beat[v]
      BY <2>1, <2>3, <2>5, TimeAssumption DEF TypeOK, RowTypeOK, WorkerTypeOK
  <2> QED
      BY <1>1, <1>2, <2>6 DEF Holds
<1>3. Quiet
    BY <1>1, <1>2 DEF Quiet, Executing, IInv
<1> QED
    BY <1>1, <1>3 DEF NoNews

\* The steps of the clean paths, one by one.
LEMMA StepKinds ==
    ASSUME TypeOK, IInv, CleanPaths, [Next]_vars
    PROVE  \/ \E w \in Worker, j \in Job : Taken(w, j)
           \/ \E w \in Worker : Ended(w)
           \/ NoNews
           \/ \E j \in Job : DeclaredDone(j) \/ Excused(j)
<1>1. ASSUME NEW w \in Worker, WorkerStep(w)
      PROVE  (\E j \in Job : Taken(w, j)) \/ Ended(w) \/ NoNews
  <2>1. CASE Claim(w) \/ ClaimFastpath(w)
      BY <2>1, ClaimTakes
  <2>2. CASE ClaimNothing(w) \/ BackToPolling(w) \/ Renew(w) \/ Raise(w)
      BY <2>2, IdleStepQuiet
  <2>3. CASE Crash(w)
      BY <2>3, EndStep, IdleStepQuiet
  <2>4. CASE \/ Advance(w) \/ Yield(w) \/ HandlerTimeout(w) \/ Finish(w) \/ GiveUp(w)
             \/ Supersede(w) \/ DeployDone(w) \/ DeployRestart(w) \/ BaselineBlock(w)
             \/ NoticeCancel(w) \/ TimedOut(w) \/ FailJob(w) \/ DropJob(w) \/ Failover(w)
    <3>1. Executing(w)
        BY <2>4 DEF Advance, Yield, HandlerTimeout, Finish, GiveUp, Supersede,
                    DeployDone, DeployRestart, DeployWrite, BaselineBlock,
                    NoticeCancel, TimedOut, FailJob, DropJob, Failover, FailsOver, InHandler,
                    Executing, IInv
    <3> QED
        BY <2>4, <3>1, EndStep
  <2>5. ~(\/ Rerun(w) \/ MidSave(w) \/ SaveFails(w) \/ ClearFails(w) \/ TailError(w))
      BY DEF Rerun, MidSave, SaveFails, ClearFails, TailError, CleanPaths, IInv
  <2> QED
      BY <1>1, <2>1, <2>2, <2>3, <2>4, <2>5 DEF WorkerStep
<1>2. CASE UNCHANGED vars
  <2>1. UNCHANGED worker /\ resolved' = resolved /\ \A k \in Job : SameRow(k)
      BY <1>2 DEF vars, row, SameRow
  <2>2. \A v \in Worker : Executing(v) => mjob[v] \in Job
      BY HeldRow
  <2>3. Quiet
      BY <2>1, <2>2, QuietRows DEF SameRow
  <2> QED
      BY <2>1, <2>3 DEF NoNews, SameRow
<1> QED
    BY <1>1, <1>2, JobStepQuiet, TickQuiet DEF Next

-----------------------------------------------------------------------------
(* What follows for the jobs *)

LEMMA InitInv == Init => IInv
BY DEF Init, IInv, ExclusiveExecution, ClaimHeld, AtStage, Executing

LEMMA NextInv ==
    ASSUME TypeOK, IInv, CleanPaths, [Next]_vars
    PROVE  IInv'
<1>1. \A v \in Worker : Executing(v) => /\ mjob[v] \in Job /\ mjob[v] \notin Expired
                                        /\ Reclaimed[mjob[v]] # "PENDING"
    BY HeldRow
<1>2. ASSUME NEW w \in Worker, NEW j \in Job, Taken(w, j) PROVE IInv'
  <2>1. ASSUME NEW v \in Worker \ {w}, Executing(v)'
        PROVE  /\ mjob'[v] # j
               /\ Executing(v) /\ mjob'[v] = mjob[v]
               /\ Holds(v)' \/ status'[mjob'[v]] = "CANCELLED"
               /\ stage'[mjob'[v]] = mstage'[v]
    <3>1. SameWorker(v) /\ Executing(v)
        BY <1>2, <2>1 DEF Taken, SameWorker, Executing
    <3>2. mjob[v] \in Job \ {j} /\ SameRow(mjob[v])
        BY <1>1, <1>2, <3>1 DEF Taken, Runnable
    <3> QED
        BY <3>1, <3>2 DEF SameWorker, SameRow, Holds, IInv, ClaimHeld, AtStage
  <2>2. ExclusiveExecution'
      BY <1>2, <2>1 DEF Taken, ExclusiveExecution, IInv
  <2>3. ClaimHeld'
      BY <1>2, <2>1 DEF Taken, ClaimHeld
  <2>4. \A v \in Worker : pc'[v] \notin {"saved", "rerun", "again", "failing"}
      BY <1>2 DEF Taken, SameWorker, IInv
  <2>5. AtStage'
      BY <1>2, <2>1 DEF Taken, Holds, AtStage
  <2> QED
      BY <2>2, <2>3, <2>4, <2>5 DEF IInv
<1>3. ASSUME NEW w \in Worker, Ended(w) PROVE IInv'
  <2>1. ~Executing(w)'
      BY <1>3 DEF Ended, Executing
  <2>2. ASSUME NEW v \in Worker, Executing(v)'
        PROVE  /\ Executing(v) /\ mjob'[v] = mjob[v]
               /\ Holds(v)' \/ status'[mjob'[v]] = "CANCELLED"
               /\ stage'[mjob'[v]] = mstage'[v]
    <3>1. v # w /\ SameWorker(v) /\ Executing(v)
        BY <1>3, <2>1, <2>2 DEF Ended, SameWorker, Executing
    <3>2. mjob[v] # mjob[w]
        BY <1>3, <3>1 DEF Ended, IInv, ExclusiveExecution
    <3>3. SameRow(mjob[v])
        BY <1>1, <1>3, <3>1, <3>2 DEF Ended
    <3> QED
        BY <3>1, <3>3 DEF SameWorker, SameRow, Holds, IInv, ClaimHeld, AtStage
  <2>3. \A v \in Worker : pc'[v] \notin {"saved", "rerun", "again", "failing"}
      BY <1>3 DEF Ended, SameWorker, IInv
  <2> QED
      BY <2>2, <2>3 DEF IInv, ExclusiveExecution, ClaimHeld, AtStage
<1>4. ASSUME Quiet PROVE IInv'
  <2>1. \A v \in Worker : Executing(v)' =>
            /\ Executing(v)
            /\ Holds(v)' \/ status'[mjob'[v]] = "CANCELLED"
            /\ stage'[mjob'[v]] = mstage'[v]
      BY <1>4 DEF Quiet, IInv, ClaimHeld, AtStage
  <2> QED
      BY <1>4, <2>1 DEF Quiet, IInv, ExclusiveExecution, ClaimHeld, AtStage
<1> QED
    BY <1>2, <1>3, <1>4, StepKinds DEF NoNews, DeclaredDone, Excused

\* At most one worker carries out a stage of a job at a time, for any number of
\* jobs, workers and agents, as long as heartbeats are timely.
THEOREM Exclusive ==
    ASSUME CleanPaths PROVE Spec => []ExclusiveExecution
<1>1. Init => TypeOK /\ IInv
    BY InitType, InitInv
<1>2. TypeOK /\ IInv /\ [Next]_vars => (TypeOK /\ IInv)'
    BY NextType, NextInv
<1>3. IInv => ExclusiveExecution
    BY DEF IInv
<1> QED
    BY <1>1, <1>2, <1>3, PTL DEF Spec

\* The reason for it: the row is still the claim of the worker that runs the job,
\* with a lease that outlasts the next heartbeat, or it has been cancelled.
THEOREM ClaimIsHeld ==
    ASSUME CleanPaths PROVE Spec => []ClaimHeld
<1>1. Init => TypeOK /\ IInv
    BY InitType, InitInv
<1>2. TypeOK /\ IInv /\ [Next]_vars => (TypeOK /\ IInv)'
    BY NextType, NextInv
<1>3. IInv => ClaimHeld
    BY DEF IInv
<1> QED
    BY <1>1, <1>2, <1>3, PTL DEF Spec

\* A step never undoes DONE, on the clean paths.
LEMMA DoneStep ==
    ASSUME TypeOK, IInv, CleanPaths, [Next]_vars, NEW k \in Job, status[k] = "DONE"
    PROVE  status'[k] = "DONE"
<1>1. ASSUME NEW w \in Worker, NEW j \in Job, Taken(w, j) PROVE status'[k] = "DONE"
  <2>1. k # j /\ k \notin Expired
      BY <1>1 DEF Taken, Runnable, Reclaimed, Expired
  <2> QED
      BY <1>1, <2>1 DEF Taken, SameRow
<1>2. ASSUME NEW w \in Worker, Ended(w) PROVE status'[k] = "DONE"
  <2>1. k # mjob[w]
      BY <1>2, HeldRow DEF Ended
  <2> QED
      BY <1>2, <2>1 DEF Ended, SameRow
<1> QED
    BY <1>1, <1>2, StepKinds DEF NoNews, DeclaredDone, Excused

\* A job that is done stays done.
THEOREM DoneForGood ==
    ASSUME CleanPaths PROVE Spec => DoneStays
<1>1. Init => TypeOK /\ IInv
    BY InitType, InitInv
<1>2. TypeOK /\ IInv /\ [Next]_vars => (TypeOK /\ IInv)'
    BY NextType, NextInv
<1>3. TypeOK /\ IInv /\ [Next]_vars =>
          [\A j \in Job : status[j] = "DONE" => status'[j] = "DONE"]_vars
    BY DoneStep
<1> QED
    BY <1>1, <1>2, <1>3, PTL DEF Spec, DoneStays

\* The stage of a row is moved by the worker that holds its claim, or once the
\* row has left the workers' hands.
THEOREM StageMoves ==
    ASSUME CleanPaths PROVE Spec => StageMovedByHolder
<1> DEFINE A == \A j \in Job : stage'[j] # stage[j] =>
                   \/ status[j] \in {"FAILED", "CANCELLED", "DEPLOYING"}
                   \/ /\ status[j] = "RUNNING"
                      /\ \E w \in Worker : owner[j] = w /\ Executing(w) /\ mjob[w] = j
<1>1. Init => TypeOK /\ IInv
    BY InitType, InitInv
<1>2. TypeOK /\ IInv /\ [Next]_vars => (TypeOK /\ IInv)'
    BY NextType, NextInv
<1>3. ASSUME TypeOK, IInv, [Next]_vars PROVE A
  <2>1. ASSUME NEW w \in Worker, NEW j \in Job, Taken(w, j) PROVE A
      BY <2>1 DEF Taken
  <2>2. ASSUME NEW w \in Worker, Ended(w) PROVE A
    <3>1. \A k \in Job : stage'[k] # stage[k] => k = mjob[w]
        BY <2>2 DEF Ended, SameRow
    <3>2. Executing(w)
        BY <2>2 DEF Ended
    <3>3. Holds(w) \/ status[mjob[w]] = "CANCELLED"
        BY <1>3, <3>2 DEF IInv, ClaimHeld
    <3> QED
        BY <3>1, <3>2, <3>3 DEF Holds
  <2>3. ASSUME Quiet PROVE A
      BY <2>3 DEF Quiet
  <2> QED
      BY <1>3, <2>1, <2>2, <2>3, StepKinds DEF NoNews, DeclaredDone, Excused
<1>4. TypeOK /\ IInv /\ [Next]_vars => [A]_vars
    BY <1>3
<1> QED
    BY <1>1, <1>2, <1>4, PTL DEF Spec, StageMovedByHolder

\* What is settled stays settled.
LEMMA SettledStep ==
    ASSUME TypeOK, IInv, CleanPaths, [Next]_vars, NEW d \in Job, Settled(d)
    PROVE  Settled(d)'
<1>1. status[d] = "DONE" => status'[d] = "DONE"
    BY DoneStep
<1>2. resolved \subseteq resolved'
    BY StepKinds DEF Taken, Ended, NoNews, DeclaredDone, Excused
<1> QED
    BY <1>1, <1>2 DEF Settled

LEMMA DependenciesStep ==
    ASSUME TypeOK, IInv, DependenciesSettled, CleanPaths, [Next]_vars
    PROVE  DependenciesSettled'
<1>1. SUFFICES ASSUME NEW j \in Job, status'[j] = "RUNNING",
                      NEW d \in Job, <<j, d>> \in Deps
               PROVE  Settled(d)
    BY SettledStep DEF DependenciesSettled
<1>2. CASE status[j] = "RUNNING"
    BY <1>1, <1>2 DEF DependenciesSettled
<1>3. ASSUME NEW w \in Worker, NEW k \in Job, Taken(w, k) PROVE Settled(d)
  <2>1. CASE j = k
      BY <1>1, <1>3, <2>1 DEF Taken, Runnable
  <2>2. CASE j # k
      BY <1>1, <1>2, <1>3, <2>2 DEF Taken, SameRow
  <2> QED
      BY <2>1, <2>2
<1>4. ASSUME NEW w \in Worker, Ended(w) PROVE Settled(d)
    BY <1>1, <1>2, <1>4 DEF Ended, SameRow
<1>5. ASSUME Quiet PROVE Settled(d)
    BY <1>1, <1>2, <1>5 DEF Quiet
<1> QED
    BY <1>3, <1>4, <1>5, StepKinds DEF NoNews, DeclaredDone, Excused

\* A job only runs while everything it depends on is done or resolved.
THEOREM RunsOnSettled ==
    ASSUME CleanPaths PROVE Spec => []DependenciesSettled
<1>1. Init => TypeOK /\ IInv /\ DependenciesSettled
    BY InitType, InitInv DEF Init, DependenciesSettled
<1>2. TypeOK /\ IInv /\ DependenciesSettled /\ [Next]_vars
          => (TypeOK /\ IInv /\ DependenciesSettled)'
    BY NextType, NextInv, DependenciesStep
<1> QED
    BY <1>1, <1>2, PTL DEF Spec

-----------------------------------------------------------------------------
(* The queue implements the service *)

THEOREM Implements ==
    ASSUME CleanPaths PROVE Spec => ImplementsService
<1> DEFINE doing == [w \in Worker |-> IF Executing(w) THEN mjob[w] ELSE None]
           done  == {j \in Job : status[j] = "DONE"}
<1>1. Init => TypeOK /\ IInv
    BY InitType, InitInv
<1>2. TypeOK /\ IInv /\ [Next]_vars => (TypeOK /\ IInv)'
    BY NextType, NextInv
<1>3. Init => Service!Init
    BY DEF Init, Service!Init, Executing
<1>4. ASSUME TypeOK, IInv, [Next]_vars PROVE [Service!Next]_(Service!vars)
  <2>1. \A v \in Worker : Executing(v) => mjob[v] \in Job /\ mjob[v] # None
      BY <1>4, HeldRow, NoneAssumption
  <2>2. ASSUME NEW w \in Worker, NEW j \in Job, Taken(w, j) PROVE Service!Start(w, j)
    <3>1. doing[w] = None /\ \A v \in Worker : doing[v] # j
      <4>1. \A v \in Worker : Executing(v) => Reclaimed[mjob[v]] # "PENDING"
          BY <1>4, HeldRow
      <4>2. j # None
          BY NoneAssumption
      <4> QED
          BY <2>2, <4>1, <4>2 DEF Taken, Runnable, Executing
    <3>2. j \notin done
        BY <2>2 DEF Taken, Runnable, Reclaimed, Expired
    <3>3. Service!Prerequisites(j) \subseteq done \union resolved
        BY <2>2 DEF Taken, Runnable, Settled, Service!Prerequisites
    <3>4. doing' = [doing EXCEPT ![w] = j]
      <4>1. doing'[w] = j
          BY <2>2 DEF Taken, Executing
      <4>2. \A v \in Worker \ {w} : doing'[v] = doing[v]
          BY <2>2 DEF Taken, SameWorker, Executing
      <4> QED
          BY <4>1, <4>2
    <3>5. done' = done
      <4>1. \A k \in Job : status'[k] = "DONE" <=> status[k] = "DONE"
        <5>1. status[j] # "DONE" /\ status'[j] # "DONE"
            BY <2>2 DEF Taken, Runnable, Reclaimed, Expired, Holds
        <5>2. \A k \in Job \ {j} : status'[k] = "DONE" <=> status[k] = "DONE"
            BY <2>2 DEF Taken, SameRow, Expired
        <5> QED
            BY <5>1, <5>2
      <4> QED
          BY <4>1
    <3> QED
        BY <2>2, <3>1, <3>2, <3>3, <3>4, <3>5 DEF Service!Start, Taken
  <2>3. ASSUME NEW w \in Worker, Ended(w) PROVE Service!Stop(w)
    <3>1. doing[w] = mjob[w] /\ mjob[w] \in Job /\ doing[w] # None
        BY <2>1, <2>3 DEF Ended
    <3>2. doing' = [doing EXCEPT ![w] = None]
      <4>1. doing'[w] = None
          BY <2>3 DEF Ended, Executing
      <4>2. \A v \in Worker \ {w} : doing'[v] = doing[v]
          BY <2>3 DEF Ended, SameWorker, Executing
      <4> QED
          BY <4>1, <4>2
    <3>3. done' \in {done, done \union {doing[w]}}
      <4>1. \A k \in Job \ {mjob[w]} : status'[k] = "DONE" <=> status[k] = "DONE"
          BY <2>3 DEF Ended, SameRow
      <4>2. status[mjob[w]] # "DONE"
          BY <1>4, <2>3, HeldRow DEF Ended
      <4> QED
          BY <3>1, <4>1, <4>2
    <3> QED
        BY <2>3, <3>1, <3>2, <3>3 DEF Service!Stop, Ended
  <2>4. ASSUME Quiet PROVE doing' = doing
      BY <2>4 DEF Quiet
  <2>5. CASE NoNews
    <3>1. done' = done
        BY <2>5 DEF NoNews
    <3> QED
        BY <2>4, <2>5, <3>1 DEF NoNews, Service!vars
  <2>6. ASSUME NEW j \in Job, DeclaredDone(j) PROVE Service!Settle(j)
    <3>1. done' = done \union {j}
        BY <2>6 DEF DeclaredDone
    <3>2. \A v \in Worker : doing[v] # j
        BY <2>6, NoneAssumption DEF DeclaredDone
    <3> QED
        BY <2>4, <2>6, <3>1, <3>2 DEF DeclaredDone, Service!Settle
  <2>7. ASSUME NEW j \in Job, Excused(j) PROVE Service!Excuse(j)
    <3>1. done' = done
        BY <2>7 DEF Excused
    <3> QED
        BY <2>4, <2>7, <3>1 DEF Excused, Service!Excuse
  <2> QED
      BY <1>4, <2>2, <2>3, <2>5, <2>6, <2>7, StepKinds DEF Service!Next
<1>5. TypeOK /\ IInv /\ [Next]_vars => [Service!Next]_(Service!vars)
    BY <1>4
<1> QED
    BY <1>1, <1>2, <1>3, <1>5, PTL DEF Spec, ImplementsService, Service!Spec

-----------------------------------------------------------------------------
(* The queue implements the table *)

\* How the table sees a row: being worked on is waiting.
Seen(k) == IF status[k] = "RUNNING" THEN "PENDING" ELSE status[k]

Left(k) == stage'[k] = stage[k] /\ Seen(k)' = Seen(k)

LEMMA AllLeft ==
    ASSUME TypeOK, TypeOK', \A k \in Job : Left(k)
    PROVE  UNCHANGED Table!vars
<1>1. stage' = stage
    BY DEF Left, TypeOK, RowTypeOK
<1>2. [k \in Job |-> Seen(k)]' = [k \in Job |-> Seen(k)]
    BY DEF Left
<1> QED
    BY <1>1, <1>2 DEF Table!vars, Seen

\* A step that leaves all rows but one is a write of the table to that row.
LEMMA OneMoves ==
    ASSUME TypeOK, TypeOK', NEW j \in Job, \A k \in Job \ {j} : Left(k)
    PROVE  Table!Becomes(j, Seen(j)', stage'[j])
<1>1. stage' = [stage EXCEPT ![j] = stage'[j]]
    BY DEF Left, TypeOK, RowTypeOK
<1>2. [k \in Job |-> Seen(k)]' = [[k \in Job |-> Seen(k)] EXCEPT ![j] = Seen(j)']
    BY DEF Left
<1> QED
    BY <1>1, <1>2 DEF Table!Becomes, Seen

LEMMA SameLeft == ASSUME NEW k \in Job, SameRow(k) PROVE Left(k)
BY DEF SameRow, Left, Seen

\* A claim is not seen by the table, and neither is the reclaim of a lease.
LEMMA TakenUnseen ==
    ASSUME TypeOK, TypeOK', NEW w \in Worker, NEW j \in Job, Taken(w, j)
    PROVE  UNCHANGED Table!vars
<1>1. status[j] \in {"PENDING", "RUNNING"} /\ status'[j] = "RUNNING"
    BY DEF Taken, Runnable, Reclaimed, Expired, Holds
<1>2. ASSUME NEW k \in Job \ {j} PROVE Left(k)
    BY SameLeft DEF Taken, Left, Seen, Expired
<1> QED
    BY <1>1, <1>2, AllLeft DEF Taken, Left, Seen

\* Under a claim a save moves the row from the stage the worker started at; on a
\* cancelled row it does nothing.
LEMMA SaveMoves ==
    ASSUME TypeOK, IInv, NEW w \in Worker, Executing(w),
           NEW st, NEW s, NEW o, NEW l, NEW c, Save(w, st, s, o, l, c)
    PROVE  \/ UNCHANGED <<status, stage>>
           \/ /\ Seen(mjob[w]) = "PENDING" /\ stage[mjob[w]] = mstage[w]
              /\ status'[mjob[w]] = st /\ stage'[mjob[w]] = s
<1>1. mjob[w] \in Job /\ (Holds(w) \/ status[mjob[w]] = "CANCELLED")
    BY HeldRow DEF IInv, ClaimHeld
<1>2. CASE status[mjob[w]] = "CANCELLED"
    BY <1>2 DEF Save, Terminal, row
<1>3. CASE Holds(w)
    BY <1>1, <1>3 DEF Holds, Save, Terminal, Write, Seen, TypeOK, RowTypeOK
<1> QED
    BY <1>1, <1>2, <1>3

\* What a worker leaves behind at the end of a stage.
LEMMA EndMoves ==
    ASSUME TypeOK, IInv, TypeOK', NEW w \in Worker, Executing(w),
           \/ Advance(w) \/ Yield(w) \/ HandlerTimeout(w) \/ Finish(w) \/ GiveUp(w)
           \/ Supersede(w) \/ DeployDone(w) \/ DeployRestart(w) \/ BaselineBlock(w)
           \/ NoticeCancel(w) \/ TimedOut(w) \/ FailJob(w) \/ DropJob(w)
           \/ Failover(w) \/ Crash(w)
    PROVE  Table!Next \/ UNCHANGED Table!vars
<1>0. mjob[w] \in Job /\ (Holds(w) \/ status[mjob[w]] = "CANCELLED")
    BY HeldRow DEF IInv, ClaimHeld
<1>1. PICK j \in Job : j = mjob[w]
    BY <1>0
<1>2. \A k \in Job \ {j} : Left(k)
    BY <1>1, EndStep, SameLeft DEF Ended
<1>3. Table!Becomes(j, Seen(j)', stage'[j])
    BY <1>1, <1>2, OneMoves
<1>4. ASSUME Left(j) PROVE UNCHANGED Table!vars
    BY <1>1, <1>2, <1>4, AllLeft
<1>5. ASSUME UNCHANGED <<status, stage>> PROVE UNCHANGED Table!vars
    BY <1>4, <1>5 DEF Left, Seen
<1>6. CASE Advance(w)
  <2>1. PICK s \in Target[mstage[w]] \ {DoneStage} : Save(w, "PENDING", s, Held(w), NoLease, 0)
      BY <1>6 DEF Advance
  <2>2. CASE UNCHANGED <<status, stage>>
      BY <1>5, <2>2
  <2>3. CASE /\ Seen(j) = "PENDING" /\ stage[j] = mstage[w]
             /\ status'[j] = "PENDING" /\ stage'[j] = s
    <3>1. Table!Advance(j)
        BY <1>1, <1>3, <2>1, <2>3 DEF Table!Advance, Table!Becomes, Seen
    <3> QED
        BY <1>1, <3>1 DEF Table!Next
  <2> QED
      BY <2>1, <2>2, <2>3, <1>1, SaveMoves
<1>7. CASE Yield(w)
  <2>1. PICK s \in (Target[mstage[w]] \union {mstage[w]}) \ {DoneStage} :
            Save(w, "PENDING", s, None, NoLease, Backoff)
      BY <1>7 DEF Yield
  <2>2. CASE UNCHANGED <<status, stage>>
      BY <1>5, <2>2
  <2>3. CASE /\ Seen(j) = "PENDING" /\ stage[j] = mstage[w]
             /\ status'[j] = "PENDING" /\ stage'[j] = s
    <3>1. CASE s = mstage[w]
        BY <1>4, <2>3, <3>1 DEF Left, Seen
    <3>2. CASE s # mstage[w]
      <4>1. Table!Advance(j)
          BY <1>1, <1>3, <2>1, <2>3, <3>2 DEF Table!Advance, Table!Becomes, Seen
      <4> QED
          BY <1>1, <4>1 DEF Table!Next
    <3> QED
        BY <3>1, <3>2
  <2> QED
      BY <2>1, <2>2, <2>3, <1>1, SaveMoves
<1>8. CASE HandlerTimeout(w) \/ TimedOut(w)
  <2>1. Save(w, "PENDING", mstage[w], None, NoLease, 0)
      BY <1>8 DEF HandlerTimeout, TimedOut
  <2>2. Left(j)
      BY <2>1, <1>1, SaveMoves DEF Left, Seen
  <2> QED
      BY <1>4, <2>2
<1>9. CASE Finish(w)
  <2>1. Save(w, "DONE", DoneStage, Held(w), NoLease, 0) /\ DoneStage \in Target[mstage[w]]
      BY <1>9 DEF Finish
  <2>2. CASE UNCHANGED <<status, stage>>
      BY <1>5, <2>2
  <2>3. CASE /\ Seen(j) = "PENDING" /\ stage[j] = mstage[w]
             /\ status'[j] = "DONE" /\ stage'[j] = DoneStage
    <3>1. Table!Finish(j)
        BY <1>1, <1>3, <2>1, <2>3 DEF Table!Finish, Table!Becomes, Seen
    <3> QED
        BY <1>1, <3>1 DEF Table!Next
  <2> QED
      BY <2>1, <2>2, <2>3, <1>1, SaveMoves
<1>10. CASE GiveUp(w) \/ FailJob(w)
  <2>1. Save(w, "FAILED", mstage[w], Held(w), NoLease, 0)
      BY <1>10 DEF GiveUp, FailJob
  <2>2. CASE UNCHANGED <<status, stage>>
      BY <1>5, <2>2
  <2>3. CASE /\ Seen(j) = "PENDING" /\ stage[j] = mstage[w]
             /\ status'[j] = "FAILED" /\ stage'[j] = mstage[w]
    <3>1. Table!Fail(j)
        BY <1>1, <1>3, <2>3 DEF Table!Fail, Table!Becomes, Seen
    <3> QED
        BY <1>1, <3>1 DEF Table!Next
  <2> QED
      BY <2>1, <2>2, <2>3, <1>1, SaveMoves
<1>11. CASE Supersede(w)
  <2>1. Save(w, "CANCELLED", FirstStage, Held(w), NoLease, 0) /\ mstage[w] = FirstStage
      BY <1>11 DEF Supersede
  <2>2. CASE UNCHANGED <<status, stage>>
      BY <1>5, <2>2
  <2>3. CASE /\ Seen(j) = "PENDING" /\ stage[j] = mstage[w]
             /\ status'[j] = "CANCELLED" /\ stage'[j] = FirstStage
    <3>1. Table!Drop(j)
        BY <1>1, <1>3, <2>1, <2>3 DEF Table!Drop, Table!Becomes, Seen
    <3> QED
        BY <1>1, <3>1 DEF Table!Next
  <2> QED
      BY <2>1, <2>2, <2>3, <1>1, SaveMoves
<1>12. CASE DeployDone(w) \/ DeployRestart(w)
  <2>1. mstage[w] \in DeployStage
      BY <1>12 DEF DeployDone, DeployRestart, DeployWrite
  <2>2. CASE status[j] = "CANCELLED"
      BY <1>1, <1>5, <1>12, <2>2 DEF DeployDone, DeployRestart, DeployWrite, row
  <2>3. CASE Holds(w) /\ DeployDone(w)
    <3>1. /\ Seen(j) = "PENDING" /\ stage[j] = mstage[w]
          /\ status'[j] = "DONE" /\ stage'[j] = DoneStage
        BY <1>1, <2>3 DEF DeployDone, DeployWrite, Holds, Seen, TypeOK, RowTypeOK
    <3>2. Table!Finish(j)
        BY <1>1, <1>3, <2>1, <3>1 DEF Table!Finish, Table!Becomes, Seen
    <3> QED
        BY <1>1, <3>2 DEF Table!Next
  <2>4. CASE Holds(w) /\ DeployRestart(w)
    <3>1. /\ Seen(j) = "PENDING" /\ stage[j] = mstage[w]
          /\ status'[j] = "DEPLOYING" /\ stage'[j] = mstage[w]
        BY <1>1, <2>4 DEF DeployRestart, DeployWrite, Holds, Seen, TypeOK, RowTypeOK
    <3>2. Table!Restart(j)
        BY <1>1, <1>3, <2>1, <3>1 DEF Table!Restart, Table!Becomes, Seen
    <3> QED
        BY <1>1, <3>2 DEF Table!Next
  <2> QED
      BY <1>0, <1>1, <1>12, <2>2, <2>3, <2>4
<1>13. CASE BaselineBlock(w)
  <2>1. /\ mstage[w] \in BlockStage
        /\ status'[j] = "PENDING" /\ stage'[j] = mstage[w]
      BY <1>1, <1>13 DEF BaselineBlock, TypeOK, RowTypeOK
  <2>2. stage[j] = mstage[w]
      BY <1>1 DEF IInv, AtStage
  <2>3. CASE Holds(w)
    <3>1. Left(j)
        BY <1>1, <2>1, <2>2, <2>3 DEF Left, Seen, Holds
    <3> QED
        BY <1>4, <3>1
  <2>4. CASE status[j] = "CANCELLED"
    <3>1. Table!Retry(j)
        BY <1>1, <1>3, <2>1, <2>2, <2>4 DEF Table!Retry, Table!Becomes, Seen
    <3> QED
        BY <1>1, <3>1 DEF Table!Next
  <2> QED
      BY <1>0, <1>1, <2>3, <2>4
<1>14. CASE NoticeCancel(w) \/ DropJob(w) \/ Crash(w)
    BY <1>5, <1>14 DEF NoticeCancel, DropJob, Crash, row
<1>15. CASE Failover(w)
  <2>1. CASE OwnsClaim(w)
    <3>1. status[j] = "RUNNING" /\ status'[j] = "PENDING" /\ stage' = stage
        BY <1>0, <1>1, <1>15, <2>1 DEF Failover, OwnsClaim, FailsOver, TypeOK, RowTypeOK
    <3> QED
        BY <1>4, <3>1 DEF Left, Seen
  <2>2. CASE ~OwnsClaim(w)
      BY <1>5, <1>15, <2>2 DEF Failover, row
  <2> QED
      BY <2>1, <2>2
<1> QED
    BY <1>6, <1>7, <1>8, <1>9, <1>10, <1>11, <1>12, <1>13, <1>14, <1>15

\* What operators, the janitor and a starting process write.
LEMMA JobStepMoves ==
    ASSUME TypeOK, CleanPaths, TypeOK', NEW j \in Job, JobStep(j)
    PROVE  Table!Next \/ UNCHANGED Table!vars
<1>1. CASE Cancel(j)
  <2>1. status[j] \notin Terminal /\ status'[j] = "CANCELLED" /\ stage' = stage
        /\ \A k \in Job \ {j} : Left(k)
      BY <1>1 DEF Cancel, Left, Seen, TypeOK, RowTypeOK
  <2>2. Table!Drop(j)
      BY <2>1, OneMoves DEF Table!Drop, Table!Becomes, Seen, Terminal
  <2> QED
      BY <2>2 DEF Table!Next
<1>2. CASE Retry(j) \/ Requeue(j)
  <2>1. PICK s : /\ Reopen(j, s)
                 /\ \/ status[j] \in {"FAILED", "CANCELLED"} /\ s = FirstStage
                    \/ status[j] = "FAILED" /\ s \in RequeueStage \union {FirstStage}
      BY <1>2 DEF Retry, Requeue
  <2>2. status'[j] = "PENDING" /\ stage'[j] = s /\ \A k \in Job \ {j} : Left(k)
      BY <2>1 DEF Reopen, Left, Seen, TypeOK, RowTypeOK
  <2>3. Table!Requeue(j) \/ Table!Retry(j)
      BY <2>1, <2>2, OneMoves DEF Table!Requeue, Table!Retry, Table!Becomes, Seen
  <2> QED
      BY <2>3 DEF Table!Next
<1>3. CASE ReconcileToDone(j) \/ FinalizeDeploying(j)
  <2>1. status[j] \in {"DEPLOYING", "FAILED"} /\ status'[j] = "DONE"
        /\ stage'[j] = DoneStage /\ \A k \in Job \ {j} : Left(k)
      BY <1>3 DEF ReconcileToDone, FinalizeDeploying, Left, Seen, TypeOK, RowTypeOK
  <2>2. Table!Reconcile(j)
      BY <2>1, OneMoves DEF Table!Reconcile, Table!Becomes, Seen
  <2> QED
      BY <2>2 DEF Table!Next
<1>4. CASE SupersedeFailed(j)
  <2>1. status[j] = "FAILED" /\ status'[j] = "CANCELLED" /\ stage' = stage
        /\ \A k \in Job \ {j} : Left(k)
      BY <1>4 DEF SupersedeFailed, Left, Seen, TypeOK, RowTypeOK
  <2>2. Table!Drop(j)
      BY <2>1, OneMoves DEF Table!Drop, Table!Becomes, Seen
  <2> QED
      BY <2>2 DEF Table!Next
<1>5. CASE BlockDependent(j)
  <2>1. status[j] = "PENDING" /\ status'[j] = "FAILED" /\ stage' = stage
        /\ \A k \in Job \ {j} : Left(k)
      BY <1>5 DEF BlockDependent, Left, Seen, TypeOK, RowTypeOK
  <2>2. Table!Fail(j)
      BY <2>1, OneMoves DEF Table!Fail, Table!Becomes, Seen
  <2> QED
      BY <2>2 DEF Table!Next
<1>6. CASE Resolve(j)
    BY <1>6, AllLeft DEF Resolve, row, Left, Seen
<1> QED
    BY <1>1, <1>2, <1>3, <1>4, <1>5, <1>6 DEF JobStep, StartupReconcile, CleanPaths

LEMMA TableStep ==
    ASSUME TypeOK, IInv, CleanPaths, TypeOK', [Next]_vars
    PROVE  Table!Next \/ UNCHANGED Table!vars
<1>1. ASSUME UNCHANGED <<status, stage>> PROVE UNCHANGED Table!vars
    BY <1>1, AllLeft DEF Left, Seen
<1>2. ASSUME NEW w \in Worker, WorkerStep(w)
      PROVE  Table!Next \/ UNCHANGED Table!vars
  <2>1. CASE Claim(w) \/ ClaimFastpath(w)
      BY <2>1, ClaimTakes, TakenUnseen
  <2>2. CASE ClaimNothing(w)
      BY <2>2, AllLeft DEF ClaimNothing, Left, Seen, Reclaimed, Expired
  <2>3. CASE BackToPolling(w) \/ Renew(w) \/ Raise(w) \/ Crash(w)
      BY <1>1, <2>3 DEF BackToPolling, Renew, Raise, Crash, row
  <2>4. CASE \/ Advance(w) \/ Yield(w) \/ HandlerTimeout(w) \/ Finish(w) \/ GiveUp(w)
             \/ Supersede(w) \/ DeployDone(w) \/ DeployRestart(w) \/ BaselineBlock(w)
             \/ NoticeCancel(w) \/ TimedOut(w) \/ FailJob(w) \/ DropJob(w) \/ Failover(w)
    <3>1. Executing(w)
        BY <2>4 DEF Advance, Yield, HandlerTimeout, Finish, GiveUp, Supersede,
                    DeployDone, DeployRestart, DeployWrite, BaselineBlock,
                    NoticeCancel, TimedOut, FailJob, DropJob, Failover, FailsOver, InHandler,
                    Executing, IInv
    <3> QED
        BY <2>4, <3>1, EndMoves
  <2>5. ~(\/ Rerun(w) \/ MidSave(w) \/ SaveFails(w) \/ ClearFails(w) \/ TailError(w))
      BY DEF Rerun, MidSave, SaveFails, ClearFails, TailError, CleanPaths, IInv
  <2> QED
      BY <1>2, <2>1, <2>2, <2>3, <2>4, <2>5 DEF WorkerStep
<1>3. CASE Tick \/ UNCHANGED vars
    BY <1>1, <1>3 DEF Tick, vars, row
<1> QED
    BY <1>2, <1>3, JobStepMoves DEF Next

\* For any stage graph and any number of jobs and workers, one step of the queue
\* moves one row at most, along the graph or one of the exits of JobTable: no
\* save of a worker lands on a row that has moved on.
THEOREM ImplementsTheTable ==
    ASSUME CleanPaths PROVE Spec => ImplementsTable
<1>1. Init => TypeOK /\ IInv
    BY InitType, InitInv
<1>2. TypeOK /\ IInv /\ [Next]_vars => (TypeOK /\ IInv)'
    BY NextType, NextInv
<1>3. Init => Table!Init
  <2>1. TypeOK => stage \in [Job -> Stage]
      BY DEF TypeOK, RowTypeOK
  <2>2. Init => \A j \in Job : status[j] = "PENDING"
      BY DEF Init
  <2> QED
      BY <1>1, <2>1, <2>2 DEF Table!Init
<1>4. TypeOK /\ IInv /\ TypeOK' /\ [Next]_vars => [Table!Next]_(Table!vars)
    BY TableStep
<1> QED
    BY <1>1, <1>2, <1>3, <1>4, PTL DEF Spec, ImplementsTable, Table!Spec

-----------------------------------------------------------------------------
(* Every RUNNING row has a lease *)

\* A row that is RUNNING without a lease would never be taken back.
Leased == \A j \in Job : status[j] = "RUNNING" => lease[j] # NoLease

\* The inductive form: the job object that a handler may save in mid-flight has
\* one as well.
HasJob(w) == pc[w] \notin {"idle", "down"}

LeasedInv ==
    /\ Leased
    /\ SaveStage # {} => \A w \in Worker : HasJob(w) => mlease[w] # NoLease

\* A term is not the absence of a lease, and no lease ages into it.
LEMMA LeaseTerms ==
    /\ TTL # NoLease
    /\ \A t \in NoLease..TTL : t # NoLease => Older(t) # NoLease
BY TimeAssumption DEF NoLease, Older

\* A save that does not leave the row RUNNING leaves the others their leases.
LEMMA SaveLeased ==
    ASSUME TypeOK, Leased, NEW w \in Worker, mjob[w] \in Job,
           NEW st, NEW s, NEW o, NEW l, NEW c,
           st = "RUNNING" => l # NoLease, Save(w, st, s, o, l, c)
    PROVE  Leased'
<1>1. CASE status[mjob[w]] \in Terminal
    BY <1>1 DEF Save, row, Leased
<1>2. CASE status[mjob[w]] \notin Terminal
    BY <1>2 DEF Save, Write, Leased, TypeOK, RowTypeOK
<1> QED
    BY <1>1, <1>2

\* The rows of every step keep their leases.
LEMMA RowsLeased == ASSUME TypeOK, LeasedInv, [Next]_vars PROVE Leased'
<1>0. Leased
    BY DEF LeasedInv
<1>1. ASSUME NEW w \in Worker, WorkerStep(w) PROVE Leased'
  <2>1. InHandler(w) \/ pc[w] \in {"tail", "raised", "failing"} => mjob[w] \in Job
      BY DEF TypeOK, WorkerTypeOK, InHandler
  <2>2. CASE Advance(w) \/ Yield(w) \/ HandlerTimeout(w) \/ Finish(w)
    <3>1. PICK st \in {"PENDING", "DONE"} : \E s, o, c : Save(w, st, s, o, NoLease, c)
        BY <2>2 DEF Advance, Yield, HandlerTimeout, Finish
    <3> QED
        BY <1>0, <2>1, <2>2, <3>1, SaveLeased DEF Advance, Yield, HandlerTimeout, Finish
  <2>3. CASE GiveUp(w) \/ Supersede(w) \/ TimedOut(w) \/ FailJob(w)
    <3>1. PICK st \in {"PENDING", "FAILED", "CANCELLED"} : \E s, o, c : Save(w, st, s, o, NoLease, c)
        BY <2>3 DEF GiveUp, Supersede, TimedOut, FailJob
    <3> QED
        BY <1>0, <2>1, <2>3, <3>1, SaveLeased DEF GiveUp, Supersede, TimedOut, FailJob
  <2>4. CASE MidSave(w)
    <3>1. mlease[w] # NoLease
        BY <2>4 DEF MidSave, LeasedInv, HasJob
    <3>2. PICK st, l : /\ Save(w, st, mstage[w], Held(w), l, 0)
                       /\ st = "RUNNING" => l = mlease[w]
        BY <2>4 DEF MidSave
    <3> QED
        BY <1>0, <2>1, <2>4, <3>1, <3>2, SaveLeased DEF MidSave, InHandler
  <2>5. CASE DeployDone(w) \/ DeployRestart(w)
      BY <1>0, <2>1, <2>5 DEF DeployDone, DeployRestart, DeployWrite, row, Leased, TypeOK, RowTypeOK
  <2>6. CASE BaselineBlock(w)
      BY <1>0, <2>1, <2>6 DEF BaselineBlock, Leased, TypeOK, RowTypeOK
  <2>7. CASE Failover(w)
      BY <1>0, <2>1, <2>7 DEF Failover, FailsOver, row, Leased, TypeOK, RowTypeOK
  <2>8. CASE Claim(w) \/ ClaimNothing(w)
      BY <1>0, <2>8, LeaseTerms
         DEF Claim, ClaimNothing, Reclaimed, Leased, TypeOK, RowTypeOK
  <2>9. CASE ClaimFastpath(w)
      BY <1>0, <2>1, <2>9, LeaseTerms DEF ClaimFastpath, Leased, TypeOK, RowTypeOK
  <2>10. CASE Renew(w)
      BY <1>0, <2>1, <2>10, LeaseTerms DEF Renew, Leased, TypeOK, RowTypeOK
  <2>11. CASE \/ BackToPolling(w) \/ Rerun(w) \/ Raise(w) \/ NoticeCancel(w)
              \/ DropJob(w) \/ SaveFails(w) \/ ClearFails(w) \/ TailError(w) \/ Crash(w)
      BY <1>0, <2>11 DEF BackToPolling, Rerun, Raise, NoticeCancel, DropJob,
                         SaveFails, ClearFails, TailError, Crash, row, Leased
  <2> QED
      BY <1>1, <2>2, <2>3, <2>4, <2>5, <2>6, <2>7, <2>8, <2>9, <2>10, <2>11 DEF WorkerStep
<1>2. ASSUME NEW j \in Job, JobStep(j) PROVE Leased'
    BY <1>0, <1>2 DEF JobStep, Cancel, Retry, Requeue, Reopen, ReconcileToDone,
                SupersedeFailed, BlockDependent, FinalizeDeploying,
                StartupReconcile, Terminal, Resolve, row, Leased, TypeOK, RowTypeOK
<1>3. CASE Tick
    BY <1>0, <1>3, LeaseTerms DEF Tick, Leased, TypeOK, RowTypeOK
<1>4. CASE UNCHANGED vars
    BY <1>0, <1>4 DEF vars, row, Leased
<1> QED
    BY <1>1, <1>2, <1>3, <1>4 DEF Next

\* So do the job objects of the workers.
LEMMA ObjectsLeased ==
    ASSUME TypeOK, LeasedInv, [Next]_vars, SaveStage # {}, NEW v \in Worker, HasJob(v)'
    PROVE  mlease'[v] # NoLease
<1>0. HasJob(v) => mlease[v] # NoLease
    BY DEF LeasedInv
<1>1. ASSUME NEW w \in Worker, NEW j \in Job, NEW a, Hold(w, j, a) PROVE mlease'[v] # NoLease
    BY <1>0, <1>1, LeaseTerms DEF Hold, HasJob, TypeOK, WorkerTypeOK
<1>2. ASSUME NEW w \in Worker, LetGo(w) PROVE mlease'[v] # NoLease
    BY <1>0, <1>2 DEF LetGo, HasJob, TypeOK, WorkerTypeOK
<1>3. ASSUME NEW w \in Worker, pc' = [pc EXCEPT ![w] = "tail"], HasJob(w), mlease' = mlease
      PROVE  mlease'[v] # NoLease
    BY <1>0, <1>3 DEF HasJob, TypeOK, WorkerTypeOK
<1>4. ASSUME NEW w \in Worker, WorkerStep(w) PROVE mlease'[v] # NoLease
  <2>1. CASE Claim(w)
      BY <1>1, <2>1 DEF Claim
  <2>2. CASE ClaimFastpath(w)
      BY <1>1, <2>2 DEF ClaimFastpath, TypeOK, WorkerTypeOK
  <2>3. CASE \/ BackToPolling(w) \/ NoticeCancel(w) \/ TimedOut(w) \/ FailJob(w)
             \/ DropJob(w) \/ Failover(w)
      BY <1>2, <2>3 DEF BackToPolling, NoticeCancel, TimedOut, FailJob, DropJob, Failover
  <2>4. CASE \/ Advance(w) \/ Yield(w) \/ HandlerTimeout(w) \/ Finish(w) \/ GiveUp(w)
             \/ Supersede(w) \/ DeployDone(w) \/ DeployRestart(w) \/ BaselineBlock(w)
    <3>1. HasJob(w) /\ pc' = [pc EXCEPT ![w] = "tail"] /\ mlease' = mlease
        BY <2>4 DEF Advance, Yield, HandlerTimeout, Finish, GiveUp, Supersede, DeployDone,
                    DeployRestart, DeployWrite, BaselineBlock, ToTail, InHandler, HasJob
    <3> QED
        BY <1>3, <3>1
  <2>5. CASE \/ Rerun(w) \/ MidSave(w) \/ Raise(w) \/ SaveFails(w) \/ ClearFails(w)
             \/ TailError(w) \/ Renew(w) \/ ClaimNothing(w)
      BY <1>0, <2>5 DEF Rerun, MidSave, Raise, SaveFails, ClearFails, TailError, Renew,
                  ClaimNothing, worker, InHandler, HasJob, TypeOK, WorkerTypeOK
  <2>6. CASE Crash(w)
      BY <1>0, <2>6 DEF Crash, HasJob, TypeOK, WorkerTypeOK
  <2> QED
      BY <1>4, <2>1, <2>2, <2>3, <2>4, <2>5, <2>6 DEF WorkerStep
<1>5. ASSUME NEW j \in Job, JobStep(j) PROVE mlease'[v] # NoLease
    BY <1>0, <1>5 DEF JobStep, Cancel, Retry, Requeue, Reopen, ReconcileToDone,
                SupersedeFailed, BlockDependent, FinalizeDeploying,
                StartupReconcile, Resolve, worker, HasJob
<1>6. CASE Tick
    BY <1>0, <1>6, LeaseTerms DEF Tick, HasJob, TypeOK, WorkerTypeOK
<1>7. CASE UNCHANGED vars
    BY <1>0, <1>7 DEF vars, worker, HasJob
<1> QED
    BY <1>4, <1>5, <1>6, <1>7 DEF Next

\* No row is ever RUNNING without a lease, whichever paths are switched on: not
\* after a handler saved an old copy of its job, not after a re-run, not after the
\* fast path.  So the reclaim of claim, which passes over lease_until = 0, passes
\* over no row that somebody has let down.
THEOREM RunningIsLeased == Spec => []Leased
<1>1. Init => LeasedInv
    BY DEF Init, LeasedInv, Leased, HasJob
<1>2. TypeOK /\ LeasedInv /\ [Next]_vars => LeasedInv'
  <2> SUFFICES ASSUME TypeOK, LeasedInv, [Next]_vars PROVE LeasedInv'
      OBVIOUS
  <2> QED
      BY RowsLeased, ObjectsLeased DEF LeasedInv
<1>3. LeasedInv => Leased
    BY DEF LeasedInv
<1> QED
    BY <1>1, <1>2, <1>3, TypeCorrect, PTL DEF Spec
=============================================================================
