------------------------------ MODULE JobTable ------------------------------
(***************************************************************************)
(* What may become of a job's row, whoever writes it: the stage graph, and *)
(* the ways out of it and back in.  There are no workers, leases or        *)
(* budgets here; a job that is being worked on counts as PENDING.          *)
(*                                                                         *)
(* Two specifications implement this one: JobQueue, for every stage graph  *)
(* and with any number of workers writing to the rows, and JobPipeline,    *)
(* whose handlers are the graph.  It is what the two share.                *)
(***************************************************************************)
CONSTANTS
    Job,            \* job ids
    Stage,          \* checkpoints
    FirstStage,     \* QUEUED
    DoneStage,      \* DONE
    Target,         \* Target[s]: stages the handler of s may leave the job at
    DeployStage,    \* stages whose handler ends with the deploy writes
    BlockStage,     \* stages whose handler may park the job, whatever its status
    RequeueStage    \* stages a FAILED job may be requeued at

VARIABLES stage, status

vars == <<stage, status>>

Init ==
    /\ stage \in [Job -> Stage]
    /\ status = [j \in Job |-> "PENDING"]

Becomes(j, st, s) ==
    /\ status' = [status EXCEPT ![j] = st]
    /\ stage' = [stage EXCEPT ![j] = s]

\* The stage succeeded, or its failure is routed to another one.
Advance(j) ==
    /\ status[j] = "PENDING"
    /\ \E s \in Target[stage[j]] \ {DoneStage} : Becomes(j, "PENDING", s)

\* Nothing was left to build, or the job is deployed.
Finish(j) ==
    /\ status[j] = "PENDING"
    /\ DoneStage \in Target[stage[j]] \/ stage[j] \in DeployStage
    /\ Becomes(j, "DONE", DoneStage)

\* The deploy has replaced the pipeline: a later process verifies it.
Restart(j) ==
    /\ status[j] = "PENDING" /\ stage[j] \in DeployStage
    /\ Becomes(j, "DEPLOYING", stage[j])

Fail(j) ==
    /\ status[j] \in {"PENDING", "DEPLOYING"}
    /\ Becomes(j, "FAILED", stage[j])

\* Cancelled by an operator, or replaced by the parts of a split.
Drop(j) ==
    /\ status[j] \notin {"DONE", "CANCELLED"}
    /\ Becomes(j, "CANCELLED", stage[j])

\* Verified after the restart, or found merged after a failure.
Reconcile(j) ==
    /\ status[j] \in {"DEPLOYING", "FAILED"}
    /\ Becomes(j, "DONE", DoneStage)

Requeue(j) ==
    /\ status[j] = "FAILED"
    /\ \E s \in RequeueStage \union {FirstStage} : Becomes(j, "PENDING", s)

\* A cancelled job starts over; or it is parked by a handler that never saw the
\* cancellation, and so comes back where it was.
Retry(j) ==
    /\ status[j] = "CANCELLED"
    /\ \E s \in {FirstStage} \union ({stage[j]} \cap BlockStage) : Becomes(j, "PENDING", s)

Next ==
    \E j \in Job :
        \/ Advance(j) \/ Finish(j) \/ Restart(j) \/ Fail(j) \/ Drop(j)
        \/ Reconcile(j) \/ Requeue(j) \/ Retry(j)

Spec == Init /\ [][Next]_vars
=============================================================================
