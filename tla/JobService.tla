----------------------------- MODULE JobService -----------------------------
(***************************************************************************)
(* What the job queue promises to the rest of the pipeline, with no        *)
(* leases, rows or retries in sight: a job is worked on by at most one     *)
(* worker at a time, only once everything it depends on is settled, and a  *)
(* job that is done is never worked on again.                              *)
(*                                                                         *)
(* JobQueue (the claim / lease / save protocol of store.py and runner.py)  *)
(* implements this specification: see JobQueue!Service.                    *)
(***************************************************************************)
CONSTANTS
    Worker,     \* worker slots (PipelineRunner._loop instances)
    Job,        \* job ids
    Deps,       \* <<j, d>> \in Deps: job j depends on job d
    None        \* "no job"

VARIABLES
    doing,      \* doing[w]: the job whose stage worker w is carrying out
    done,       \* jobs that reached DONE
    excused     \* failed jobs an operator or a remediation marked resolved

vars == <<doing, done, excused>>

Prerequisites(j) == {d \in Job : <<j, d>> \in Deps}

Init ==
    /\ doing = [w \in Worker |-> None]
    /\ done = {}
    /\ excused = {}

\* A free worker takes a job nobody is working on and whose prerequisites are
\* all settled.
Start(w, j) ==
    /\ doing[w] = None
    /\ \A v \in Worker : doing[v] # j
    /\ j \notin done
    /\ Prerequisites(j) \subseteq done \union excused
    /\ doing' = [doing EXCEPT ![w] = j]
    /\ UNCHANGED <<done, excused>>

\* A worker lets go of its job: the stage ended, or the worker died.
Stop(w) ==
    /\ doing[w] # None
    /\ doing' = [doing EXCEPT ![w] = None]
    /\ done' \in {done, done \union {doing[w]}}
    /\ UNCHANGED excused

\* A job nobody is working on is declared done (verified live after a
\* restart, or found already merged).
Settle(j) ==
    /\ \A v \in Worker : doing[v] # j
    /\ done' = done \union {j}
    /\ UNCHANGED <<doing, excused>>

Excuse(j) ==
    /\ excused' = excused \union {j}
    /\ UNCHANGED <<doing, done>>

Next ==
    \/ \E w \in Worker, j \in Job : Start(w, j)
    \/ \E w \in Worker : Stop(w)
    \/ \E j \in Job : Settle(j) \/ Excuse(j)

Spec == Init /\ [][Next]_vars
=============================================================================
