------------------------- MODULE Remediation_proofs -------------------------
(***************************************************************************)
(* Remediation for every number of jobs, leaders, runners and people and   *)
(* every cap: types, the retry budget, one fix for each failed deployment  *)
(* while one supervisor leads, the depth of automated fixes, and what      *)
(* closes an incident.                                                     *)
(*                                                                         *)
(* An actor works on what it has read, so each invariant says what may     *)
(* still be relied on when it comes to act: the jobs it names exist, the   *)
(* retries under way are no more than the actors, a check that no fix has  *)
(* been filed still holds as long as nobody else leads.                    *)
(***************************************************************************)
EXTENDS Remediation, FiniteSetTheorems, TLAPS

(* Types *)

StatusOK ==
    /\ status \in [Jobs -> Statuses]
    /\ \A j \in Jobs : status[j] = "absent" <=> j > made

RowsOK ==
    /\ cause \in [Jobs -> Cause \union {"none"}] /\ blocker \in [Jobs -> 0..MaxJobs]
    /\ settled \subseteq Jobs /\ dead \subseteq Jobs
    /\ budget \in [Jobs -> Nat] /\ diagnosed \in [Jobs -> Nat]
    /\ lock \in Leader \union {None} /\ leads \subseteq Leader
    /\ troubles \in 0..MaxTroubles /\ doubled \in BOOLEAN

\* A job that was filed for another is younger.
FiledOK ==
    /\ made \in 0..MaxJobs
    /\ link \in [Jobs -> Links] /\ active \in [Jobs -> 0..MaxJobs]
    /\ \A f \in Jobs : link[f].kind # "plain" => f <= made /\ link[f].of \in 1..made /\ link[f].of < f
    /\ \A f \in Jobs : link[f].kind = "plain" => link[f].of = 0

\* Who has filed a job and has not linked it yet.
Linking == {"depend", "repoint", "record"}

\* Only supervisors take up more than what a job that is done unblocks.
Sees(a) == IF a \in Leader THEN Cause ELSE {"blocked"}

\* What an actor is at names jobs that exist.
Sound(b, m, C) ==
    /\ b \in [at : Ops, job : 0..MaxJobs, fix : 0..MaxJobs, seen : Seen]
    /\ b.at \notin {"idle", "scan"} => b.job \in 1..m
    /\ b.at \in Linking => b.fix \in 1..m
    /\ \A j \in Jobs : b.seen[j] # "none" => j <= m /\ b.seen[j] \in C

BusyOK == DOMAIN busy = Actor /\ busy = [a \in Actor |-> busy[a]] /\ \A a \in Actor : Sound(busy[a], made, Sees(a))

TypeInv == StatusOK /\ RowsOK /\ FiledOK /\ BusyOK /\ waits \subseteq Jobs \X Jobs

LEMMA TypesFollow == TypeInv => RemTypeOK
<1> SUFFICES ASSUME TypeInv PROVE RemTypeOK
  OBVIOUS
<1>1. \A j \in Jobs : link[j].of < j \/ link[j].of = 0
  BY DEF TypeInv, FiledOK, Links, Kinds, Jobs
<1>2. busy \in [Actor -> [at : Ops, job : 0..MaxJobs, fix : 0..MaxJobs, seen : Seen]]
  BY DEF TypeInv, BusyOK, Sound
<1>3. \A a \in Actor : busy[a].at \notin {"idle", "scan"} => busy[a].job \in Jobs
  BY RemediationAssumption DEF TypeInv, BusyOK, Sound, FiledOK, Jobs
<1>4. QED
  BY <1>1, <1>2, <1>3 DEF TypeInv, StatusOK, RowsOK, FiledOK, RemTypeOK

LEMMA FirstFit == Cardinality(First) \in 0..MaxJobs
<1>1. First \subseteq 1..MaxJobs
  BY RemediationAssumption DEF First, Jobs
<1>2. IsFiniteSet(1..MaxJobs) /\ Cardinality(1..MaxJobs) = MaxJobs
  BY FS_Interval, RemediationAssumption
<1>3. IsFiniteSet(First) /\ Cardinality(First) <= MaxJobs
  BY <1>1, <1>2, FS_Subset
<1>4. QED
  BY <1>3, FS_CardinalityType, RemediationAssumption

LEMMA TypeInit == RemInit => TypeInv
<1> SUFFICES ASSUME RemInit PROVE TypeInv
  OBVIOUS
<1>0. Cardinality(First) \in 0..MaxJobs
  BY FirstFit
<1>1. StatusOK
  BY <1>0, RemediationAssumption DEF RemInit, StatusOK, Statuses, Jobs
<1>5. RowsOK
  <2>1. cause \in [Jobs -> Cause \union {"none"}] /\ blocker \in [Jobs -> 0..MaxJobs]
    BY RemediationAssumption DEF RemInit, Nobody
  <2>2. settled \subseteq Jobs /\ dead \subseteq Jobs /\ leads \subseteq Leader /\ lock = None /\ doubled = FALSE
    BY DEF RemInit
  <2>3. budget \in [Jobs -> Nat] /\ diagnosed \in [Jobs -> Nat] /\ troubles \in 0..MaxTroubles
    BY RemediationAssumption DEF RemInit
  <2>4. QED
    BY <2>1, <2>2, <2>3 DEF RowsOK
<1>2. FiledOK
  BY <1>0, RemediationAssumption DEF RemInit, FiledOK, Of, Links, Kinds, Jobs
<1>3. BusyOK
  BY RemediationAssumption DEF RemInit, BusyOK, Sound, Idle, Nobody, Ops, Seen, Linking
<1>4. QED
  BY <1>1, <1>2, <1>3, <1>5, RemediationAssumption DEF TypeInv, RemInit

\* What the steps of an actor leave it at.
LEMMA DoesSound ==
    ASSUME BusyOK, FiledOK, NEW a \in Actor, NEW at \in Ops, NEW j \in 0..MaxJobs, NEW f \in 0..MaxJobs,
           made' \in made..MaxJobs, Does(a, at, j, f),
           at \in {"idle", "scan"} \/ j \in 1..made, at \in Linking => f \in 1..made'
    PROVE  BusyOK'
<1> DEFINE s == [busy[a].seen EXCEPT ![j] = "none"]
           b == [at |-> at, job |-> j, fix |-> f, seen |-> s]
<1>1. Sound(busy[a], made, Sees(a))
  BY DEF BusyOK
<1>2. s \in Seen /\ \A k \in Jobs : s[k] # "none" => k <= made /\ s[k] \in Sees(a)
  BY <1>1 DEF Sound, Seen
<1>3. Sound(b, made', Sees(a))
  BY <1>2, RemediationAssumption DEF Sound, FiledOK, Linking, Jobs
<1>4. busy' = [busy EXCEPT ![a] = b]
  BY DEF Does
<1>5. \A c \in Actor : Sound(busy[c], made', Sees(c))
  BY RemediationAssumption, SMTT(40) DEF BusyOK, Sound, FiledOK, Jobs
<1>6. QED
  BY <1>3, <1>4, <1>5 DEF BusyOK

LEMMA BecomesSound ==
    ASSUME BusyOK, FiledOK, NEW a \in Actor, NEW b, made' \in made..MaxJobs,
           busy' = [busy EXCEPT ![a] = b], Sound(b, made', Sees(a))
    PROVE  BusyOK'
<1>1. \A c \in Actor : Sound(busy[c], made', Sees(c))
  BY RemediationAssumption, SMTT(40) DEF BusyOK, Sound, FiledOK, Jobs
<1>2. QED
  BY <1>1 DEF BusyOK

LEMMA StaysSound ==
    ASSUME BusyOK, FiledOK, made' \in made..MaxJobs, UNCHANGED busy
    PROVE  BusyOK'
  BY RemediationAssumption DEF BusyOK, Sound, FiledOK, Jobs

LEMMA MovesSound ==
    ASSUME BusyOK, FiledOK, NEW a \in Actor, NEW at \in Ops, made' \in made..MaxJobs,
           busy' = [busy EXCEPT ![a].at = at],
           at \in {"idle", "scan"} \/ busy[a].at \notin {"idle", "scan"},
           at \in Linking => busy[a].fix \in 1..made'
    PROVE  BusyOK'
<1> DEFINE b == [busy[a] EXCEPT !.at = at]
<1>1. Sound(busy[a], made, Sees(a))
  BY DEF BusyOK
<1>2. b = [at |-> at, job |-> busy[a].job, fix |-> busy[a].fix, seen |-> busy[a].seen]
  BY <1>1 DEF Sound
<1> HIDE DEF b
<1>3. b.at = at /\ b.job = busy[a].job /\ b.fix = busy[a].fix /\ b.seen = busy[a].seen
  BY <1>2
<1>4. Sound(b, made', Sees(a))
  BY <1>1, <1>2, <1>3, RemediationAssumption DEF Sound, FiledOK, Jobs
<1>5. busy' = [busy EXCEPT ![a] = b]
  BY DEF b
<1>6. QED
  BY <1>4, <1>5, BecomesSound

Record == [at : Ops, job : 0..MaxJobs, fix : 0..MaxJobs, seen : Seen]

\* One field after the other.
LEMMA SeenAs ==
    ASSUME NEW r \in Record, NEW x, NEW s
    PROVE  [r EXCEPT !.at = x, !.seen = s] = [at |-> x, job |-> r.job, fix |-> r.fix, seen |-> s]
<1> DEFINE c == [r EXCEPT !.at = x]
<1>1. c = [at |-> x, job |-> r.job, fix |-> r.fix, seen |-> r.seen]
  BY DEF Record
<1>2. [r EXCEPT !.at = x, !.seen = s] = [c EXCEPT !.seen = s]
  BY DEF Record
<1> HIDE DEF c
<1>3. [c EXCEPT !.seen = s] = [at |-> x, job |-> r.job, fix |-> r.fix, seen |-> s]
  BY <1>1
<1>4. QED
  BY <1>2, <1>3

LEMMA FixAs ==
    ASSUME NEW r \in Record, NEW x, NEW f
    PROVE  [r EXCEPT !.at = x, !.fix = f] = [at |-> x, job |-> r.job, fix |-> f, seen |-> r.seen]
<1> DEFINE c == [r EXCEPT !.at = x]
<1>1. c = [at |-> x, job |-> r.job, fix |-> r.fix, seen |-> r.seen]
  BY DEF Record
<1>2. [r EXCEPT !.at = x, !.fix = f] = [c EXCEPT !.fix = f]
  BY DEF Record
<1> HIDE DEF c
<1>3. [c EXCEPT !.fix = f] = [at |-> x, job |-> r.job, fix |-> f, seen |-> r.seen]
  BY <1>1
<1>4. QED
  BY <1>2, <1>3

LEMMA ScansAs ==
    ASSUME BusyOK, NEW a \in Actor, NEW s, busy' = [busy EXCEPT ![a].at = "scan", ![a].seen = s]
    PROVE  busy' = [busy EXCEPT ![a] = [at |-> "scan", job |-> busy[a].job, fix |-> busy[a].fix, seen |-> s]]
<1> DEFINE b == [busy[a] EXCEPT !.at = "scan", !.seen = s]
<1>1. busy[a] \in Record
  BY DEF BusyOK, Sound, Record
<1>2. b = [at |-> "scan", job |-> busy[a].job, fix |-> busy[a].fix, seen |-> s]
  BY <1>1, SeenAs
<1>3. busy' = [busy EXCEPT ![a] = b]
  BY DEF BusyOK
<1>4. QED
  BY <1>2, <1>3

LEMMA PropagatedJobs == \A d : Propagated(d) \subseteq Jobs
  BY DEF Propagated


\* What is relied on at every step.
LEMMA NamedJobs ==
    ASSUME TypeInv
    PROVE  /\ made \in Nat /\ made <= MaxJobs /\ \A j \in 1..made : j \in Jobs
           /\ \A a \in Actor : busy[a].at \notin {"idle", "scan"} => busy[a].job \in 1..made
           /\ \A a \in Actor : busy[a].at \in Linking => busy[a].fix \in 1..made
           /\ \A a \in Actor, j \in Jobs : busy[a].seen[j] # "none" => j \in 1..made
<1>1. made \in Nat /\ made <= MaxJobs /\ \A j \in 1..made : j \in Jobs
  BY RemediationAssumption DEF TypeInv, FiledOK, Jobs
<1>2. \A a \in Actor : Sound(busy[a], made, Sees(a))
  BY DEF TypeInv, BusyOK
<1>3. QED
  BY <1>1, <1>2 DEF Sound, Jobs

LEMMA StatusStep == TypeInv /\ [RemNext]_remVars => StatusOK'
<1> SUFFICES ASSUME TypeInv, [RemNext]_remVars PROVE StatusOK'
  OBVIOUS
<1>0. TypeInv /\ [RemNext]_remVars
  OBVIOUS
<1>1. /\ StatusOK /\ made \in Nat /\ made <= MaxJobs /\ \A j \in 1..made : j \in Jobs
      /\ \A a \in Actor : busy[a].at \notin {"idle", "scan"} => busy[a].job \in 1..made
  BY NamedJobs DEF TypeInv
<1>2. QED
  <2>1. ASSUME NEW l \in Leader, Elected(l) PROVE StatusOK'
    BY <2>1, <1>1, RemediationAssumption
       DEF Elected, StatusOK, Statuses, Jobs, Actor, rows, filed, counts
  <2>2. ASSUME NEW l \in Leader, Scans(l) PROVE StatusOK'
    BY <2>2, <1>1, RemediationAssumption
       DEF Scans, Idle, leading, Nobody, StatusOK, Statuses, Jobs, Actor, rows, filed, counts
  <2>3. ASSUME NEW l \in Leader, NEW j \in Jobs, NEW d \in Jobs, Blocks(l, j, d) PROVE StatusOK'
    BY <2>3, <1>1, RemediationAssumption
       DEF Blocks, Nobody, leading, StatusOK, Statuses, Jobs, Actor, rows, filed, counts
  <2>4. ASSUME LosesLock PROVE StatusOK'
    BY <2>4, <1>1, RemediationAssumption
       DEF LosesLock, StatusOK, Statuses, Jobs, Actor, rows, filed, counts
  <2>5. ASSUME NEW a \in Actor, Dies(a) PROVE StatusOK'
    BY <2>5, <1>1, RemediationAssumption
       DEF Dies, Idle, Nobody, StatusOK, Statuses, Jobs, Actor, rows, filed, counts
  <2>6. ASSUME NEW a \in Leader \union Worker, Ends(a) PROVE StatusOK'
    BY <2>6, <1>1, RemediationAssumption
       DEF Ends, Nobody, Idle, leading, StatusOK, Statuses, Jobs, Actor, rows, filed, counts
  <2>7. ASSUME NEW a \in Leader \union Worker, Counts(a) PROVE StatusOK'
    BY <2>7, <1>1, RemediationAssumption
       DEF Counts, leading, StatusOK, Statuses, Jobs, Actor, rows, filed, counts
  <2>8. ASSUME NEW a \in Leader \union Worker, Requeues(a) PROVE StatusOK'
    BY <2>8, <1>1, RemediationAssumption
       DEF Requeues, leading, StatusOK, Statuses, Jobs, Actor, rows, filed, counts
  <2>9. ASSUME NEW a \in Leader \union Worker, Depends(a) PROVE StatusOK'
    BY <2>9, <1>1, RemediationAssumption
       DEF Depends, leading, StatusOK, Statuses, Jobs, Actor, rows, filed, counts
  <2>10. ASSUME NEW a \in Leader \union Worker, FilesDeployFix(a) PROVE StatusOK'
    BY <2>10, <1>1, RemediationAssumption
       DEF FilesDeployFix, Births, leading, Room, Of, StatusOK, Statuses, Jobs, Actor, rows, filed, counts
  <2>11. ASSUME NEW a \in Leader \union Worker, FilesHeadsFix(a) PROVE StatusOK'
    BY <2>11, <1>1, RemediationAssumption
       DEF FilesHeadsFix, Births, leading, Room, Of, StatusOK, Statuses, Jobs, Actor, rows, filed, counts
  <2>12. ASSUME NEW a \in Leader \union Worker, ConsultsLast(a) PROVE StatusOK'
    BY <2>12, <1>1, RemediationAssumption
       DEF ConsultsLast, leading, StatusOK, Statuses, Jobs, Actor, rows, filed, counts
  <2>13. ASSUME NEW a \in Leader \union Worker, Escalates(a) PROVE StatusOK'
    BY <2>13, <1>1, RemediationAssumption
       DEF Escalates, leading, StatusOK, Statuses, Jobs, Actor, rows, filed, counts
  <2>14. ASSUME NEW a \in Leader \union Worker, AdvisesRetry(a) PROVE StatusOK'
    BY <2>14, <1>1, RemediationAssumption
       DEF AdvisesRetry, Advised, leading, StatusOK, Statuses, Jobs, Actor, rows, filed, counts
  <2>15. ASSUME NEW a \in Leader \union Worker, AdvisesFix(a) PROVE StatusOK'
    BY <2>15, <1>1, RemediationAssumption
       DEF AdvisesFix, Advised, leading, StatusOK, Statuses, Jobs, Actor, rows, filed, counts
  <2>16. ASSUME NEW a \in Leader \union Worker, FindsConflict(a) PROVE StatusOK'
    BY <2>16, <1>1, RemediationAssumption
       DEF FindsConflict, leading, StatusOK, Statuses, Jobs, Actor, rows, filed, counts
  <2>17. ASSUME NEW a \in Leader \union Worker, SplitsSaved(a) PROVE StatusOK'
    BY <2>17, <1>1, RemediationAssumption
       DEF SplitsSaved, Births, leading, Room, Of, StatusOK, Statuses, Jobs, Actor, rows, filed, counts
  <2>18. ASSUME NEW a \in Leader \union Worker, RepointsSaved(a) PROVE StatusOK'
    BY <2>18, <1>1, RemediationAssumption
       DEF RepointsSaved, leading, StatusOK, Statuses, Jobs, Actor, rows, filed, counts
  <2>19. ASSUME NEW a \in Leader \union Worker, SupersedesFailed(a) PROVE StatusOK'
    BY <2>19, <1>1, RemediationAssumption
       DEF SupersedesFailed, leading, StatusOK, Statuses, Jobs, Actor, rows, filed, counts
  <2>20. ASSUME NEW a \in Leader \union Worker, NEW n \in 1..2, NEW E \in SUBSET (IF n = 2 THEN {<<made + 2, made + 1>>} ELSE {}), FilesBatch(a, n, E) PROVE StatusOK'
    BY <2>20, <1>1, RemediationAssumption
       DEF FilesBatch, Room, Of, leading, StatusOK, Statuses, Jobs, Actor, rows, filed, counts
  <2>21. ASSUME NEW a \in Leader \union Worker, NEW j \in Jobs, RemediatesTransient(a, j) PROVE StatusOK'
    BY <2>21, <1>1, RemediationAssumption
       DEF RemediatesTransient, Picked, Counted, Exhausted, leading, StatusOK, Statuses, Jobs, Actor, rows, filed, counts
  <2>22. ASSUME NEW a \in Leader \union Worker, NEW j \in Jobs, RemediatesMerge(a, j) PROVE StatusOK'
    BY <2>22, <1>1, RemediationAssumption
       DEF RemediatesMerge, Picked, Counted, Exhausted, leading, StatusOK, Statuses, Jobs, Actor, rows, filed, counts
  <2>23. ASSUME NEW a \in Leader \union Worker, NEW j \in Jobs, RemediatesEnvironment(a, j) PROVE StatusOK'
    BY <2>23, <1>1, RemediationAssumption
       DEF RemediatesEnvironment, Picked, Counted, Exhausted, leading, StatusOK, Statuses, Jobs, Actor, rows, filed, counts
  <2>24. ASSUME NEW a \in Leader \union Worker, NEW j \in Jobs, RemediatesBlocked(a, j) PROVE StatusOK'
    BY <2>24, <1>1, RemediationAssumption
       DEF RemediatesBlocked, Picked, StillBlocked, leading, Counted, Exhausted, StatusOK, Statuses, Jobs, Actor, rows, filed, counts
  <2>25. ASSUME NEW a \in Leader \union Worker, NEW j \in Jobs, RemediatesGate(a, j) PROVE StatusOK'
    BY <2>25, <1>1, RemediationAssumption
       DEF RemediatesGate, Picked, Births, leading, Room, Of, StatusOK, Statuses, Jobs, Actor, rows, filed, counts
  <2>26. ASSUME NEW a \in Leader \union Worker, NEW j \in Jobs, RemediatesDeploy(a, j) PROVE StatusOK'
    BY <2>26, <1>1, RemediationAssumption
       DEF RemediatesDeploy, Picked, leading, StatusOK, Statuses, Jobs, Actor, rows, filed, counts
  <2>27. ASSUME NEW a \in Leader \union Worker, NEW j \in Jobs, RemediatesHeads(a, j) PROVE StatusOK'
    BY <2>27, <1>1, RemediationAssumption
       DEF RemediatesHeads, Picked, leading, StatusOK, Statuses, Jobs, Actor, rows, filed, counts
  <2>28. ASSUME NEW a \in Leader \union Worker, NEW j \in Jobs, Consults(a, j) PROVE StatusOK'
    BY <2>28, <1>1, RemediationAssumption
       DEF Consults, Picked, leading, StatusOK, Statuses, Jobs, Actor, rows, filed, counts
  <2>29. ASSUME NEW p \in Person, FixesForward(p) PROVE StatusOK'
    BY <2>29, <1>1, RemediationAssumption
       DEF FixesForward, Births, leading, Room, Of, StatusOK, Statuses, Jobs, Actor, rows, filed, counts
  <2>30. ASSUME NEW p \in Person, Records(p) PROVE StatusOK'
    BY <2>30, <1>1, RemediationAssumption
       DEF Records, Idle, leading, Nobody, StatusOK, Statuses, Jobs, Actor, rows, filed, counts
  <2>31. ASSUME NEW p \in Person, NEW j \in Jobs, Checks(p, j) PROVE StatusOK'
    BY <2>31, <1>1, RemediationAssumption
       DEF Checks, Idle, leading, Nobody, StatusOK, Statuses, Jobs, Actor, rows, filed, counts
  <2>32. ASSUME NEW j \in Jobs, Retries(j) PROVE StatusOK'
    BY <2>32, <1>1, RemediationAssumption
       DEF Retries, leading, StatusOK, Statuses, Jobs, Actor, rows, filed, counts
  <2>33. ASSUME NEW j \in Jobs, Cancels(j) PROVE StatusOK'
    BY <2>33, <1>1, RemediationAssumption
       DEF Cancels, Live, leading, StatusOK, Statuses, Jobs, Actor, rows, filed, counts
  <2>34. ASSUME NEW j \in Jobs, Resolves(j) PROVE StatusOK'
    BY <2>34, <1>1, RemediationAssumption
       DEF Resolves, leading, StatusOK, Statuses, Jobs, Actor, rows, filed, counts
  <2>35. ASSUME NEW j \in Jobs, Claims(j) PROVE StatusOK'
    BY <2>35, <1>1, RemediationAssumption
       DEF Claims, leading, StatusOK, Statuses, Jobs, Actor, rows, filed, counts
  <2>36. ASSUME NEW j \in Jobs, NEW c \in Causes, Fails(j, c) PROVE StatusOK'
    BY <2>36, <1>1, RemediationAssumption
       DEF Fails, leading, StatusOK, Statuses, Jobs, Actor, rows, filed, counts
  <2>37. ASSUME NEW w \in Worker, NEW j \in Jobs, Finishes(w, j) PROVE StatusOK'
    BY <2>37, <1>1, RemediationAssumption
       DEF Finishes, Idle, leading, Nobody, StatusOK, Statuses, Jobs, Actor, rows, filed, counts
  <2>38. ASSUME NEW w \in Worker, NEW j \in Jobs, FinishesDeploy(w, j) PROVE StatusOK'
    BY <2>38, <1>1, RemediationAssumption
       DEF FinishesDeploy, Idle, leading, Nobody, StatusOK, Statuses, Jobs, Actor, rows, filed, counts
  <2>39. ASSUME UNCHANGED remVars PROVE StatusOK'
    BY <2>39, <1>1, RemediationAssumption
       DEF remVars, StatusOK, Statuses, Jobs, Actor, rows, filed, counts
  <2>40. QED
    BY <1>0, <2>1, <2>2, <2>3, <2>4, <2>5, <2>6, <2>7, <2>8, <2>9, <2>10, <2>11, <2>12, <2>13, <2>14, <2>15, <2>16, <2>17, <2>18, <2>19, <2>20, <2>21, <2>22, <2>23, <2>24, <2>25, <2>26, <2>27, <2>28, <2>29, <2>30, <2>31, <2>32, <2>33, <2>34, <2>35, <2>36, <2>37, <2>38, <2>39
       DEF RemNext, Remediates, Continues

LEMMA RowsStep == TypeInv /\ [RemNext]_remVars => RowsOK'
<1> SUFFICES ASSUME TypeInv, [RemNext]_remVars PROVE RowsOK'
  OBVIOUS
<1>0. TypeInv /\ [RemNext]_remVars
  OBVIOUS
<1>1. /\ RowsOK /\ \A j \in 1..made : j \in Jobs
      /\ \A a \in Actor : busy[a].at \notin {"idle", "scan"} => busy[a].job \in 1..made
  BY NamedJobs DEF TypeInv
<1>2. QED
  <2>1. ASSUME NEW l \in Leader, Elected(l) PROVE RowsOK'
    BY <2>1, <1>1, RemediationAssumption, PropagatedJobs
       DEF Elected, filed, RowsOK, Actor, rows, counts, leading
  <2>2. ASSUME NEW l \in Leader, Scans(l) PROVE RowsOK'
    BY <2>2, <1>1, RemediationAssumption, PropagatedJobs
       DEF Scans, Idle, filed, Nobody, RowsOK, Actor, rows, counts, leading
  <2>3. ASSUME NEW l \in Leader, NEW j \in Jobs, NEW d \in Jobs, Blocks(l, j, d) PROVE RowsOK'
    <3>1. "blocked" \in Cause /\ d \in 0..MaxJobs
      BY RemediationAssumption DEF Cause, Jobs
    <3>2. QED
      BY <2>3, <1>1, <3>1 DEF Blocks, RowsOK, counts, leading
  <2>4. ASSUME LosesLock PROVE RowsOK'
    BY <2>4, <1>1, RemediationAssumption, PropagatedJobs
       DEF LosesLock, Trouble, filed, RowsOK, Actor, rows, counts, leading
  <2>5. ASSUME NEW a \in Actor, Dies(a) PROVE RowsOK'
    BY <2>5, <1>1, RemediationAssumption, PropagatedJobs
       DEF Dies, Trouble, Idle, filed, Nobody, RowsOK, Actor, rows, counts, leading
  <2>6. ASSUME NEW a \in Leader \union Worker, Ends(a) PROVE RowsOK'
    BY <2>6, <1>1, RemediationAssumption, PropagatedJobs
       DEF Ends, Nobody, Idle, filed, RowsOK, Actor, rows, counts, leading
  <2>7. ASSUME NEW a \in Leader \union Worker, Counts(a) PROVE RowsOK'
    BY <2>7, <1>1, RemediationAssumption, PropagatedJobs
       DEF Counts, filed, RowsOK, Actor, rows, counts, leading
  <2>8. ASSUME NEW a \in Leader \union Worker, Requeues(a) PROVE RowsOK'
    BY <2>8, <1>1, RemediationAssumption, PropagatedJobs
       DEF Requeues, filed, RowsOK, Actor, rows, counts, leading
  <2>9. ASSUME NEW a \in Leader \union Worker, Depends(a) PROVE RowsOK'
    BY <2>9, <1>1, RemediationAssumption, PropagatedJobs
       DEF Depends, filed, RowsOK, Actor, rows, counts, leading
  <2>10. ASSUME NEW a \in Leader \union Worker, FilesDeployFix(a) PROVE RowsOK'
    BY <2>10, <1>1, RemediationAssumption, PropagatedJobs
       DEF FilesDeployFix, RowsOK, Actor, rows, counts, leading
  <2>11. ASSUME NEW a \in Leader \union Worker, FilesHeadsFix(a) PROVE RowsOK'
    BY <2>11, <1>1, RemediationAssumption, PropagatedJobs
       DEF FilesHeadsFix, RowsOK, Actor, rows, counts, leading
  <2>12. ASSUME NEW a \in Leader \union Worker, ConsultsLast(a) PROVE RowsOK'
    BY <2>12, <1>1, RemediationAssumption, PropagatedJobs
       DEF ConsultsLast, filed, RowsOK, Actor, rows, counts, leading
  <2>13. ASSUME NEW a \in Leader \union Worker, Escalates(a) PROVE RowsOK'
    BY <2>13, <1>1, RemediationAssumption, PropagatedJobs
       DEF Escalates, filed, RowsOK, Actor, rows, counts, leading
  <2>14. ASSUME NEW a \in Leader \union Worker, AdvisesRetry(a) PROVE RowsOK'
    BY <2>14, <1>1, RemediationAssumption, PropagatedJobs
       DEF AdvisesRetry, Advised, filed, RowsOK, Actor, rows, counts, leading
  <2>15. ASSUME NEW a \in Leader \union Worker, AdvisesFix(a) PROVE RowsOK'
    BY <2>15, <1>1, RemediationAssumption, PropagatedJobs
       DEF AdvisesFix, Advised, filed, RowsOK, Actor, rows, counts, leading
  <2>16. ASSUME NEW a \in Leader \union Worker, FindsConflict(a) PROVE RowsOK'
    BY <2>16, <1>1, RemediationAssumption, PropagatedJobs
       DEF FindsConflict, filed, RowsOK, Actor, rows, counts, leading
  <2>17. ASSUME NEW a \in Leader \union Worker, SplitsSaved(a) PROVE RowsOK'
    BY <2>17, <1>1, RemediationAssumption, PropagatedJobs
       DEF SplitsSaved, RowsOK, Actor, rows, counts, leading
  <2>18. ASSUME NEW a \in Leader \union Worker, RepointsSaved(a) PROVE RowsOK'
    BY <2>18, <1>1, RemediationAssumption, PropagatedJobs
       DEF RepointsSaved, filed, RowsOK, Actor, rows, counts, leading
  <2>19. ASSUME NEW a \in Leader \union Worker, SupersedesFailed(a) PROVE RowsOK'
    BY <2>19, <1>1, RemediationAssumption, PropagatedJobs
       DEF SupersedesFailed, RowsOK, Actor, rows, counts, leading
  <2>20. ASSUME NEW a \in Leader \union Worker, NEW n \in 1..2, NEW E \in SUBSET (IF n = 2 THEN {<<made + 2, made + 1>>} ELSE {}), FilesBatch(a, n, E) PROVE RowsOK'
    BY <2>20, <1>1, RemediationAssumption, PropagatedJobs
       DEF FilesBatch, Room, Of, RowsOK, Actor, rows, counts, leading
  <2>21. ASSUME NEW a \in Leader \union Worker, NEW j \in Jobs, RemediatesTransient(a, j) PROVE RowsOK'
    BY <2>21, <1>1, RemediationAssumption, PropagatedJobs
       DEF RemediatesTransient, Picked, Counted, Exhausted, filed, RowsOK, Actor, rows, counts, leading
  <2>22. ASSUME NEW a \in Leader \union Worker, NEW j \in Jobs, RemediatesMerge(a, j) PROVE RowsOK'
    BY <2>22, <1>1, RemediationAssumption, PropagatedJobs
       DEF RemediatesMerge, Picked, Counted, Exhausted, filed, RowsOK, Actor, rows, counts, leading
  <2>23. ASSUME NEW a \in Leader \union Worker, NEW j \in Jobs, RemediatesEnvironment(a, j) PROVE RowsOK'
    BY <2>23, <1>1, RemediationAssumption, PropagatedJobs
       DEF RemediatesEnvironment, Picked, Counted, Exhausted, filed, RowsOK, Actor, rows, counts, leading
  <2>24. ASSUME NEW a \in Leader \union Worker, NEW j \in Jobs, RemediatesBlocked(a, j) PROVE RowsOK'
    BY <2>24, <1>1, RemediationAssumption, PropagatedJobs
       DEF RemediatesBlocked, Picked, StillBlocked, filed, Counted, Exhausted, RowsOK, Actor, rows, counts, leading
  <2>25. ASSUME NEW a \in Leader \union Worker, NEW j \in Jobs, RemediatesGate(a, j) PROVE RowsOK'
    BY <2>25, <1>1, RemediationAssumption, PropagatedJobs
       DEF RemediatesGate, Picked, RowsOK, Actor, rows, counts, leading
  <2>26. ASSUME NEW a \in Leader \union Worker, NEW j \in Jobs, RemediatesDeploy(a, j) PROVE RowsOK'
    BY <2>26, <1>1, RemediationAssumption, PropagatedJobs
       DEF RemediatesDeploy, Picked, filed, RowsOK, Actor, rows, counts, leading
  <2>27. ASSUME NEW a \in Leader \union Worker, NEW j \in Jobs, RemediatesHeads(a, j) PROVE RowsOK'
    BY <2>27, <1>1, RemediationAssumption, PropagatedJobs
       DEF RemediatesHeads, Picked, filed, RowsOK, Actor, rows, counts, leading
  <2>28. ASSUME NEW a \in Leader \union Worker, NEW j \in Jobs, Consults(a, j) PROVE RowsOK'
    BY <2>28, <1>1, RemediationAssumption, PropagatedJobs
       DEF Consults, Picked, filed, RowsOK, Actor, rows, counts, leading
  <2>29. ASSUME NEW p \in Person, FixesForward(p) PROVE RowsOK'
    BY <2>29, <1>1, RemediationAssumption, PropagatedJobs
       DEF FixesForward, RowsOK, Actor, rows, counts, leading
  <2>30. ASSUME NEW p \in Person, Records(p) PROVE RowsOK'
    BY <2>30, <1>1, RemediationAssumption, PropagatedJobs
       DEF Records, Idle, Nobody, RowsOK, Actor, rows, counts, leading
  <2>31. ASSUME NEW p \in Person, NEW j \in Jobs, Checks(p, j) PROVE RowsOK'
    BY <2>31, <1>1, RemediationAssumption, PropagatedJobs
       DEF Checks, Idle, Trouble, Nobody, RowsOK, Actor, rows, counts, leading
  <2>32. ASSUME NEW j \in Jobs, Retries(j) PROVE RowsOK'
    BY <2>32, <1>1, RemediationAssumption, PropagatedJobs
       DEF Retries, Trouble, filed, RowsOK, Actor, rows, counts, leading
  <2>33. ASSUME NEW j \in Jobs, Cancels(j) PROVE RowsOK'
    BY <2>33, <1>1, RemediationAssumption, PropagatedJobs
       DEF Cancels, Trouble, Live, RowsOK, Actor, rows, counts, leading
  <2>34. ASSUME NEW j \in Jobs, Resolves(j) PROVE RowsOK'
    BY <2>34, <1>1, RemediationAssumption, PropagatedJobs
       DEF Resolves, Trouble, filed, RowsOK, Actor, rows, counts, leading
  <2>35. ASSUME NEW j \in Jobs, Claims(j) PROVE RowsOK'
    BY <2>35, <1>1, RemediationAssumption, PropagatedJobs
       DEF Claims, filed, RowsOK, Actor, rows, counts, leading
  <2>36. ASSUME NEW j \in Jobs, NEW c \in Causes, Fails(j, c) PROVE RowsOK'
    BY <2>36, <1>1, RemediationAssumption, PropagatedJobs
       DEF Fails, Trouble, RowsOK, Actor, rows, counts, leading
  <2>37. ASSUME NEW w \in Worker, NEW j \in Jobs, Finishes(w, j) PROVE RowsOK'
    BY <2>37, <1>1, RemediationAssumption, PropagatedJobs
       DEF Finishes, Idle, Nobody, RowsOK, Actor, rows, counts, leading
  <2>38. ASSUME NEW w \in Worker, NEW j \in Jobs, FinishesDeploy(w, j) PROVE RowsOK'
    BY <2>38, <1>1, RemediationAssumption, PropagatedJobs
       DEF FinishesDeploy, Idle, Trouble, Nobody, RowsOK, Actor, rows, counts, leading
  <2>39. ASSUME UNCHANGED remVars PROVE RowsOK'
    BY <2>39, <1>1, RemediationAssumption, PropagatedJobs
       DEF remVars, RowsOK, Actor, rows, counts, leading
  <2>40. QED
    BY <1>0, <2>1, <2>2, <2>3, <2>4, <2>5, <2>6, <2>7, <2>8, <2>9, <2>10, <2>11, <2>12, <2>13, <2>14, <2>15, <2>16, <2>17, <2>18, <2>19, <2>20, <2>21, <2>22, <2>23, <2>24, <2>25, <2>26, <2>27, <2>28, <2>29, <2>30, <2>31, <2>32, <2>33, <2>34, <2>35, <2>36, <2>37, <2>38, <2>39
       DEF RemNext, Remediates, Continues

LEMMA ActiveSet ==
    ASSUME active \in [Jobs -> 0..MaxJobs], NEW r, NEW v \in 0..MaxJobs
    PROVE  [active EXCEPT ![r] = v] \in [Jobs -> 0..MaxJobs]
  OBVIOUS

\* A job filed for one that exists.
LEMMA BirthFiled ==
    ASSUME FiledOK, NEW kind \in Kinds, kind # "plain", NEW j \in 1..made, NEW root, NEW depth \in Nat,
           Births(kind, j, root, depth), root \in 0..MaxJobs \/ root = made + 1, active' \in [Jobs -> 0..MaxJobs]
    PROVE  FiledOK'
<1>0. made \in Nat /\ made + 1 \in 1..MaxJobs /\ made' = made + 1 /\ j \in 1..MaxJobs
  BY RemediationAssumption DEF FiledOK, Births, Room
<1> DEFINE new == Of(kind, j, root, depth)
<1>1. new \in Links /\ new.kind = kind /\ new.of = j
  BY <1>0, RemediationAssumption DEF Of, Links
<1>2. link' = [link EXCEPT ![made + 1] = new]
  BY DEF Births
<1> HIDE DEF new
<1>3. link' \in [Jobs -> Links]
  BY <1>1, <1>2 DEF FiledOK
<1>4. \A f \in Jobs : link'[f] = IF f = made + 1 THEN new ELSE link[f]
  BY <1>2 DEF FiledOK
<1>5. QED
  BY <1>0, <1>1, <1>3, <1>4 DEF FiledOK, Jobs

\* A batch filed by the analyst.
LEMMA BatchFiled ==
    ASSUME TypeInv, NEW a \in Leader \union Worker, NEW n \in 1..2, NEW E, FilesBatch(a, n, E)
    PROVE  FiledOK' /\ made' = made + n /\ busy[a].job \in 1..made
           /\ \A f \in Jobs : link'[f] = IF f \in made + 1..made + n
                                        THEN Of("ai", busy[a].job, link[busy[a].job].root, link[busy[a].job].depth + 1)
                                        ELSE link[f]
<1> DEFINE j == busy[a].job
           new == Of("ai", j, link[j].root, link[j].depth + 1)
<1>0. /\ FiledOK /\ made \in Nat /\ made' = made + n /\ made + n <= MaxJobs
      /\ j \in 1..made /\ j \in Jobs
  BY NamedJobs DEF TypeInv, FilesBatch, Room, Actor
<1>1. link[j] \in Links
  BY <1>0 DEF FiledOK
<1>2. new \in Links /\ new.kind = "ai" /\ new.of = j
  BY <1>0, <1>1 DEF Of, Links, Kinds, Jobs
<1>3. link' = [f \in Jobs |-> IF f \in made + 1..made + n THEN new ELSE link[f]]
  BY DEF FilesBatch
<1>4. active' \in [Jobs -> 0..MaxJobs]
  <2>1. made + n \in 0..MaxJobs /\ active \in [Jobs -> 0..MaxJobs]
    BY <1>0, RemediationAssumption DEF FiledOK
  <2>2. active' = [active EXCEPT ![link[j].root] = made + n]
    BY DEF FilesBatch
  <2>3. QED
    BY <2>1, <2>2, ActiveSet
<1> HIDE DEF new, j
<1>5. link' \in [Jobs -> Links]
  BY <1>2, <1>3 DEF FiledOK, TypeInv
<1>6. \A f \in Jobs : link'[f] = IF f \in made + 1..made + n THEN new ELSE link[f]
  BY <1>3
<1>7. FiledOK'
  <2>1. \A f \in Jobs : f \in made + 1..made + n => link'[f].kind = "ai" /\ link'[f].of = j /\ j < f /\ f <= made'
    BY <1>0, <1>2, <1>6 DEF Jobs
  <2>2. \A f \in Jobs : f \notin made + 1..made + n => link'[f] = link[f]
    BY <1>6
  <2>3. \A x \in 1..made : x \in 1..made'
    BY <1>0
  <2>4. made' \in 0..MaxJobs /\ made' >= made
    BY <1>0, RemediationAssumption
  <2>5. \A f \in Jobs : link'[f].kind # "plain" => f <= made' /\ link'[f].of \in 1..made' /\ link'[f].of < f
    BY <1>0, <2>1, <2>2, <2>3, <2>4 DEF FiledOK, Jobs
  <2>6. \A f \in Jobs : link'[f].kind = "plain" => link'[f].of = 0
    <3> TAKE f \in Jobs
    <3>1. CASE f \in made + 1..made + n
      BY <2>1, <3>1
    <3>2. CASE f \notin made + 1..made + n
      BY <1>0, <2>2, <3>2 DEF FiledOK
    <3>3. QED
      BY <3>1, <3>2
  <2>7. QED
    BY <1>4, <1>5, <2>4, <2>5, <2>6 DEF FiledOK
<1>8. QED
  BY <1>0, <1>6, <1>7 DEF new, j

LEMMA FiledStep == TypeInv /\ [RemNext]_remVars => FiledOK'
<1> SUFFICES ASSUME TypeInv, [RemNext]_remVars PROVE FiledOK'
  OBVIOUS
<1>0. TypeInv /\ [RemNext]_remVars
  OBVIOUS
<1>1. /\ FiledOK /\ made \in Nat /\ made <= MaxJobs /\ \A j \in 1..made : j \in Jobs
      /\ \A a \in Actor : busy[a].at \notin {"idle", "scan"} => busy[a].job \in 1..made
      /\ \A a \in Actor : busy[a].at \in Linking => busy[a].fix \in 1..made
      /\ \A a \in Actor, j \in Jobs : busy[a].seen[j] # "none" => j \in 1..made
  BY NamedJobs DEF TypeInv
<1>2. QED
  <2>1. ASSUME NEW l \in Leader, Elected(l) PROVE FiledOK'
    BY <2>1, <1>1, RemediationAssumption
       DEF Elected, counts, FiledOK, Actor, filed, rows
  <2>2. ASSUME NEW l \in Leader, Scans(l) PROVE FiledOK'
    BY <2>2, <1>1, RemediationAssumption
       DEF Scans, Idle, counts, leading, Nobody, FiledOK, Actor, filed, rows
  <2>3. ASSUME NEW l \in Leader, NEW j \in Jobs, NEW d \in Jobs, Blocks(l, j, d) PROVE FiledOK'
    BY <2>3, <1>1, RemediationAssumption
       DEF Blocks, Nobody, Cleared, counts, leading, FiledOK, Actor, filed, rows
  <2>4. ASSUME LosesLock PROVE FiledOK'
    BY <2>4, <1>1, RemediationAssumption
       DEF LosesLock, counts, FiledOK, Actor, filed, rows
  <2>5. ASSUME NEW a \in Actor, Dies(a) PROVE FiledOK'
    BY <2>5, <1>1, RemediationAssumption
       DEF Dies, Idle, counts, Nobody, FiledOK, Actor, filed, rows
  <2>6. ASSUME NEW a \in Leader \union Worker, Ends(a) PROVE FiledOK'
    BY <2>6, <1>1, RemediationAssumption
       DEF Ends, Nobody, Idle, counts, leading, FiledOK, Actor, filed, rows
  <2>7. ASSUME NEW a \in Leader \union Worker, Counts(a) PROVE FiledOK'
    BY <2>7, <1>1, RemediationAssumption
       DEF Counts, leading, FiledOK, Actor, filed, rows
  <2>8. ASSUME NEW a \in Leader \union Worker, Requeues(a) PROVE FiledOK'
    BY <2>8, <1>1, RemediationAssumption
       DEF Requeues, counts, leading, FiledOK, Actor, filed, rows
  <2>9. ASSUME NEW a \in Leader \union Worker, Depends(a) PROVE FiledOK'
    BY <2>9, <1>1, RemediationAssumption
       DEF Depends, counts, leading, FiledOK, Actor, filed, rows
  <2>10. ASSUME NEW a \in Leader \union Worker, FilesDeployFix(a) PROVE FiledOK'
    <3>1. busy[a].job \in 1..made /\ active' \in [Jobs -> 0..MaxJobs]
      BY <2>10, <1>1 DEF FilesDeployFix, FiledOK, Actor
    <3>2. QED
      BY <2>10, <1>1, <3>1, BirthFiled DEF FilesDeployFix, Kinds, Fixed
  <2>11. ASSUME NEW a \in Leader \union Worker, FilesHeadsFix(a) PROVE FiledOK'
    <3>1. busy[a].job \in 1..made /\ active' \in [Jobs -> 0..MaxJobs]
      BY <2>11, <1>1 DEF FilesHeadsFix, FiledOK, Actor
    <3>2. QED
      BY <2>11, <1>1, <3>1, BirthFiled DEF FilesHeadsFix, Kinds, Fixed
  <2>12. ASSUME NEW a \in Leader \union Worker, ConsultsLast(a) PROVE FiledOK'
    BY <2>12, <1>1, RemediationAssumption
       DEF ConsultsLast, counts, leading, FiledOK, Actor, filed, rows
  <2>13. ASSUME NEW a \in Leader \union Worker, Escalates(a) PROVE FiledOK'
    BY <2>13, <1>1, RemediationAssumption
       DEF Escalates, leading, FiledOK, Actor, filed, rows
  <2>14. ASSUME NEW a \in Leader \union Worker, AdvisesRetry(a) PROVE FiledOK'
    BY <2>14, <1>1, RemediationAssumption
       DEF AdvisesRetry, Advised, leading, FiledOK, Actor, filed, rows
  <2>15. ASSUME NEW a \in Leader \union Worker, AdvisesFix(a) PROVE FiledOK'
    BY <2>15, <1>1, RemediationAssumption
       DEF AdvisesFix, Advised, leading, FiledOK, Actor, filed, rows
  <2>16. ASSUME NEW a \in Leader \union Worker, FindsConflict(a) PROVE FiledOK'
    BY <2>16, <1>1, RemediationAssumption
       DEF FindsConflict, counts, leading, FiledOK, Actor, filed, rows
  <2>17. ASSUME NEW a \in Leader \union Worker, SplitsSaved(a) PROVE FiledOK'
    <3>1. busy[a].job \in 1..made /\ active' \in [Jobs -> 0..MaxJobs]
      BY <2>17, <1>1 DEF SplitsSaved, FiledOK, Actor
    <3>2. QED
      BY <2>17, <1>1, <3>1, BirthFiled DEF SplitsSaved, Kinds, Fixed
  <2>18. ASSUME NEW a \in Leader \union Worker, RepointsSaved(a) PROVE FiledOK'
    BY <2>18, <1>1, RemediationAssumption
       DEF RepointsSaved, counts, leading, FiledOK, Actor, filed, rows
  <2>19. ASSUME NEW a \in Leader \union Worker, SupersedesFailed(a) PROVE FiledOK'
    BY <2>19, <1>1, RemediationAssumption
       DEF SupersedesFailed, Cleared, counts, leading, FiledOK, Actor, filed, rows
  <2>20. ASSUME NEW a \in Leader \union Worker, NEW n \in 1..2, NEW E \in SUBSET (IF n = 2 THEN {<<made + 2, made + 1>>} ELSE {}), FilesBatch(a, n, E) PROVE FiledOK'
    BY <2>20, <1>0, BatchFiled
  <2>21. ASSUME NEW a \in Leader \union Worker, NEW j \in Jobs, RemediatesTransient(a, j) PROVE FiledOK'
    BY <2>21, <1>1, RemediationAssumption
       DEF RemediatesTransient, Picked, Counted, Exhausted, counts, leading, FiledOK, Actor, filed, rows
  <2>22. ASSUME NEW a \in Leader \union Worker, NEW j \in Jobs, RemediatesMerge(a, j) PROVE FiledOK'
    BY <2>22, <1>1, RemediationAssumption
       DEF RemediatesMerge, Picked, Counted, Exhausted, counts, leading, FiledOK, Actor, filed, rows
  <2>23. ASSUME NEW a \in Leader \union Worker, NEW j \in Jobs, RemediatesEnvironment(a, j) PROVE FiledOK'
    BY <2>23, <1>1, RemediationAssumption
       DEF RemediatesEnvironment, Picked, Counted, Exhausted, counts, leading, FiledOK, Actor, filed, rows
  <2>24. ASSUME NEW a \in Leader \union Worker, NEW j \in Jobs, RemediatesBlocked(a, j) PROVE FiledOK'
    BY <2>24, <1>1, RemediationAssumption
       DEF RemediatesBlocked, Picked, StillBlocked, counts, leading, Counted, Exhausted, FiledOK, Actor, filed, rows
  <2>25. ASSUME NEW a \in Leader \union Worker, NEW j \in Jobs, RemediatesGate(a, j) PROVE FiledOK'
    <3>1. j \in 1..made /\ active' \in [Jobs -> 0..MaxJobs]
      BY <2>25, <1>1 DEF RemediatesGate, Picked, FiledOK, Actor
    <3>2. CASE Births("gate", j, made + 1, 0)
      BY <1>1, <3>1, <3>2, BirthFiled DEF Kinds
    <3>3. CASE UNCHANGED <<made, link>>
      BY <1>1, <3>1, <3>3 DEF FiledOK
    <3>4. QED
      BY <2>25, <3>2, <3>3 DEF RemediatesGate
  <2>26. ASSUME NEW a \in Leader \union Worker, NEW j \in Jobs, RemediatesDeploy(a, j) PROVE FiledOK'
    BY <2>26, <1>1, RemediationAssumption
       DEF RemediatesDeploy, Picked, counts, leading, FiledOK, Actor, filed, rows
  <2>27. ASSUME NEW a \in Leader \union Worker, NEW j \in Jobs, RemediatesHeads(a, j) PROVE FiledOK'
    BY <2>27, <1>1, RemediationAssumption
       DEF RemediatesHeads, Picked, counts, leading, FiledOK, Actor, filed, rows
  <2>28. ASSUME NEW a \in Leader \union Worker, NEW j \in Jobs, Consults(a, j) PROVE FiledOK'
    BY <2>28, <1>1, RemediationAssumption
       DEF Consults, Picked, counts, leading, FiledOK, Actor, filed, rows
  <2>29. ASSUME NEW p \in Person, FixesForward(p) PROVE FiledOK'
    <3>1. busy[p].job \in 1..made /\ active' \in [Jobs -> 0..MaxJobs] /\ busy[p].job \in Jobs
      BY <2>29, <1>1 DEF FixesForward, FiledOK, Actor
    <3>2. link[busy[p].job].root \in 0..MaxJobs /\ link[busy[p].job].depth \in Nat
      BY <1>1, <3>1 DEF FiledOK, Links
    <3>3. QED
      BY <2>29, <1>1, <3>1, <3>2, BirthFiled, RemediationAssumption DEF FixesForward, Kinds, Jobs
  <2>30. ASSUME NEW p \in Person, Records(p) PROVE FiledOK'
    <3>1. busy[p].fix \in 0..MaxJobs
      BY <2>30, <1>1, RemediationAssumption DEF Records, Actor, Linking
    <3>2. active' \in [Jobs -> 0..MaxJobs]
      BY <2>30, <1>1, <3>1, ActiveSet DEF Records, FiledOK
    <3>3. QED
      BY <2>30, <1>1, <3>2 DEF Records, FiledOK
  <2>31. ASSUME NEW p \in Person, NEW j \in Jobs, Checks(p, j) PROVE FiledOK'
    <3>1. active' \in [Jobs -> 0..MaxJobs]
      BY <2>31, <1>1, ActiveSet, RemediationAssumption DEF Checks, FiledOK
    <3>2. QED
      BY <2>31, <1>1, <3>1 DEF Checks, FiledOK
  <2>32. ASSUME NEW j \in Jobs, Retries(j) PROVE FiledOK'
    BY <2>32, <1>1, RemediationAssumption
       DEF Retries, counts, leading, FiledOK, Actor, filed, rows
  <2>33. ASSUME NEW j \in Jobs, Cancels(j) PROVE FiledOK'
    BY <2>33, <1>1, RemediationAssumption
       DEF Cancels, Live, Cleared, counts, leading, FiledOK, Actor, filed, rows
  <2>34. ASSUME NEW j \in Jobs, Resolves(j) PROVE FiledOK'
    BY <2>34, <1>1, RemediationAssumption
       DEF Resolves, counts, leading, FiledOK, Actor, filed, rows
  <2>35. ASSUME NEW j \in Jobs, Claims(j) PROVE FiledOK'
    BY <2>35, <1>1, RemediationAssumption
       DEF Claims, counts, leading, FiledOK, Actor, filed, rows
  <2>36. ASSUME NEW j \in Jobs, NEW c \in Causes, Fails(j, c) PROVE FiledOK'
    BY <2>36, <1>1, RemediationAssumption
       DEF Fails, Cleared, counts, leading, FiledOK, Actor, filed, rows
  <2>37. ASSUME NEW w \in Worker, NEW j \in Jobs, Finishes(w, j) PROVE FiledOK'
    BY <2>37, <1>1, RemediationAssumption
       DEF Finishes, Idle, Cleared, counts, leading, Nobody, FiledOK, Actor, filed, rows
  <2>38. ASSUME NEW w \in Worker, NEW j \in Jobs, FinishesDeploy(w, j) PROVE FiledOK'
    BY <2>38, <1>1, RemediationAssumption
       DEF FinishesDeploy, Idle, Cleared, counts, leading, Nobody, FiledOK, Actor, filed, rows
  <2>39. ASSUME UNCHANGED remVars PROVE FiledOK'
    BY <2>39, <1>1, RemediationAssumption
       DEF remVars, FiledOK, Actor, filed, rows
  <2>40. QED
    BY <1>0, <2>1, <2>2, <2>3, <2>4, <2>5, <2>6, <2>7, <2>8, <2>9, <2>10, <2>11, <2>12, <2>13, <2>14, <2>15, <2>16, <2>17, <2>18, <2>19, <2>20, <2>21, <2>22, <2>23, <2>24, <2>25, <2>26, <2>27, <2>28, <2>29, <2>30, <2>31, <2>32, <2>33, <2>34, <2>35, <2>36, <2>37, <2>38, <2>39
       DEF RemNext, Remediates, Continues

LEMMA BusyStep == TypeInv /\ [RemNext]_remVars => BusyOK'
<1> SUFFICES ASSUME TypeInv, [RemNext]_remVars PROVE BusyOK'
  OBVIOUS
<1>0. TypeInv /\ [RemNext]_remVars
  OBVIOUS
<1>1. /\ BusyOK /\ FiledOK /\ made \in Nat /\ made <= MaxJobs /\ \A j \in 1..made : j \in Jobs /\ j \in 0..MaxJobs
      /\ \A a \in Actor : busy[a].at \notin {"idle", "scan"} => busy[a].job \in 1..made
      /\ \A a \in Actor : busy[a].at \in Linking => busy[a].fix \in 1..made
      /\ \A a \in Actor, j \in Jobs : busy[a].seen[j] # "none" => j \in 1..made
      /\ made \in made..MaxJobs /\ 0 \in 0..MaxJobs
  BY NamedJobs, RemediationAssumption DEF TypeInv, Jobs
<1>2. QED
  <2>1. ASSUME NEW l \in Leader, Elected(l) PROVE BusyOK'
    <3>1. made' = made /\ busy' = busy
      BY <2>1 DEF Elected, filed
    <3>2. QED
      BY <1>1, <3>1, StaysSound
  <2>2. ASSUME NEW l \in Leader, Scans(l) PROVE BusyOK'
    <3> DEFINE s == FailedJobs
           b == [at |-> "scan", job |-> busy[l].job, fix |-> busy[l].fix, seen |-> s]
    <3>1. made' = made /\ l \in Actor
      BY <2>2 DEF Scans, filed, Actor
    <3>2. Sound(busy[l], made, Sees(l))
      BY <1>1, <3>1 DEF BusyOK
    <3>3. busy' = [busy EXCEPT ![l] = b]
      BY <2>2, <1>1, <3>1, ScansAs DEF Scans
    <3>4. s \in Seen /\ \A k \in Jobs : s[k] # "none" => k <= made /\ s[k] \in Sees(l)
      BY <1>0, <1>1, RemediationAssumption DEF FailedJobs, Seen, Sees, TypeInv, StatusOK, RowsOK, Jobs
    <3> HIDE DEF s
    <3>5. Sound(b, made', Sees(l))
      BY <1>1, <3>1, <3>2, <3>4 DEF Sound, Ops, Linking
    <3>6. QED
      BY <1>1, <3>1, <3>3, <3>5, BecomesSound
  <2>3. ASSUME NEW l \in Leader, NEW j \in Jobs, NEW d \in Jobs, Blocks(l, j, d) PROVE BusyOK'
    <3>1. made' = made /\ busy' = busy
      BY <2>3 DEF Blocks, filed
    <3>2. QED
      BY <1>1, <3>1, StaysSound
  <2>4. ASSUME LosesLock PROVE BusyOK'
    <3>1. made' = made /\ busy' = busy
      BY <2>4 DEF LosesLock, filed
    <3>2. QED
      BY <1>1, <3>1, StaysSound
  <2>5. ASSUME NEW a \in Actor, Dies(a) PROVE BusyOK'
    <3>1. made' = made /\ busy' = [busy EXCEPT ![a] = Idle]
      BY <2>5 DEF Dies, filed
    <3>2. Sound(Idle, made', Sees(a))
      BY <1>1, <3>1, RemediationAssumption DEF Sound, Idle, Nobody, Ops, Seen, Linking
    <3>3. QED
      BY <1>1, <3>1, <3>2, BecomesSound DEF Actor
  <2>6. ASSUME NEW a \in Leader \union Worker, Ends(a) PROVE BusyOK'
    <3>1. made' = made /\ busy' = [busy EXCEPT ![a] = Idle]
      BY <2>6 DEF Ends, filed
    <3>2. Sound(Idle, made', Sees(a))
      BY <1>1, <3>1, RemediationAssumption DEF Sound, Idle, Nobody, Ops, Seen, Linking
    <3>3. QED
      BY <1>1, <3>1, <3>2, BecomesSound DEF Actor
  <2>7. ASSUME NEW a \in Leader \union Worker, Counts(a) PROVE BusyOK'
    <3>1. made' = made /\ busy' = [busy EXCEPT ![a].at = "requeue"] /\ busy[a].at \notin {"idle", "scan"}
      BY <2>7 DEF Counts, filed
    <3>2. QED
      BY <1>1, <3>1, MovesSound DEF Ops, Linking, Actor
  <2>8. ASSUME NEW a \in Leader \union Worker, Requeues(a) PROVE BusyOK'
    <3>1. made' = made /\ busy' = [busy EXCEPT ![a].at = "scan"] /\ busy[a].at \notin {"idle", "scan"}
      BY <2>8 DEF Requeues, Returns, filed
    <3>2. QED
      BY <1>1, <3>1, MovesSound DEF Ops, Linking, Actor
  <2>9. ASSUME NEW a \in Leader \union Worker, Depends(a) PROVE BusyOK'
    <3>1. made' = made /\ busy' = [busy EXCEPT ![a].at = "requeue"] /\ busy[a].at \notin {"idle", "scan"}
      BY <2>9 DEF Depends, filed
    <3>2. QED
      BY <1>1, <3>1, MovesSound DEF Ops, Linking, Actor
  <2>10. ASSUME NEW a \in Leader \union Worker, FilesDeployFix(a) PROVE BusyOK'
    <3>1. made' = made + 1 /\ made' \in 1..MaxJobs /\ busy[a].job \in 1..made
      BY <2>10, <1>1, RemediationAssumption DEF FilesDeployFix, Births, Room, Actor
    <3>2. Does(a, "depend", busy[a].job, made + 1)
      BY <2>10 DEF FilesDeployFix
    <3>3. QED
      BY <1>1, <3>1, <3>2, DoesSound DEF Ops, Linking, Actor
  <2>11. ASSUME NEW a \in Leader \union Worker, FilesHeadsFix(a) PROVE BusyOK'
    <3>1. made' = made + 1 /\ made' \in 1..MaxJobs /\ busy[a].job \in 1..made
      BY <2>11, <1>1, RemediationAssumption DEF FilesHeadsFix, Births, Room, Actor
    <3>2. Does(a, "depend", busy[a].job, made + 1)
      BY <2>11 DEF FilesHeadsFix
    <3>3. QED
      BY <1>1, <3>1, <3>2, DoesSound DEF Ops, Linking, Actor
  <2>12. ASSUME NEW a \in Leader \union Worker, ConsultsLast(a) PROVE BusyOK'
    <3>1. made' = made /\ busy' = [busy EXCEPT ![a].at = "asklast"] /\ busy[a].at \notin {"idle", "scan"}
      BY <2>12 DEF ConsultsLast, filed
    <3>2. QED
      BY <1>1, <3>1, MovesSound DEF Ops, Linking, Actor
  <2>13. ASSUME NEW a \in Leader \union Worker, Escalates(a) PROVE BusyOK'
    <3>1. made' = made /\ busy' = [busy EXCEPT ![a].at = "scan"] /\ busy[a].at \notin {"idle", "scan"}
      BY <2>13 DEF Escalates, Returns, filed
    <3>2. QED
      BY <1>1, <3>1, MovesSound DEF Ops, Linking, Actor
  <2>14. ASSUME NEW a \in Leader \union Worker, AdvisesRetry(a) PROVE BusyOK'
    <3>1. made' = made /\ busy' = [busy EXCEPT ![a].at = "count"] /\ busy[a].at \notin {"idle", "scan"}
      BY <2>14 DEF AdvisesRetry, Advised, filed
    <3>2. QED
      BY <1>1, <3>1, MovesSound DEF Ops, Linking, Actor
  <2>15. ASSUME NEW a \in Leader \union Worker, AdvisesFix(a) PROVE BusyOK'
    <3>1. made' = made /\ busy' = [busy EXCEPT ![a].at = "file"] /\ busy[a].at \notin {"idle", "scan"}
      BY <2>15 DEF AdvisesFix, Advised, filed
    <3>2. QED
      BY <1>1, <3>1, MovesSound DEF Ops, Linking, Actor
  <2>16. ASSUME NEW a \in Leader \union Worker, FindsConflict(a) PROVE BusyOK'
    <3>1. made' = made /\ busy' = [busy EXCEPT ![a].at = "scan"] /\ busy[a].at \notin {"idle", "scan"}
      BY <2>16 DEF FindsConflict, Returns, filed
    <3>2. QED
      BY <1>1, <3>1, MovesSound DEF Ops, Linking, Actor
  <2>17. ASSUME NEW a \in Leader \union Worker, SplitsSaved(a) PROVE BusyOK'
    <3> DEFINE b == [busy[a] EXCEPT !.at = "repoint", !.fix = made + 1]
    <3>1. made' = made + 1 /\ made' \in 1..MaxJobs /\ made' \in made..MaxJobs /\ a \in Actor /\ busy[a].at \notin {"idle", "scan"}
      BY <2>17, <1>1, RemediationAssumption DEF SplitsSaved, Births, Room, Actor
    <3>2. busy' = [busy EXCEPT ![a] = b]
      BY <2>17 DEF SplitsSaved
    <3>5. Sound(busy[a], made, Sees(a))
      BY <1>1, <3>1 DEF BusyOK
    <3>3. b = [at |-> "repoint", job |-> busy[a].job, fix |-> made + 1, seen |-> busy[a].seen]
      BY <3>5, FixAs DEF Sound, Record
    <3> HIDE DEF b
    <3>4. b.at = "repoint" /\ b.job = busy[a].job /\ b.fix = made + 1 /\ b.seen = busy[a].seen
      BY <3>3
    <3>6. Sound(b, made', Sees(a))
      BY <1>1, <3>1, <3>3, <3>4, <3>5 DEF Sound, Ops, Jobs
    <3>7. QED
      BY <1>1, <3>1, <3>2, <3>6, BecomesSound
  <2>18. ASSUME NEW a \in Leader \union Worker, RepointsSaved(a) PROVE BusyOK'
    <3>1. made' = made /\ busy' = [busy EXCEPT ![a].at = "supersede"] /\ busy[a].at \notin {"idle", "scan"}
      BY <2>18 DEF RepointsSaved, filed
    <3>2. QED
      BY <1>1, <3>1, MovesSound DEF Ops, Linking, Actor
  <2>19. ASSUME NEW a \in Leader \union Worker, SupersedesFailed(a) PROVE BusyOK'
    <3>1. made' = made /\ busy' = [busy EXCEPT ![a].at = "scan"] /\ busy[a].at \notin {"idle", "scan"}
      BY <2>19 DEF SupersedesFailed, Returns, filed
    <3>2. QED
      BY <1>1, <3>1, MovesSound DEF Ops, Linking, Actor
  <2>20. ASSUME NEW a \in Leader \union Worker, NEW n \in 1..2, NEW E \in SUBSET (IF n = 2 THEN {<<made + 2, made + 1>>} ELSE {}), FilesBatch(a, n, E) PROVE BusyOK'
    <3>1. made' = made + n /\ made' \in made..MaxJobs /\ busy' = [busy EXCEPT ![a].at = "requeue"] /\ busy[a].at = "file"
      BY <2>20, <1>1, RemediationAssumption DEF FilesBatch, Room
    <3>2. QED
      BY <1>1, <3>1, MovesSound DEF Ops, Linking, Actor
  <2>21. ASSUME NEW a \in Leader \union Worker, NEW j \in Jobs, RemediatesTransient(a, j) PROVE BusyOK'
    <3>1. j \in 1..made /\ made' = made
      BY <2>21, <1>1 DEF RemediatesTransient, Counted, Exhausted, Picked, Actor, filed, rows
    <3>2. PICK at \in {"count", "scan", "last"} : Does(a, at, j, 0)
      BY <2>21 DEF RemediatesTransient, Counted, Exhausted
    <3>3. QED
      BY <1>1, <3>1, <3>2, DoesSound DEF Ops, Linking, Actor
  <2>22. ASSUME NEW a \in Leader \union Worker, NEW j \in Jobs, RemediatesMerge(a, j) PROVE BusyOK'
    <3>1. j \in 1..made /\ made' = made
      BY <2>22, <1>1 DEF RemediatesMerge, Counted, Exhausted, Picked, Actor, filed, rows
    <3>2. PICK at \in {"count", "scan", "last"} : Does(a, at, j, 0)
      BY <2>22 DEF RemediatesMerge, Counted, Exhausted
    <3>3. QED
      BY <1>1, <3>1, <3>2, DoesSound DEF Ops, Linking, Actor
  <2>23. ASSUME NEW a \in Leader \union Worker, NEW j \in Jobs, RemediatesEnvironment(a, j) PROVE BusyOK'
    <3>1. j \in 1..made /\ made' = made
      BY <2>23, <1>1 DEF RemediatesEnvironment, Counted, Exhausted, Picked, Actor, filed, rows
    <3>2. PICK at \in {"count", "scan", "last"} : Does(a, at, j, 0)
      BY <2>23 DEF RemediatesEnvironment, Counted, Exhausted
    <3>3. QED
      BY <1>1, <3>1, <3>2, DoesSound DEF Ops, Linking, Actor
  <2>24. ASSUME NEW a \in Leader \union Worker, NEW j \in Jobs, RemediatesBlocked(a, j) PROVE BusyOK'
    <3>1. j \in 1..made /\ made' = made
      BY <2>24, <1>1 DEF RemediatesBlocked, Counted, Exhausted, Picked, Actor, filed, rows
    <3>2. PICK at \in {"count", "scan", "last"} : Does(a, at, j, 0)
      BY <2>24 DEF RemediatesBlocked, Counted, Exhausted
    <3>3. QED
      BY <1>1, <3>1, <3>2, DoesSound DEF Ops, Linking, Actor
  <2>25. ASSUME NEW a \in Leader \union Worker, NEW j \in Jobs, RemediatesGate(a, j) PROVE BusyOK'
    <3>1. j \in 1..made
      BY <2>25, <1>1 DEF RemediatesGate, Picked, Actor
    <3>2. CASE made' = made /\ \E at \in {"scan", "count"} : Does(a, at, j, 0)
      BY <1>1, <3>1, <3>2, DoesSound DEF Ops, Linking, Actor
    <3>3. CASE Births("gate", j, made + 1, 0) /\ Does(a, "depend", j, made + 1)
      <4>1. made' = made + 1 /\ made' \in 1..MaxJobs
        BY <3>3, <1>1, RemediationAssumption DEF Births, Room
      <4>2. QED
        BY <1>1, <3>1, <3>3, <4>1, DoesSound DEF Ops, Linking, Actor
    <3>4. QED
      BY <2>25, <3>2, <3>3 DEF RemediatesGate
  <2>26. ASSUME NEW a \in Leader \union Worker, NEW j \in Jobs, RemediatesDeploy(a, j) PROVE BusyOK'
    <3>1. j \in 1..made /\ made' = made
      BY <2>26, <1>1 DEF RemediatesDeploy, Picked, Actor, filed, rows
    <3>2. PICK at \in {"deploy", "scan"} : Does(a, at, j, 0)
      BY <2>26 DEF RemediatesDeploy
    <3>3. QED
      BY <1>1, <3>1, <3>2, DoesSound DEF Ops, Linking, Actor
  <2>27. ASSUME NEW a \in Leader \union Worker, NEW j \in Jobs, RemediatesHeads(a, j) PROVE BusyOK'
    <3>1. j \in 1..made /\ made' = made
      BY <2>27, <1>1 DEF RemediatesHeads, Picked, Actor, filed, rows
    <3>2. PICK at \in {"alembic", "scan"} : Does(a, at, j, 0)
      BY <2>27 DEF RemediatesHeads
    <3>3. QED
      BY <1>1, <3>1, <3>2, DoesSound DEF Ops, Linking, Actor
  <2>28. ASSUME NEW a \in Leader \union Worker, NEW j \in Jobs, Consults(a, j) PROVE BusyOK'
    <3>1. j \in 1..made /\ made' = made
      BY <2>28, <1>1 DEF Consults, Picked, Actor, filed, rows
    <3>2. PICK at \in {"ask", "scan"} : Does(a, at, j, 0)
      BY <2>28 DEF Consults
    <3>3. QED
      BY <1>1, <3>1, <3>2, DoesSound DEF Ops, Linking, Actor
  <2>29. ASSUME NEW p \in Person, FixesForward(p) PROVE BusyOK'
    <3> DEFINE b == [busy[p] EXCEPT !.at = "record", !.fix = made + 1]
    <3>1. made' = made + 1 /\ made' \in 1..MaxJobs /\ made' \in made..MaxJobs /\ p \in Actor /\ busy[p].at \notin {"idle", "scan"}
      BY <2>29, <1>1, RemediationAssumption DEF FixesForward, Births, Room, Actor
    <3>2. busy' = [busy EXCEPT ![p] = b]
      BY <2>29 DEF FixesForward
    <3>5. Sound(busy[p], made, Sees(p))
      BY <1>1, <3>1 DEF BusyOK
    <3>3. b = [at |-> "record", job |-> busy[p].job, fix |-> made + 1, seen |-> busy[p].seen]
      BY <3>5, FixAs DEF Sound, Record
    <3> HIDE DEF b
    <3>4. b.at = "record" /\ b.job = busy[p].job /\ b.fix = made + 1 /\ b.seen = busy[p].seen
      BY <3>3
    <3>6. Sound(b, made', Sees(p))
      BY <1>1, <3>1, <3>3, <3>4, <3>5 DEF Sound, Ops, Jobs
    <3>7. QED
      BY <1>1, <3>1, <3>2, <3>6, BecomesSound
  <2>30. ASSUME NEW p \in Person, Records(p) PROVE BusyOK'
    <3>1. made' = made /\ busy' = [busy EXCEPT ![p] = Idle]
      BY <2>30 DEF Records, rows
    <3>2. Sound(Idle, made', Sees(p))
      BY <1>1, <3>1, RemediationAssumption DEF Sound, Idle, Nobody, Ops, Seen, Linking
    <3>3. QED
      BY <1>1, <3>1, <3>2, BecomesSound DEF Actor
  <2>31. ASSUME NEW p \in Person, NEW j \in Jobs, Checks(p, j) PROVE BusyOK'
    <3>1. made' = made /\ Does(p, "checked", j, 0) /\ j \in 1..made
      BY <2>31, <1>0, <1>1, RemediationAssumption DEF Checks, TypeInv, StatusOK, Jobs
    <3>2. QED
      BY <1>1, <3>1, DoesSound DEF Ops, Linking, Actor
  <2>32. ASSUME NEW j \in Jobs, Retries(j) PROVE BusyOK'
    <3>1. made' = made /\ busy' = busy
      BY <2>32 DEF Retries, filed
    <3>2. QED
      BY <1>1, <3>1, StaysSound
  <2>33. ASSUME NEW j \in Jobs, Cancels(j) PROVE BusyOK'
    <3>1. made' = made /\ busy' = busy
      BY <2>33 DEF Cancels, filed
    <3>2. QED
      BY <1>1, <3>1, StaysSound
  <2>34. ASSUME NEW j \in Jobs, Resolves(j) PROVE BusyOK'
    <3>1. made' = made /\ busy' = busy
      BY <2>34 DEF Resolves, filed
    <3>2. QED
      BY <1>1, <3>1, StaysSound
  <2>35. ASSUME NEW j \in Jobs, Claims(j) PROVE BusyOK'
    <3>1. made' = made /\ busy' = busy
      BY <2>35 DEF Claims, filed
    <3>2. QED
      BY <1>1, <3>1, StaysSound
  <2>36. ASSUME NEW j \in Jobs, NEW c \in Causes, Fails(j, c) PROVE BusyOK'
    <3>1. made' = made /\ busy' = busy
      BY <2>36 DEF Fails, filed
    <3>2. QED
      BY <1>1, <3>1, StaysSound
  <2>37. ASSUME NEW w \in Worker, NEW j \in Jobs, Finishes(w, j) PROVE BusyOK'
    <3> DEFINE s == [d \in Jobs |-> IF <<d, j>> \in waits /\ status[d] = "failed" /\ cause[d] = "blocked" THEN "blocked" ELSE "none"]
           b == [at |-> "scan", job |-> busy[w].job, fix |-> busy[w].fix, seen |-> s]
    <3>1. made' = made /\ w \in Actor
      BY <2>37 DEF Finishes, filed, Actor
    <3>2. Sound(busy[w], made, Sees(w))
      BY <1>1, <3>1 DEF BusyOK
    <3>3. busy' = [busy EXCEPT ![w] = b]
      BY <2>37, <1>1, <3>1, ScansAs DEF Finishes, Unblocks
    <3>4. s \in Seen /\ \A k \in Jobs : s[k] # "none" => k <= made /\ s[k] \in Sees(w)
      BY <1>0, <1>1, RemediationAssumption DEF Seen, Sees, Cause, TypeInv, StatusOK, Jobs
    <3> HIDE DEF s
    <3>5. Sound(b, made', Sees(w))
      BY <1>1, <3>1, <3>2, <3>4 DEF Sound, Ops, Linking
    <3>6. QED
      BY <1>1, <3>1, <3>3, <3>5, BecomesSound
  <2>38. ASSUME NEW w \in Worker, NEW j \in Jobs, FinishesDeploy(w, j) PROVE BusyOK'
    <3> DEFINE s == [d \in Jobs |-> IF <<d, j>> \in waits /\ status[d] = "failed" /\ cause[d] = "blocked" THEN "blocked" ELSE "none"]
           b == [at |-> "scan", job |-> busy[w].job, fix |-> busy[w].fix, seen |-> s]
    <3>1. made' = made /\ w \in Actor
      BY <2>38 DEF FinishesDeploy, filed, Actor
    <3>2. Sound(busy[w], made, Sees(w))
      BY <1>1, <3>1 DEF BusyOK
    <3>3. busy' = [busy EXCEPT ![w] = b]
      BY <2>38, <1>1, <3>1, ScansAs DEF FinishesDeploy, Unblocks
    <3>4. s \in Seen /\ \A k \in Jobs : s[k] # "none" => k <= made /\ s[k] \in Sees(w)
      BY <1>0, <1>1, RemediationAssumption DEF Seen, Sees, Cause, TypeInv, StatusOK, Jobs
    <3> HIDE DEF s
    <3>5. Sound(b, made', Sees(w))
      BY <1>1, <3>1, <3>2, <3>4 DEF Sound, Ops, Linking
    <3>6. QED
      BY <1>1, <3>1, <3>3, <3>5, BecomesSound
  <2>39. ASSUME UNCHANGED remVars PROVE BusyOK'
    BY <2>39, <1>1, StaysSound, MovesSound
       DEF remVars, filed
  <2>40. QED
    BY <1>0, <2>1, <2>2, <2>3, <2>4, <2>5, <2>6, <2>7, <2>8, <2>9, <2>10, <2>11, <2>12, <2>13, <2>14, <2>15, <2>16, <2>17, <2>18, <2>19, <2>20, <2>21, <2>22, <2>23, <2>24, <2>25, <2>26, <2>27, <2>28, <2>29, <2>30, <2>31, <2>32, <2>33, <2>34, <2>35, <2>36, <2>37, <2>38, <2>39
       DEF RemNext, Remediates, Continues

LEMMA WaitsStep == TypeInv /\ [RemNext]_remVars => waits' \subseteq Jobs \X Jobs
<1> SUFFICES ASSUME TypeInv, [RemNext]_remVars PROVE waits' \subseteq Jobs \X Jobs
  OBVIOUS
<1>0. TypeInv /\ [RemNext]_remVars
  OBVIOUS
<1>1. /\ waits \subseteq Jobs \X Jobs /\ made \in Nat /\ made <= MaxJobs /\ \A j \in 1..made : j \in Jobs
      /\ \A a \in Actor : busy[a].at \notin {"idle", "scan"} => busy[a].job \in 1..made
      /\ \A a \in Actor : busy[a].at \in Linking => busy[a].fix \in 1..made
  BY NamedJobs DEF TypeInv
<1>2. QED
  <2>1. ASSUME NEW l \in Leader, Elected(l) PROVE waits' \subseteq Jobs \X Jobs
    BY <2>1, <1>1
       DEF Elected, rows, filed, counts, Actor
  <2>2. ASSUME NEW l \in Leader, Scans(l) PROVE waits' \subseteq Jobs \X Jobs
    BY <2>2, <1>1
       DEF Scans, Idle, rows, filed, counts, leading, Nobody, Actor
  <2>3. ASSUME NEW l \in Leader, NEW j \in Jobs, NEW d \in Jobs, Blocks(l, j, d) PROVE waits' \subseteq Jobs \X Jobs
    BY <2>3, <1>1
       DEF Blocks, Nobody, counts, leading, Actor
  <2>4. ASSUME LosesLock PROVE waits' \subseteq Jobs \X Jobs
    BY <2>4, <1>1
       DEF LosesLock, rows, filed, counts, Actor
  <2>5. ASSUME NEW a \in Actor, Dies(a) PROVE waits' \subseteq Jobs \X Jobs
    BY <2>5, <1>1
       DEF Dies, Idle, rows, filed, counts, Nobody, Actor
  <2>6. ASSUME NEW a \in Leader \union Worker, Ends(a) PROVE waits' \subseteq Jobs \X Jobs
    BY <2>6, <1>1
       DEF Ends, Nobody, Idle, rows, filed, counts, leading, Actor
  <2>7. ASSUME NEW a \in Leader \union Worker, Counts(a) PROVE waits' \subseteq Jobs \X Jobs
    BY <2>7, <1>1
       DEF Counts, rows, filed, leading, Actor
  <2>8. ASSUME NEW a \in Leader \union Worker, Requeues(a) PROVE waits' \subseteq Jobs \X Jobs
    BY <2>8, <1>1
       DEF Requeues, filed, counts, leading, Actor
  <2>9. ASSUME NEW a \in Leader \union Worker, Depends(a) PROVE waits' \subseteq Jobs \X Jobs
    BY <2>9, <1>1 DEF Depends, Linking, Actor
  <2>10. ASSUME NEW a \in Leader \union Worker, FilesDeployFix(a) PROVE waits' \subseteq Jobs \X Jobs
    BY <2>10, <1>1
       DEF FilesDeployFix, counts, leading, Actor
  <2>11. ASSUME NEW a \in Leader \union Worker, FilesHeadsFix(a) PROVE waits' \subseteq Jobs \X Jobs
    BY <2>11, <1>1
       DEF FilesHeadsFix, counts, leading, Actor
  <2>12. ASSUME NEW a \in Leader \union Worker, ConsultsLast(a) PROVE waits' \subseteq Jobs \X Jobs
    BY <2>12, <1>1
       DEF ConsultsLast, rows, filed, counts, leading, Actor
  <2>13. ASSUME NEW a \in Leader \union Worker, Escalates(a) PROVE waits' \subseteq Jobs \X Jobs
    BY <2>13, <1>1
       DEF Escalates, rows, filed, leading, Actor
  <2>14. ASSUME NEW a \in Leader \union Worker, AdvisesRetry(a) PROVE waits' \subseteq Jobs \X Jobs
    BY <2>14, <1>1
       DEF AdvisesRetry, Advised, rows, filed, leading, Actor
  <2>15. ASSUME NEW a \in Leader \union Worker, AdvisesFix(a) PROVE waits' \subseteq Jobs \X Jobs
    BY <2>15, <1>1
       DEF AdvisesFix, Advised, rows, filed, leading, Actor
  <2>16. ASSUME NEW a \in Leader \union Worker, FindsConflict(a) PROVE waits' \subseteq Jobs \X Jobs
    BY <2>16, <1>1
       DEF FindsConflict, rows, filed, counts, leading, Actor
  <2>17. ASSUME NEW a \in Leader \union Worker, SplitsSaved(a) PROVE waits' \subseteq Jobs \X Jobs
    BY <2>17, <1>1
       DEF SplitsSaved, counts, leading, Actor
  <2>18. ASSUME NEW a \in Leader \union Worker, RepointsSaved(a) PROVE waits' \subseteq Jobs \X Jobs
    BY <2>18, <1>1 DEF RepointsSaved, Linking, Actor
  <2>19. ASSUME NEW a \in Leader \union Worker, SupersedesFailed(a) PROVE waits' \subseteq Jobs \X Jobs
    BY <2>19, <1>1
       DEF SupersedesFailed, counts, leading, Actor
  <2>20. ASSUME NEW a \in Leader \union Worker, NEW n \in 1..2, NEW E \in SUBSET (IF n = 2 THEN {<<made + 2, made + 1>>} ELSE {}), FilesBatch(a, n, E) PROVE waits' \subseteq Jobs \X Jobs
    <3>0. made + n <= MaxJobs /\ busy[a].at = "file" /\ a \in Actor
      BY <2>20 DEF FilesBatch, Room, Actor
    <3>1. made + n \in Jobs /\ made + 1 \in Jobs /\ busy[a].job \in Jobs
      BY <1>1, <3>0, RemediationAssumption DEF Jobs
    <3>2. E \subseteq Jobs \X Jobs
      BY <3>1
    <3>3. QED
      BY <2>20, <1>1, <3>1, <3>2 DEF FilesBatch
  <2>21. ASSUME NEW a \in Leader \union Worker, NEW j \in Jobs, RemediatesTransient(a, j) PROVE waits' \subseteq Jobs \X Jobs
    BY <2>21, <1>1
       DEF RemediatesTransient, Picked, Counted, Exhausted, rows, filed, counts, leading, Actor
  <2>22. ASSUME NEW a \in Leader \union Worker, NEW j \in Jobs, RemediatesMerge(a, j) PROVE waits' \subseteq Jobs \X Jobs
    BY <2>22, <1>1
       DEF RemediatesMerge, Picked, Counted, Exhausted, rows, filed, counts, leading, Actor
  <2>23. ASSUME NEW a \in Leader \union Worker, NEW j \in Jobs, RemediatesEnvironment(a, j) PROVE waits' \subseteq Jobs \X Jobs
    BY <2>23, <1>1
       DEF RemediatesEnvironment, Picked, Counted, Exhausted, rows, filed, counts, leading, Actor
  <2>24. ASSUME NEW a \in Leader \union Worker, NEW j \in Jobs, RemediatesBlocked(a, j) PROVE waits' \subseteq Jobs \X Jobs
    BY <2>24, <1>1
       DEF RemediatesBlocked, Picked, StillBlocked, rows, filed, counts, leading, Counted, Exhausted, Actor
  <2>25. ASSUME NEW a \in Leader \union Worker, NEW j \in Jobs, RemediatesGate(a, j) PROVE waits' \subseteq Jobs \X Jobs
    BY <2>25, <1>1
       DEF RemediatesGate, Picked, counts, leading, Actor
  <2>26. ASSUME NEW a \in Leader \union Worker, NEW j \in Jobs, RemediatesDeploy(a, j) PROVE waits' \subseteq Jobs \X Jobs
    BY <2>26, <1>1
       DEF RemediatesDeploy, Picked, rows, filed, counts, leading, Actor
  <2>27. ASSUME NEW a \in Leader \union Worker, NEW j \in Jobs, RemediatesHeads(a, j) PROVE waits' \subseteq Jobs \X Jobs
    BY <2>27, <1>1
       DEF RemediatesHeads, Picked, rows, filed, counts, leading, Actor
  <2>28. ASSUME NEW a \in Leader \union Worker, NEW j \in Jobs, Consults(a, j) PROVE waits' \subseteq Jobs \X Jobs
    BY <2>28, <1>1
       DEF Consults, Picked, rows, filed, counts, leading, Actor
  <2>29. ASSUME NEW p \in Person, FixesForward(p) PROVE waits' \subseteq Jobs \X Jobs
    BY <2>29, <1>1
       DEF FixesForward, counts, leading, Actor
  <2>30. ASSUME NEW p \in Person, Records(p) PROVE waits' \subseteq Jobs \X Jobs
    BY <2>30, <1>1
       DEF Records, Idle, rows, counts, leading, Nobody, Actor
  <2>31. ASSUME NEW p \in Person, NEW j \in Jobs, Checks(p, j) PROVE waits' \subseteq Jobs \X Jobs
    BY <2>31, <1>1
       DEF Checks, Idle, rows, counts, leading, Nobody, Actor
  <2>32. ASSUME NEW j \in Jobs, Retries(j) PROVE waits' \subseteq Jobs \X Jobs
    BY <2>32, <1>1
       DEF Retries, filed, counts, leading, Actor
  <2>33. ASSUME NEW j \in Jobs, Cancels(j) PROVE waits' \subseteq Jobs \X Jobs
    BY <2>33, <1>1
       DEF Cancels, Live, counts, leading, Actor
  <2>34. ASSUME NEW j \in Jobs, Resolves(j) PROVE waits' \subseteq Jobs \X Jobs
    BY <2>34, <1>1
       DEF Resolves, filed, counts, leading, Actor
  <2>35. ASSUME NEW j \in Jobs, Claims(j) PROVE waits' \subseteq Jobs \X Jobs
    BY <2>35, <1>1
       DEF Claims, filed, counts, leading, Actor
  <2>36. ASSUME NEW j \in Jobs, NEW c \in Causes, Fails(j, c) PROVE waits' \subseteq Jobs \X Jobs
    BY <2>36, <1>1
       DEF Fails, counts, leading, Actor
  <2>37. ASSUME NEW w \in Worker, NEW j \in Jobs, Finishes(w, j) PROVE waits' \subseteq Jobs \X Jobs
    BY <2>37, <1>1
       DEF Finishes, Idle, counts, leading, Nobody, Actor
  <2>38. ASSUME NEW w \in Worker, NEW j \in Jobs, FinishesDeploy(w, j) PROVE waits' \subseteq Jobs \X Jobs
    BY <2>38, <1>1
       DEF FinishesDeploy, Idle, counts, leading, Nobody, Actor
  <2>39. ASSUME UNCHANGED remVars PROVE waits' \subseteq Jobs \X Jobs
    BY <2>39, <1>1
       DEF remVars, Actor
  <2>40. QED
    BY <1>0, <2>1, <2>2, <2>3, <2>4, <2>5, <2>6, <2>7, <2>8, <2>9, <2>10, <2>11, <2>12, <2>13, <2>14, <2>15, <2>16, <2>17, <2>18, <2>19, <2>20, <2>21, <2>22, <2>23, <2>24, <2>25, <2>26, <2>27, <2>28, <2>29, <2>30, <2>31, <2>32, <2>33, <2>34, <2>35, <2>36, <2>37, <2>38, <2>39
       DEF RemNext, Remediates, Continues

LEMMA TypeStep == TypeInv /\ [RemNext]_remVars => TypeInv'
  BY StatusStep, RowsStep, FiledStep, BusyStep, WaitsStep DEF TypeInv

LEMMA TypesKept == RemSpec => []TypeInv
  BY TypeInit, TypeStep, PTL DEF RemSpec

\* Jobs, links, counters and operations have their types in every reachable state,
\* and whatever an actor has read or filed exists when it comes back to it.
THEOREM RemTypeCorrect == RemSpec => []RemTypeOK
  BY TypesKept, TypesFollow, PTL

-----------------------------------------------------------------------------
(* What an actor is at *)

Guarded == {"count", "file"} \union Fixed

\* How an actor comes to an operation that has been checked beforehand.
Enters(a) ==
    LET at == busy'[a].at
        j  == busy'[a].job
    IN  \/ at = busy[a].at /\ j = busy[a].job
        \/ at \notin Guarded
        \/ /\ j \in 1..made
           /\ \/ at = "count" /\ budget[j] < Cap
              \/ at = "file" /\ link[j].depth < MaxDepth
              \/ at \in Fixed /\ MayFix(j, at) /\ busy[a].seen[j] = at

\* A supervisor does nothing but what the leader does.
Leads(a) == busy'[a] = busy[a] \/ busy'[a] = Idle \/ busy[a].at # "idle" \/ a \notin Leader \/ a \in leads

LEMMA DoesThat ==
    ASSUME BusyOK, NEW a \in Actor, NEW at, NEW j, NEW f, Does(a, at, j, f)
    PROVE  busy'[a].at = at /\ busy'[a].job = j /\ \A c \in Actor \ {a} : busy'[c] = busy[c]
<1> DEFINE b == [at |-> at, job |-> j, fix |-> f, seen |-> [busy[a].seen EXCEPT ![j] = "none"]]
<1>1. busy' = [busy EXCEPT ![a] = b]
  BY DEF Does
<1>2. b.at = at /\ b.job = j
  OBVIOUS
<1> HIDE DEF b
<1>3. QED
  BY <1>1, <1>2 DEF BusyOK

LEMMA MovesThat ==
    ASSUME BusyOK, NEW a \in Actor, NEW at, busy' = [busy EXCEPT ![a].at = at]
    PROVE  busy'[a].at = at /\ busy'[a].job = busy[a].job /\ \A c \in Actor \ {a} : busy'[c] = busy[c]
<1> DEFINE b == [busy[a] EXCEPT !.at = at]
<1>1. busy[a] \in Record
  BY DEF BusyOK, Sound, Record
<1>2. b = [at |-> at, job |-> busy[a].job, fix |-> busy[a].fix, seen |-> busy[a].seen]
  BY <1>1 DEF Record
<1>3. busy' = [busy EXCEPT ![a] = b]
  BY DEF BusyOK
<1> HIDE DEF b
<1>4. b.at = at /\ b.job = busy[a].job
  BY <1>2
<1>5. QED
  BY <1>3, <1>4 DEF BusyOK

LEMMA ScansThat ==
    ASSUME BusyOK, NEW a \in Actor, NEW s, busy' = [busy EXCEPT ![a].at = "scan", ![a].seen = s]
    PROVE  busy'[a].at = "scan" /\ \A c \in Actor \ {a} : busy'[c] = busy[c]
<1> DEFINE b == [at |-> "scan", job |-> busy[a].job, fix |-> busy[a].fix, seen |-> s]
<1>1. busy' = [busy EXCEPT ![a] = b] /\ b.at = "scan"
  BY ScansAs
<1> HIDE DEF b
<1>2. QED
  BY <1>1 DEF BusyOK

LEMMA FilesThat ==
    ASSUME BusyOK, NEW a \in Actor, NEW at, NEW f, busy' = [busy EXCEPT ![a].at = at, ![a].fix = f]
    PROVE  busy'[a].at = at /\ \A c \in Actor \ {a} : busy'[c] = busy[c]
<1> DEFINE b == [busy[a] EXCEPT !.at = at, !.fix = f]
<1>1. busy[a] \in Record
  BY DEF BusyOK, Sound, Record
<1>2. b = [at |-> at, job |-> busy[a].job, fix |-> f, seen |-> busy[a].seen]
  BY <1>1, FixAs
<1>3. busy' = [busy EXCEPT ![a] = b]
  BY DEF BusyOK
<1> HIDE DEF b
<1>4. b.at = at
  BY <1>2
<1>5. QED
  BY <1>3, <1>4 DEF BusyOK

LEMMA HowEntered == TypeInv /\ [RemNext]_remVars => \A who \in Actor : Enters(who) /\ Leads(who)
<1> SUFFICES ASSUME TypeInv, [RemNext]_remVars PROVE \A who \in Actor : Enters(who) /\ Leads(who)
  OBVIOUS
<1>0. TypeInv /\ [RemNext]_remVars
  OBVIOUS
<1>1. /\ BusyOK
      /\ \A a \in Actor : busy[a].at \notin {"idle", "scan"} => busy[a].job \in 1..made
      /\ \A a \in Actor, j \in Jobs : busy[a].seen[j] # "none" => j \in 1..made
  BY NamedJobs DEF TypeInv
<1>2. QED
  <2>1. ASSUME NEW l \in Leader, Elected(l) PROVE \A who \in Actor : Enters(who) /\ Leads(who)
    BY <2>1, <1>1, DoesThat, MovesThat
       DEF Elected, rows, filed, counts, Enters, Leads, Guarded, Fixed, Actor
  <2>2. ASSUME NEW l \in Leader, Scans(l) PROVE \A who \in Actor : Enters(who) /\ Leads(who)
    <3>1. l \in Actor /\ busy' = [busy EXCEPT ![l].at = "scan", ![l].seen = FailedJobs] /\ l \in leads
      BY <2>2, RemediationAssumption DEF Scans, Actor, Idle
    <3>2. QED
      BY <1>1, <3>1, ScansThat DEF Enters, Leads, Guarded, Fixed
  <2>3. ASSUME NEW l \in Leader, NEW j \in Jobs, NEW d \in Jobs, Blocks(l, j, d) PROVE \A who \in Actor : Enters(who) /\ Leads(who)
    BY <2>3, <1>1, DoesThat, MovesThat
       DEF Blocks, Nobody, counts, leading, Enters, Leads, Guarded, Fixed, Actor
  <2>4. ASSUME LosesLock PROVE \A who \in Actor : Enters(who) /\ Leads(who)
    BY <2>4, <1>1, DoesThat, MovesThat
       DEF LosesLock, rows, filed, counts, Enters, Leads, Guarded, Fixed, Actor
  <2>5. ASSUME NEW a \in Actor, Dies(a) PROVE \A who \in Actor : Enters(who) /\ Leads(who)
    BY <2>5, <1>1, DoesThat, MovesThat
       DEF Dies, Idle, rows, filed, counts, Nobody, Enters, Leads, Guarded, Fixed, Actor
  <2>6. ASSUME NEW a \in Leader \union Worker, Ends(a) PROVE \A who \in Actor : Enters(who) /\ Leads(who)
    BY <2>6, <1>1, DoesThat, MovesThat
       DEF Ends, Nobody, Idle, rows, filed, counts, leading, Enters, Leads, Guarded, Fixed, Actor
  <2>7. ASSUME NEW a \in Leader \union Worker, Counts(a) PROVE \A who \in Actor : Enters(who) /\ Leads(who)
    BY <2>7, <1>1, DoesThat, MovesThat
       DEF Counts, rows, filed, leading, Enters, Leads, Guarded, Fixed, Actor
  <2>8. ASSUME NEW a \in Leader \union Worker, Requeues(a) PROVE \A who \in Actor : Enters(who) /\ Leads(who)
    BY <2>8, <1>1, DoesThat, MovesThat
       DEF Requeues, Returns, filed, counts, leading, Enters, Leads, Guarded, Fixed, Actor
  <2>9. ASSUME NEW a \in Leader \union Worker, Depends(a) PROVE \A who \in Actor : Enters(who) /\ Leads(who)
    BY <2>9, <1>1, DoesThat, MovesThat
       DEF Depends, rows, filed, counts, leading, Enters, Leads, Guarded, Fixed, Actor
  <2>10. ASSUME NEW a \in Leader \union Worker, FilesDeployFix(a) PROVE \A who \in Actor : Enters(who) /\ Leads(who)
    BY <2>10, <1>1, DoesThat, MovesThat
       DEF FilesDeployFix, counts, leading, Enters, Leads, Guarded, Fixed, Actor
  <2>11. ASSUME NEW a \in Leader \union Worker, FilesHeadsFix(a) PROVE \A who \in Actor : Enters(who) /\ Leads(who)
    BY <2>11, <1>1, DoesThat, MovesThat
       DEF FilesHeadsFix, counts, leading, Enters, Leads, Guarded, Fixed, Actor
  <2>12. ASSUME NEW a \in Leader \union Worker, ConsultsLast(a) PROVE \A who \in Actor : Enters(who) /\ Leads(who)
    BY <2>12, <1>1, DoesThat, MovesThat
       DEF ConsultsLast, rows, filed, counts, leading, Enters, Leads, Guarded, Fixed, Actor
  <2>13. ASSUME NEW a \in Leader \union Worker, Escalates(a) PROVE \A who \in Actor : Enters(who) /\ Leads(who)
    BY <2>13, <1>1, DoesThat, MovesThat
       DEF Escalates, Returns, rows, filed, leading, Enters, Leads, Guarded, Fixed, Actor
  <2>14. ASSUME NEW a \in Leader \union Worker, AdvisesRetry(a) PROVE \A who \in Actor : Enters(who) /\ Leads(who)
    BY <2>14, <1>1, DoesThat, MovesThat
       DEF AdvisesRetry, Advised, rows, filed, leading, Enters, Leads, Guarded, Fixed, Actor
  <2>15. ASSUME NEW a \in Leader \union Worker, AdvisesFix(a) PROVE \A who \in Actor : Enters(who) /\ Leads(who)
    BY <2>15, <1>1, DoesThat, MovesThat
       DEF AdvisesFix, Advised, rows, filed, leading, Enters, Leads, Guarded, Fixed, Actor
  <2>16. ASSUME NEW a \in Leader \union Worker, FindsConflict(a) PROVE \A who \in Actor : Enters(who) /\ Leads(who)
    BY <2>16, <1>1, DoesThat, MovesThat
       DEF FindsConflict, Returns, rows, filed, counts, leading, Enters, Leads, Guarded, Fixed, Actor
  <2>17. ASSUME NEW a \in Leader \union Worker, SplitsSaved(a) PROVE \A who \in Actor : Enters(who) /\ Leads(who)
    <3>1. a \in Actor /\ busy' = [busy EXCEPT ![a].at = "repoint", ![a].fix = made + 1] /\ busy[a].at = "last"
      BY <2>17, RemediationAssumption DEF SplitsSaved, Actor, Idle
    <3>2. busy'[a].at = "repoint" /\ \A c \in Actor \ {a} : busy'[c] = busy[c]
      BY <1>1, <3>1, FilesThat
    <3>3. QED
      BY <3>1, <3>2 DEF Enters, Leads, Guarded, Fixed
  <2>18. ASSUME NEW a \in Leader \union Worker, RepointsSaved(a) PROVE \A who \in Actor : Enters(who) /\ Leads(who)
    BY <2>18, <1>1, DoesThat, MovesThat
       DEF RepointsSaved, rows, filed, counts, leading, Enters, Leads, Guarded, Fixed, Actor
  <2>19. ASSUME NEW a \in Leader \union Worker, SupersedesFailed(a) PROVE \A who \in Actor : Enters(who) /\ Leads(who)
    BY <2>19, <1>1, DoesThat, MovesThat
       DEF SupersedesFailed, Returns, counts, leading, Enters, Leads, Guarded, Fixed, Actor
  <2>20. ASSUME NEW a \in Leader \union Worker, NEW n \in 1..2, NEW E \in SUBSET (IF n = 2 THEN {<<made + 2, made + 1>>} ELSE {}), FilesBatch(a, n, E) PROVE \A who \in Actor : Enters(who) /\ Leads(who)
    BY <2>20, <1>1, DoesThat, MovesThat
       DEF FilesBatch, Room, Of, counts, leading, Enters, Leads, Guarded, Fixed, Actor
  <2>21. ASSUME NEW a \in Leader \union Worker, NEW j \in Jobs, RemediatesTransient(a, j) PROVE \A who \in Actor : Enters(who) /\ Leads(who)
    BY <2>21, <1>1, DoesThat, MovesThat
       DEF RemediatesTransient, Picked, Counted, Exhausted, rows, filed, counts, leading, Enters, Leads, Guarded, Fixed, Actor
  <2>22. ASSUME NEW a \in Leader \union Worker, NEW j \in Jobs, RemediatesMerge(a, j) PROVE \A who \in Actor : Enters(who) /\ Leads(who)
    BY <2>22, <1>1, DoesThat, MovesThat
       DEF RemediatesMerge, Picked, Counted, Exhausted, rows, filed, counts, leading, Enters, Leads, Guarded, Fixed, Actor
  <2>23. ASSUME NEW a \in Leader \union Worker, NEW j \in Jobs, RemediatesEnvironment(a, j) PROVE \A who \in Actor : Enters(who) /\ Leads(who)
    BY <2>23, <1>1, DoesThat, MovesThat
       DEF RemediatesEnvironment, Picked, Counted, Exhausted, rows, filed, counts, leading, Enters, Leads, Guarded, Fixed, Actor
  <2>24. ASSUME NEW a \in Leader \union Worker, NEW j \in Jobs, RemediatesBlocked(a, j) PROVE \A who \in Actor : Enters(who) /\ Leads(who)
    BY <2>24, <1>1, DoesThat, MovesThat
       DEF RemediatesBlocked, Picked, StillBlocked, rows, filed, counts, leading, Counted, Exhausted, Enters, Leads, Guarded, Fixed, Actor
  <2>25. ASSUME NEW a \in Leader \union Worker, NEW j \in Jobs, RemediatesGate(a, j) PROVE \A who \in Actor : Enters(who) /\ Leads(who)
    <3>1. a \in Actor /\ busy[a].at = "scan"
      BY <2>25 DEF RemediatesGate, Picked, Actor
    <3>2. CASE Does(a, "scan", j, 0)
      BY <1>1, <3>1, <3>2, DoesThat DEF Enters, Leads, Guarded, Fixed
    <3>3. CASE budget[j] < GateCap /\ Does(a, "count", j, 0)
      <4>1. j \in 1..made
        BY <2>25, <1>1, <3>1 DEF RemediatesGate, Picked
      <4>2. budget[j] < Cap
        BY <1>0, <3>3, RemediationAssumption DEF TypeInv, RowsOK
      <4>3. QED
        BY <1>1, <3>1, <3>3, <4>1, <4>2, DoesThat DEF Enters, Leads, Guarded, Fixed
    <3>4. CASE Does(a, "depend", j, made + 1)
      BY <1>1, <3>1, <3>4, DoesThat DEF Enters, Leads, Guarded, Fixed
    <3>5. QED
      BY <2>25, <3>2, <3>3, <3>4 DEF RemediatesGate
  <2>26. ASSUME NEW a \in Leader \union Worker, NEW j \in Jobs, RemediatesDeploy(a, j) PROVE \A who \in Actor : Enters(who) /\ Leads(who)
    BY <2>26, <1>1, DoesThat, MovesThat
       DEF RemediatesDeploy, Picked, rows, filed, counts, leading, Enters, Leads, Guarded, Fixed, Actor
  <2>27. ASSUME NEW a \in Leader \union Worker, NEW j \in Jobs, RemediatesHeads(a, j) PROVE \A who \in Actor : Enters(who) /\ Leads(who)
    BY <2>27, <1>1, DoesThat, MovesThat
       DEF RemediatesHeads, Picked, rows, filed, counts, leading, Enters, Leads, Guarded, Fixed, Actor
  <2>28. ASSUME NEW a \in Leader \union Worker, NEW j \in Jobs, Consults(a, j) PROVE \A who \in Actor : Enters(who) /\ Leads(who)
    BY <2>28, <1>1, DoesThat, MovesThat
       DEF Consults, Picked, rows, filed, counts, leading, Enters, Leads, Guarded, Fixed, Actor
  <2>29. ASSUME NEW p \in Person, FixesForward(p) PROVE \A who \in Actor : Enters(who) /\ Leads(who)
    <3>1. p \in Actor /\ busy' = [busy EXCEPT ![p].at = "record", ![p].fix = made + 1] /\ busy[p].at = "checked"
      BY <2>29, RemediationAssumption DEF FixesForward, Actor, Idle
    <3>2. busy'[p].at = "record" /\ \A c \in Actor \ {p} : busy'[c] = busy[c]
      BY <1>1, <3>1, FilesThat
    <3>3. QED
      BY <3>1, <3>2 DEF Enters, Leads, Guarded, Fixed
  <2>30. ASSUME NEW p \in Person, Records(p) PROVE \A who \in Actor : Enters(who) /\ Leads(who)
    BY <2>30, <1>1, DoesThat, MovesThat
       DEF Records, Idle, rows, counts, leading, Nobody, Enters, Leads, Guarded, Fixed, Actor
  <2>31. ASSUME NEW p \in Person, NEW j \in Jobs, Checks(p, j) PROVE \A who \in Actor : Enters(who) /\ Leads(who)
    <3>1. p \in Actor /\ Does(p, "checked", j, 0) /\ p \notin Leader
      BY <2>31, RemediationAssumption DEF Checks, Actor, Idle
    <3>2. QED
      BY <1>1, <3>1, DoesThat DEF Enters, Leads, Guarded, Fixed
  <2>32. ASSUME NEW j \in Jobs, Retries(j) PROVE \A who \in Actor : Enters(who) /\ Leads(who)
    BY <2>32, <1>1, DoesThat, MovesThat
       DEF Retries, filed, counts, leading, Enters, Leads, Guarded, Fixed, Actor
  <2>33. ASSUME NEW j \in Jobs, Cancels(j) PROVE \A who \in Actor : Enters(who) /\ Leads(who)
    BY <2>33, <1>1, DoesThat, MovesThat
       DEF Cancels, Live, counts, leading, Enters, Leads, Guarded, Fixed, Actor
  <2>34. ASSUME NEW j \in Jobs, Resolves(j) PROVE \A who \in Actor : Enters(who) /\ Leads(who)
    BY <2>34, <1>1, DoesThat, MovesThat
       DEF Resolves, filed, counts, leading, Enters, Leads, Guarded, Fixed, Actor
  <2>35. ASSUME NEW j \in Jobs, Claims(j) PROVE \A who \in Actor : Enters(who) /\ Leads(who)
    BY <2>35, <1>1, DoesThat, MovesThat
       DEF Claims, filed, counts, leading, Enters, Leads, Guarded, Fixed, Actor
  <2>36. ASSUME NEW j \in Jobs, NEW c \in Causes, Fails(j, c) PROVE \A who \in Actor : Enters(who) /\ Leads(who)
    BY <2>36, <1>1, DoesThat, MovesThat
       DEF Fails, counts, leading, Enters, Leads, Guarded, Fixed, Actor
  <2>37. ASSUME NEW w \in Worker, NEW j \in Jobs, Finishes(w, j) PROVE \A who \in Actor : Enters(who) /\ Leads(who)
    <3>1. w \in Actor /\ busy' = [busy EXCEPT ![w].at = "scan", ![w].seen = [d \in Jobs |-> IF <<d, j>> \in waits /\ status[d] = "failed" /\ cause[d] = "blocked" THEN "blocked" ELSE "none"]] /\ w \notin Leader
      BY <2>37, RemediationAssumption DEF Finishes, Actor, Idle, Unblocks
    <3>2. QED
      BY <1>1, <3>1, ScansThat DEF Enters, Leads, Guarded, Fixed
  <2>38. ASSUME NEW w \in Worker, NEW j \in Jobs, FinishesDeploy(w, j) PROVE \A who \in Actor : Enters(who) /\ Leads(who)
    <3>1. w \in Actor /\ busy' = [busy EXCEPT ![w].at = "scan", ![w].seen = [d \in Jobs |-> IF <<d, j>> \in waits /\ status[d] = "failed" /\ cause[d] = "blocked" THEN "blocked" ELSE "none"]] /\ w \notin Leader
      BY <2>38, RemediationAssumption DEF FinishesDeploy, Actor, Idle, Unblocks
    <3>2. QED
      BY <1>1, <3>1, ScansThat DEF Enters, Leads, Guarded, Fixed
  <2>39. ASSUME UNCHANGED remVars PROVE \A who \in Actor : Enters(who) /\ Leads(who)
    BY <2>39, <1>1, DoesThat, MovesThat
       DEF remVars, Enters, Leads, Guarded, Fixed, Actor
  <2>40. QED
    BY <1>0, <2>1, <2>2, <2>3, <2>4, <2>5, <2>6, <2>7, <2>8, <2>9, <2>10, <2>11, <2>12, <2>13, <2>14, <2>15, <2>16, <2>17, <2>18, <2>19, <2>20, <2>21, <2>22, <2>23, <2>24, <2>25, <2>26, <2>27, <2>28, <2>29, <2>30, <2>31, <2>32, <2>33, <2>34, <2>35, <2>36, <2>37, <2>38, <2>39
       DEF RemNext, Remediates, Continues

-----------------------------------------------------------------------------
(* The retry budget *)

LEMMA HowCounted ==
    [RemNext]_remVars => UNCHANGED budget \/ \E who \in Leader \union Worker : Counts(who)
<1> SUFFICES ASSUME [RemNext]_remVars PROVE UNCHANGED budget \/ \E who \in Leader \union Worker : Counts(who)
  OBVIOUS
<1>0. [RemNext]_remVars
  OBVIOUS
<1>2. QED
  <2>1. ASSUME NEW l \in Leader, Elected(l) PROVE UNCHANGED budget \/ \E who \in Leader \union Worker : Counts(who)
    BY <2>1, <1>0
       DEF Elected, rows, filed, counts
  <2>2. ASSUME NEW l \in Leader, Scans(l) PROVE UNCHANGED budget \/ \E who \in Leader \union Worker : Counts(who)
    BY <2>2, <1>0
       DEF Scans, Idle, rows, filed, leading, Nobody, counts
  <2>3. ASSUME NEW l \in Leader, NEW j \in Jobs, NEW d \in Jobs, Blocks(l, j, d) PROVE UNCHANGED budget \/ \E who \in Leader \union Worker : Counts(who)
    BY <2>3, <1>0
       DEF Blocks, Nobody, leading, counts
  <2>4. ASSUME LosesLock PROVE UNCHANGED budget \/ \E who \in Leader \union Worker : Counts(who)
    BY <2>4, <1>0
       DEF LosesLock, rows, filed, counts
  <2>5. ASSUME NEW a \in Actor, Dies(a) PROVE UNCHANGED budget \/ \E who \in Leader \union Worker : Counts(who)
    BY <2>5, <1>0
       DEF Dies, Idle, rows, filed, Nobody, counts
  <2>6. ASSUME NEW a \in Leader \union Worker, Ends(a) PROVE UNCHANGED budget \/ \E who \in Leader \union Worker : Counts(who)
    BY <2>6, <1>0
       DEF Ends, Nobody, Idle, rows, filed, leading, counts
  <2>7. ASSUME NEW a \in Leader \union Worker, Counts(a) PROVE UNCHANGED budget \/ \E who \in Leader \union Worker : Counts(who)
    BY <2>7
  <2>8. ASSUME NEW a \in Leader \union Worker, Requeues(a) PROVE UNCHANGED budget \/ \E who \in Leader \union Worker : Counts(who)
    BY <2>8, <1>0
       DEF Requeues, filed, leading, counts
  <2>9. ASSUME NEW a \in Leader \union Worker, Depends(a) PROVE UNCHANGED budget \/ \E who \in Leader \union Worker : Counts(who)
    BY <2>9, <1>0
       DEF Depends, rows, filed, leading, counts
  <2>10. ASSUME NEW a \in Leader \union Worker, FilesDeployFix(a) PROVE UNCHANGED budget \/ \E who \in Leader \union Worker : Counts(who)
    BY <2>10, <1>0
       DEF FilesDeployFix, leading, counts
  <2>11. ASSUME NEW a \in Leader \union Worker, FilesHeadsFix(a) PROVE UNCHANGED budget \/ \E who \in Leader \union Worker : Counts(who)
    BY <2>11, <1>0
       DEF FilesHeadsFix, leading, counts
  <2>12. ASSUME NEW a \in Leader \union Worker, ConsultsLast(a) PROVE UNCHANGED budget \/ \E who \in Leader \union Worker : Counts(who)
    BY <2>12, <1>0
       DEF ConsultsLast, rows, filed, leading, counts
  <2>13. ASSUME NEW a \in Leader \union Worker, Escalates(a) PROVE UNCHANGED budget \/ \E who \in Leader \union Worker : Counts(who)
    BY <2>13, <1>0
       DEF Escalates, rows, filed, leading, counts
  <2>14. ASSUME NEW a \in Leader \union Worker, AdvisesRetry(a) PROVE UNCHANGED budget \/ \E who \in Leader \union Worker : Counts(who)
    BY <2>14, <1>0
       DEF AdvisesRetry, Advised, rows, filed, leading, counts
  <2>15. ASSUME NEW a \in Leader \union Worker, AdvisesFix(a) PROVE UNCHANGED budget \/ \E who \in Leader \union Worker : Counts(who)
    BY <2>15, <1>0
       DEF AdvisesFix, Advised, rows, filed, leading, counts
  <2>16. ASSUME NEW a \in Leader \union Worker, FindsConflict(a) PROVE UNCHANGED budget \/ \E who \in Leader \union Worker : Counts(who)
    BY <2>16, <1>0
       DEF FindsConflict, rows, filed, leading, counts
  <2>17. ASSUME NEW a \in Leader \union Worker, SplitsSaved(a) PROVE UNCHANGED budget \/ \E who \in Leader \union Worker : Counts(who)
    BY <2>17, <1>0
       DEF SplitsSaved, leading, counts
  <2>18. ASSUME NEW a \in Leader \union Worker, RepointsSaved(a) PROVE UNCHANGED budget \/ \E who \in Leader \union Worker : Counts(who)
    BY <2>18, <1>0
       DEF RepointsSaved, rows, filed, leading, counts
  <2>19. ASSUME NEW a \in Leader \union Worker, SupersedesFailed(a) PROVE UNCHANGED budget \/ \E who \in Leader \union Worker : Counts(who)
    BY <2>19, <1>0
       DEF SupersedesFailed, leading, counts
  <2>20. ASSUME NEW a \in Leader \union Worker, NEW n \in 1..2, NEW E \in SUBSET (IF n = 2 THEN {<<made + 2, made + 1>>} ELSE {}), FilesBatch(a, n, E) PROVE UNCHANGED budget \/ \E who \in Leader \union Worker : Counts(who)
    BY <2>20, <1>0
       DEF FilesBatch, Room, Of, leading, counts
  <2>21. ASSUME NEW a \in Leader \union Worker, NEW j \in Jobs, RemediatesTransient(a, j) PROVE UNCHANGED budget \/ \E who \in Leader \union Worker : Counts(who)
    BY <2>21, <1>0
       DEF RemediatesTransient, Picked, Counted, Exhausted, rows, filed, leading, counts
  <2>22. ASSUME NEW a \in Leader \union Worker, NEW j \in Jobs, RemediatesMerge(a, j) PROVE UNCHANGED budget \/ \E who \in Leader \union Worker : Counts(who)
    BY <2>22, <1>0
       DEF RemediatesMerge, Picked, Counted, Exhausted, rows, filed, leading, counts
  <2>23. ASSUME NEW a \in Leader \union Worker, NEW j \in Jobs, RemediatesEnvironment(a, j) PROVE UNCHANGED budget \/ \E who \in Leader \union Worker : Counts(who)
    BY <2>23, <1>0
       DEF RemediatesEnvironment, Picked, Counted, Exhausted, rows, filed, leading, counts
  <2>24. ASSUME NEW a \in Leader \union Worker, NEW j \in Jobs, RemediatesBlocked(a, j) PROVE UNCHANGED budget \/ \E who \in Leader \union Worker : Counts(who)
    BY <2>24, <1>0
       DEF RemediatesBlocked, Picked, StillBlocked, rows, filed, leading, Counted, Exhausted, counts
  <2>25. ASSUME NEW a \in Leader \union Worker, NEW j \in Jobs, RemediatesGate(a, j) PROVE UNCHANGED budget \/ \E who \in Leader \union Worker : Counts(who)
    BY <2>25, <1>0
       DEF RemediatesGate, Picked, leading, counts
  <2>26. ASSUME NEW a \in Leader \union Worker, NEW j \in Jobs, RemediatesDeploy(a, j) PROVE UNCHANGED budget \/ \E who \in Leader \union Worker : Counts(who)
    BY <2>26, <1>0
       DEF RemediatesDeploy, Picked, rows, filed, leading, counts
  <2>27. ASSUME NEW a \in Leader \union Worker, NEW j \in Jobs, RemediatesHeads(a, j) PROVE UNCHANGED budget \/ \E who \in Leader \union Worker : Counts(who)
    BY <2>27, <1>0
       DEF RemediatesHeads, Picked, rows, filed, leading, counts
  <2>28. ASSUME NEW a \in Leader \union Worker, NEW j \in Jobs, Consults(a, j) PROVE UNCHANGED budget \/ \E who \in Leader \union Worker : Counts(who)
    BY <2>28, <1>0
       DEF Consults, Picked, rows, filed, leading, counts
  <2>29. ASSUME NEW p \in Person, FixesForward(p) PROVE UNCHANGED budget \/ \E who \in Leader \union Worker : Counts(who)
    BY <2>29, <1>0
       DEF FixesForward, leading, counts
  <2>30. ASSUME NEW p \in Person, Records(p) PROVE UNCHANGED budget \/ \E who \in Leader \union Worker : Counts(who)
    BY <2>30, <1>0
       DEF Records, Idle, rows, leading, Nobody, counts
  <2>31. ASSUME NEW p \in Person, NEW j \in Jobs, Checks(p, j) PROVE UNCHANGED budget \/ \E who \in Leader \union Worker : Counts(who)
    BY <2>31, <1>0
       DEF Checks, Idle, rows, leading, Nobody, counts
  <2>32. ASSUME NEW j \in Jobs, Retries(j) PROVE UNCHANGED budget \/ \E who \in Leader \union Worker : Counts(who)
    BY <2>32, <1>0
       DEF Retries, filed, leading, counts
  <2>33. ASSUME NEW j \in Jobs, Cancels(j) PROVE UNCHANGED budget \/ \E who \in Leader \union Worker : Counts(who)
    BY <2>33, <1>0
       DEF Cancels, Live, leading, counts
  <2>34. ASSUME NEW j \in Jobs, Resolves(j) PROVE UNCHANGED budget \/ \E who \in Leader \union Worker : Counts(who)
    BY <2>34, <1>0
       DEF Resolves, filed, leading, counts
  <2>35. ASSUME NEW j \in Jobs, Claims(j) PROVE UNCHANGED budget \/ \E who \in Leader \union Worker : Counts(who)
    BY <2>35, <1>0
       DEF Claims, filed, leading, counts
  <2>36. ASSUME NEW j \in Jobs, NEW c \in Causes, Fails(j, c) PROVE UNCHANGED budget \/ \E who \in Leader \union Worker : Counts(who)
    BY <2>36, <1>0
       DEF Fails, leading, counts
  <2>37. ASSUME NEW w \in Worker, NEW j \in Jobs, Finishes(w, j) PROVE UNCHANGED budget \/ \E who \in Leader \union Worker : Counts(who)
    BY <2>37, <1>0
       DEF Finishes, Idle, leading, Nobody, counts
  <2>38. ASSUME NEW w \in Worker, NEW j \in Jobs, FinishesDeploy(w, j) PROVE UNCHANGED budget \/ \E who \in Leader \union Worker : Counts(who)
    BY <2>38, <1>0
       DEF FinishesDeploy, Idle, leading, Nobody, counts
  <2>39. ASSUME UNCHANGED remVars PROVE UNCHANGED budget \/ \E who \in Leader \union Worker : Counts(who)
    BY <2>39, <1>0
       DEF remVars, counts
  <2>40. QED
    BY <1>0, <2>1, <2>2, <2>3, <2>4, <2>5, <2>6, <2>7, <2>8, <2>9, <2>10, <2>11, <2>12, <2>13, <2>14, <2>15, <2>16, <2>17, <2>18, <2>19, <2>20, <2>21, <2>22, <2>23, <2>24, <2>25, <2>26, <2>27, <2>28, <2>29, <2>30, <2>31, <2>32, <2>33, <2>34, <2>35, <2>36, <2>37, <2>38, <2>39
       DEF RemNext, Remediates, Continues

\* The retries of j that are about to be counted.
Counting(j) == {a \in Leader \union Worker : busy[a].at = "count" /\ busy[a].job = j}

\* A retry that was allowed has one less than the cap before it, and there is at most
\* one on the way for each process: what they add up to is what the budget can reach.
BudgetBounded ==
    \A j \in Jobs : budget[j] + Cardinality(Counting(j)) <= Cap - 1 + Cardinality(Leader \union Worker)

LEMMA CountingFinite ==
    /\ IsFiniteSet(Leader \union Worker) /\ Cardinality(Leader \union Worker) \in Nat
    /\ \A T \in SUBSET (Leader \union Worker) :
         IsFiniteSet(T) /\ Cardinality(T) \in Nat /\ Cardinality(T) <= Cardinality(Leader \union Worker)
<1>1. IsFiniteSet(Leader \union Worker)
  BY FS_Subset, RemediationAssumption DEF Actor
<1>2. QED
  BY <1>1, FS_Subset, FS_CardinalityType

LEMMA BudgetInit == RemInit => BudgetBounded
<1> SUFFICES ASSUME RemInit, NEW j \in Jobs
             PROVE  budget[j] + Cardinality(Counting(j)) <= Cap - 1 + Cardinality(Leader \union Worker)
  BY DEF BudgetBounded
<1>1. Counting(j) = {}
  BY DEF RemInit, Counting, Idle, Actor
<1>2. budget[j] = 0 /\ Cardinality(Counting(j)) = 0
  BY <1>1, FS_EmptySet DEF RemInit
<1>3. Cardinality(Leader \union Worker) >= 1
  BY CountingFinite, FS_EmptySet, RemediationAssumption
<1>4. QED
  BY <1>2, <1>3, CountingFinite, RemediationAssumption

LEMMA BudgetStep == TypeInv /\ BudgetBounded /\ [RemNext]_remVars => BudgetBounded'
<1> SUFFICES ASSUME TypeInv, BudgetBounded, [RemNext]_remVars, NEW j \in Jobs
             PROVE  budget'[j] + Cardinality(Counting(j)') <= Cap - 1 + Cardinality(Leader \union Worker)
  BY DEF BudgetBounded
<1> DEFINE N == Cardinality(Leader \union Worker)
<1>0. /\ budget[j] \in Nat /\ N \in Nat /\ Cap \in Nat
      /\ budget[j] + Cardinality(Counting(j)) <= Cap - 1 + N
  BY CountingFinite, RemediationAssumption DEF TypeInv, RowsOK, BudgetBounded
<1>1. Counting(j) \in SUBSET (Leader \union Worker) /\ Counting(j)' \in SUBSET (Leader \union Worker)
  BY DEF Counting
<1>2. /\ IsFiniteSet(Counting(j)) /\ Cardinality(Counting(j)) \in Nat
      /\ Cardinality(Counting(j)') \in Nat /\ Cardinality(Counting(j)') <= N
  BY <1>1, CountingFinite
<1>3. CASE UNCHANGED budget
  <2>1. CASE budget[j] < Cap
    BY <1>0, <1>2, <1>3, <2>1
  <2>2. CASE ~(budget[j] < Cap)
    <3>1. \A a \in Counting(j)' : a \in Counting(j)
      BY <2>2, HowEntered DEF Enters, Guarded, Counting, Actor, Fixed
    <3>2. Cardinality(Counting(j)') <= Cardinality(Counting(j))
      BY <1>2, <3>1, FS_Subset
    <3>3. QED
      BY <1>0, <1>2, <1>3, <3>2
  <2>3. QED
    BY <2>1, <2>2
<1>4. CASE \E a \in Leader \union Worker : Counts(a)
  <2>1. PICK a \in Leader \union Worker : Counts(a)
    BY <1>4
  <2>2. /\ busy'[a].at = "requeue" /\ \A c \in Actor \ {a} : busy'[c] = busy[c]
        /\ busy[a].at = "count" /\ budget' = [budget EXCEPT ![busy[a].job] = @ + 1]
    BY <2>1, MovesThat DEF Counts, TypeInv, Actor
  <2>3. Counting(j)' = Counting(j) \ {a}
    BY <2>2 DEF Counting, Actor
  <2>4. CASE j = busy[a].job
    <3>1. a \in Counting(j)
      BY <2>2, <2>4 DEF Counting
    <3>2. Cardinality(Counting(j)') = Cardinality(Counting(j)) - 1
      BY <1>2, <2>3, <3>1, FS_RemoveElement
    <3>3. budget'[j] = budget[j] + 1
      BY <2>2, <2>4 DEF TypeInv, RowsOK
    <3>4. QED
      BY <1>0, <1>2, <3>2, <3>3
  <2>5. CASE j # busy[a].job
    <3>1. Counting(j)' = Counting(j)
      BY <2>3, <2>5 DEF Counting
    <3>2. budget'[j] = budget[j]
      BY <2>2, <2>5 DEF TypeInv, RowsOK
    <3>3. QED
      BY <1>0, <3>1, <3>2
  <2>6. QED
    BY <2>4, <2>5
<1>5. QED
  BY <1>3, <1>4, HowCounted

LEMMA BudgetFollows == TypeInv /\ BudgetBounded => BudgetKept
<1> SUFFICES ASSUME TypeInv, BudgetBounded, NEW j \in Jobs PROVE budget[j] < Cap + Cardinality(Leader \union Worker)
  BY DEF BudgetKept
<1>1. Counting(j) \in SUBSET (Leader \union Worker)
  BY DEF Counting
<1>2. Cardinality(Counting(j)) \in Nat /\ Cardinality(Leader \union Worker) \in Nat
  BY <1>1, CountingFinite
<1>3. /\ budget[j] \in Nat /\ Cap \in Nat
      /\ budget[j] + Cardinality(Counting(j)) <= Cap - 1 + Cardinality(Leader \union Worker)
  BY RemediationAssumption DEF TypeInv, RowsOK, BudgetBounded
<1>4. QED
  BY <1>2, <1>3

\* However many leaders and runners retry a job without a lock, each of them takes its
\* counter at most one beyond the cap.
THEOREM RetriesBounded == RemSpec => []BudgetKept
<1>1. RemInit => TypeInv /\ BudgetBounded
  BY TypeInit, BudgetInit
<1>2. TypeInv /\ BudgetBounded /\ [RemNext]_remVars => (TypeInv /\ BudgetBounded)'
  BY TypeStep, BudgetStep
<1>3. QED
  BY <1>1, <1>2, BudgetFollows, PTL DEF RemSpec

-----------------------------------------------------------------------------
(* The jobs that are filed *)

Work == Leader \union Worker

\* A fix for a deployment is filed by an actor that was about to, and nobody else moves.
FilesAs(kind, j) ==
    kind \in Fixed =>
        \E a \in Work : /\ busy[a].at = kind /\ busy[a].job = j /\ busy'[a].at = "depend"
                        /\ \A c \in Actor \ {a} : busy'[c] = busy[c]

HowFiled ==
    \/ UNCHANGED <<made, link>>
    \/ \E kind \in Kinds \ {"plain", "ai"}, j \in 1..made, root \in 0..MaxJobs, depth \in Nat :
          Births(kind, j, root, depth) /\ FilesAs(kind, j)
    \/ \E a \in Work, n \in 1..2, E \in SUBSET (Jobs \X Jobs) : FilesBatch(a, n, E)

LEMMA FiledSo == TypeInv /\ [RemNext]_remVars => HowFiled
<1> SUFFICES ASSUME TypeInv, [RemNext]_remVars PROVE HowFiled
  OBVIOUS
<1>0. TypeInv /\ [RemNext]_remVars
  OBVIOUS
<1>1. /\ BusyOK /\ FiledOK /\ made \in Nat /\ made <= MaxJobs /\ \A j \in 1..made : j \in Jobs
      /\ \A a \in Actor : busy[a].at \notin {"idle", "scan"} => busy[a].job \in 1..made
      /\ \A a \in Actor, j \in Jobs : busy[a].seen[j] # "none" => j \in 1..made
  BY NamedJobs DEF TypeInv
<1>2. QED
  <2>1. ASSUME NEW l \in Leader, Elected(l) PROVE HowFiled
    BY <2>1, <1>1
       DEF Elected, rows, counts, HowFiled, filed
  <2>2. ASSUME NEW l \in Leader, Scans(l) PROVE HowFiled
    BY <2>2, <1>1
       DEF Scans, Idle, rows, counts, leading, Nobody, HowFiled, filed
  <2>3. ASSUME NEW l \in Leader, NEW j \in Jobs, NEW d \in Jobs, Blocks(l, j, d) PROVE HowFiled
    BY <2>3, <1>1
       DEF Blocks, Nobody, counts, leading, HowFiled, filed
  <2>4. ASSUME LosesLock PROVE HowFiled
    BY <2>4, <1>1
       DEF LosesLock, rows, counts, HowFiled, filed
  <2>5. ASSUME NEW a \in Actor, Dies(a) PROVE HowFiled
    BY <2>5, <1>1
       DEF Dies, Idle, rows, counts, Nobody, HowFiled, filed
  <2>6. ASSUME NEW a \in Leader \union Worker, Ends(a) PROVE HowFiled
    BY <2>6, <1>1
       DEF Ends, Nobody, Idle, rows, counts, leading, HowFiled, filed
  <2>7. ASSUME NEW a \in Leader \union Worker, Counts(a) PROVE HowFiled
    BY <2>7, <1>1
       DEF Counts, rows, leading, HowFiled, filed
  <2>8. ASSUME NEW a \in Leader \union Worker, Requeues(a) PROVE HowFiled
    BY <2>8, <1>1
       DEF Requeues, counts, leading, HowFiled, filed
  <2>9. ASSUME NEW a \in Leader \union Worker, Depends(a) PROVE HowFiled
    BY <2>9, <1>1
       DEF Depends, rows, counts, leading, HowFiled, filed
  <2>10. ASSUME NEW a \in Leader \union Worker, FilesDeployFix(a) PROVE HowFiled
    <3>1. busy[a].job \in 1..made /\ Births("deploy", busy[a].job, made + 1, 0) /\ a \in Actor
      BY <2>10, <1>1 DEF FilesDeployFix, Actor
    <3>2. made + 1 \in 0..MaxJobs
      BY <1>1, <3>1, RemediationAssumption DEF Births, Room
    <3>3. FilesAs("deploy", busy[a].job)
      BY <2>10, <1>1, <3>1, DoesThat DEF FilesDeployFix, FilesAs, Work, Fixed
    <3>4. QED
      BY <3>1, <3>2, <3>3 DEF HowFiled, Kinds, Fixed
  <2>11. ASSUME NEW a \in Leader \union Worker, FilesHeadsFix(a) PROVE HowFiled
    <3>1. busy[a].job \in 1..made /\ Births("alembic", busy[a].job, made + 1, 0) /\ a \in Actor
      BY <2>11, <1>1 DEF FilesHeadsFix, Actor
    <3>2. made + 1 \in 0..MaxJobs
      BY <1>1, <3>1, RemediationAssumption DEF Births, Room
    <3>3. FilesAs("alembic", busy[a].job)
      BY <2>11, <1>1, <3>1, DoesThat DEF FilesHeadsFix, FilesAs, Work, Fixed
    <3>4. QED
      BY <3>1, <3>2, <3>3 DEF HowFiled, Kinds, Fixed
  <2>12. ASSUME NEW a \in Leader \union Worker, ConsultsLast(a) PROVE HowFiled
    BY <2>12, <1>1
       DEF ConsultsLast, rows, counts, leading, HowFiled, filed
  <2>13. ASSUME NEW a \in Leader \union Worker, Escalates(a) PROVE HowFiled
    BY <2>13, <1>1
       DEF Escalates, rows, leading, HowFiled, filed
  <2>14. ASSUME NEW a \in Leader \union Worker, AdvisesRetry(a) PROVE HowFiled
    BY <2>14, <1>1
       DEF AdvisesRetry, Advised, rows, leading, HowFiled, filed
  <2>15. ASSUME NEW a \in Leader \union Worker, AdvisesFix(a) PROVE HowFiled
    BY <2>15, <1>1
       DEF AdvisesFix, Advised, rows, leading, HowFiled, filed
  <2>16. ASSUME NEW a \in Leader \union Worker, FindsConflict(a) PROVE HowFiled
    BY <2>16, <1>1
       DEF FindsConflict, rows, counts, leading, HowFiled, filed
  <2>17. ASSUME NEW a \in Leader \union Worker, SplitsSaved(a) PROVE HowFiled
    <3>1. busy[a].job \in 1..made /\ Births("split", busy[a].job, made + 1, 0) /\ a \in Actor
      BY <2>17, <1>1 DEF SplitsSaved, Actor
    <3>2. made + 1 \in 0..MaxJobs
      BY <1>1, <3>1, RemediationAssumption DEF Births, Room
    <3>3. FilesAs("split", busy[a].job)
      BY <2>17, <1>1, <3>1, DoesThat DEF SplitsSaved, FilesAs, Work, Fixed
    <3>4. QED
      BY <3>1, <3>2, <3>3 DEF HowFiled, Kinds, Fixed
  <2>18. ASSUME NEW a \in Leader \union Worker, RepointsSaved(a) PROVE HowFiled
    BY <2>18, <1>1
       DEF RepointsSaved, rows, counts, leading, HowFiled, filed
  <2>19. ASSUME NEW a \in Leader \union Worker, SupersedesFailed(a) PROVE HowFiled
    BY <2>19, <1>1
       DEF SupersedesFailed, counts, leading, HowFiled, filed
  <2>20. ASSUME NEW a \in Leader \union Worker, NEW n \in 1..2, NEW E \in SUBSET (IF n = 2 THEN {<<made + 2, made + 1>>} ELSE {}), FilesBatch(a, n, E) PROVE HowFiled
    <3>0. made + n <= MaxJobs
      BY <2>20 DEF FilesBatch, Room
    <3>1. E \in SUBSET (Jobs \X Jobs)
      BY <1>1, <3>0, RemediationAssumption DEF Jobs
    <3>2. QED
      BY <2>20, <3>1 DEF HowFiled, Work
  <2>21. ASSUME NEW a \in Leader \union Worker, NEW j \in Jobs, RemediatesTransient(a, j) PROVE HowFiled
    BY <2>21, <1>1
       DEF RemediatesTransient, Picked, Counted, Exhausted, rows, counts, leading, HowFiled, filed
  <2>22. ASSUME NEW a \in Leader \union Worker, NEW j \in Jobs, RemediatesMerge(a, j) PROVE HowFiled
    BY <2>22, <1>1
       DEF RemediatesMerge, Picked, Counted, Exhausted, rows, counts, leading, HowFiled, filed
  <2>23. ASSUME NEW a \in Leader \union Worker, NEW j \in Jobs, RemediatesEnvironment(a, j) PROVE HowFiled
    BY <2>23, <1>1
       DEF RemediatesEnvironment, Picked, Counted, Exhausted, rows, counts, leading, HowFiled, filed
  <2>24. ASSUME NEW a \in Leader \union Worker, NEW j \in Jobs, RemediatesBlocked(a, j) PROVE HowFiled
    BY <2>24, <1>1
       DEF RemediatesBlocked, Picked, StillBlocked, rows, counts, leading, Counted, Exhausted, HowFiled, filed
  <2>25. ASSUME NEW a \in Leader \union Worker, NEW j \in Jobs, RemediatesGate(a, j) PROVE HowFiled
    <3>1. CASE UNCHANGED <<made, link>>
      BY <3>1 DEF HowFiled
    <3>2. CASE Births("gate", j, made + 1, 0)
      <4>1. j \in 1..made
        BY <2>25, <1>1 DEF RemediatesGate, Picked, Actor
      <4>2. made + 1 \in 0..MaxJobs
        BY <1>1, <3>2, RemediationAssumption DEF Births, Room
      <4>3. FilesAs("gate", j)
        BY DEF FilesAs, Fixed
      <4>4. QED
        BY <3>2, <4>1, <4>2, <4>3 DEF HowFiled, Kinds
    <3>3. QED
      BY <2>25, <3>1, <3>2 DEF RemediatesGate
  <2>26. ASSUME NEW a \in Leader \union Worker, NEW j \in Jobs, RemediatesDeploy(a, j) PROVE HowFiled
    BY <2>26, <1>1
       DEF RemediatesDeploy, Picked, rows, counts, leading, HowFiled, filed
  <2>27. ASSUME NEW a \in Leader \union Worker, NEW j \in Jobs, RemediatesHeads(a, j) PROVE HowFiled
    BY <2>27, <1>1
       DEF RemediatesHeads, Picked, rows, counts, leading, HowFiled, filed
  <2>28. ASSUME NEW a \in Leader \union Worker, NEW j \in Jobs, Consults(a, j) PROVE HowFiled
    BY <2>28, <1>1
       DEF Consults, Picked, rows, counts, leading, HowFiled, filed
  <2>29. ASSUME NEW p \in Person, FixesForward(p) PROVE HowFiled
    <3>1. busy[p].job \in 1..made /\ busy[p].job \in Jobs
      BY <2>29, <1>1 DEF FixesForward, Actor
    <3>2. link[busy[p].job].root \in 0..MaxJobs /\ link[busy[p].job].depth \in Nat
      BY <1>1, <3>1 DEF FiledOK, Links
    <3>3. PICK root \in 0..MaxJobs, depth \in Nat : Births("person", busy[p].job, root, depth)
      BY <2>29, <3>1, <3>2, RemediationAssumption DEF FixesForward, Jobs
    <3>4. FilesAs("person", busy[p].job)
      BY DEF FilesAs, Fixed
    <3>5. QED
      BY <3>1, <3>3, <3>4 DEF HowFiled, Kinds
  <2>30. ASSUME NEW p \in Person, Records(p) PROVE HowFiled
    BY <2>30, <1>1
       DEF Records, Idle, rows, counts, leading, Nobody, HowFiled, filed
  <2>31. ASSUME NEW p \in Person, NEW j \in Jobs, Checks(p, j) PROVE HowFiled
    BY <2>31, <1>1
       DEF Checks, Idle, rows, counts, leading, Nobody, HowFiled, filed
  <2>32. ASSUME NEW j \in Jobs, Retries(j) PROVE HowFiled
    BY <2>32, <1>1
       DEF Retries, counts, leading, HowFiled, filed
  <2>33. ASSUME NEW j \in Jobs, Cancels(j) PROVE HowFiled
    BY <2>33, <1>1
       DEF Cancels, Live, counts, leading, HowFiled, filed
  <2>34. ASSUME NEW j \in Jobs, Resolves(j) PROVE HowFiled
    BY <2>34, <1>1
       DEF Resolves, counts, leading, HowFiled, filed
  <2>35. ASSUME NEW j \in Jobs, Claims(j) PROVE HowFiled
    BY <2>35, <1>1
       DEF Claims, counts, leading, HowFiled, filed
  <2>36. ASSUME NEW j \in Jobs, NEW c \in Causes, Fails(j, c) PROVE HowFiled
    BY <2>36, <1>1
       DEF Fails, counts, leading, HowFiled, filed
  <2>37. ASSUME NEW w \in Worker, NEW j \in Jobs, Finishes(w, j) PROVE HowFiled
    BY <2>37, <1>1
       DEF Finishes, Idle, counts, leading, Nobody, HowFiled, filed
  <2>38. ASSUME NEW w \in Worker, NEW j \in Jobs, FinishesDeploy(w, j) PROVE HowFiled
    BY <2>38, <1>1
       DEF FinishesDeploy, Idle, counts, leading, Nobody, HowFiled, filed
  <2>39. ASSUME UNCHANGED remVars PROVE HowFiled
    BY <2>39, <1>1
       DEF remVars, HowFiled, filed
  <2>40. QED
    BY <1>0, <2>1, <2>2, <2>3, <2>4, <2>5, <2>6, <2>7, <2>8, <2>9, <2>10, <2>11, <2>12, <2>13, <2>14, <2>15, <2>16, <2>17, <2>18, <2>19, <2>20, <2>21, <2>22, <2>23, <2>24, <2>25, <2>26, <2>27, <2>28, <2>29, <2>30, <2>31, <2>32, <2>33, <2>34, <2>35, <2>36, <2>37, <2>38, <2>39
       DEF RemNext, Remediates, Continues

\* What is filed leaves the links there are as they are; what it adds.
LEMMA LinksAfter ==
    ASSUME TypeInv, [RemNext]_remVars
    PROVE  /\ \A f \in 1..made : link'[f] = link[f]
           /\ \/ UNCHANGED <<made, link>>
              \/ \E kind \in Kinds \ {"plain", "ai"}, j \in 1..made :
                    /\ FilesAs(kind, j) /\ made' = made + 1 /\ made + 1 \in Jobs
                    /\ link'[made + 1].kind = kind /\ link'[made + 1].of = j
                    /\ \A f \in Jobs \ {made + 1} : link'[f] = link[f]
              \/ \E a \in Work, n \in 1..2 :
                    LET new == Of("ai", busy[a].job, link[busy[a].job].root, link[busy[a].job].depth + 1)
                    IN  /\ busy[a].at = "file" /\ busy[a].job \in 1..made /\ made' = made + n
                        /\ \A f \in Jobs : link'[f] = IF f \in made + 1..made + n THEN new ELSE link[f]
<1>0. FiledOK /\ made \in Nat /\ made <= MaxJobs /\ \A j \in 1..made : j \in Jobs
  BY NamedJobs DEF TypeInv
<1>1. CASE UNCHANGED <<made, link>>
  BY <1>1
<1>2. ASSUME NEW kind \in Kinds \ {"plain", "ai"}, NEW j \in 1..made, NEW root \in 0..MaxJobs, NEW depth \in Nat,
             Births(kind, j, root, depth), FilesAs(kind, j)
      PROVE  /\ made' = made + 1 /\ made + 1 \in Jobs
             /\ link'[made + 1].kind = kind /\ link'[made + 1].of = j
             /\ \A f \in Jobs \ {made + 1} : link'[f] = link[f]
             /\ \A f \in 1..made : link'[f] = link[f]
  <2> DEFINE new == Of(kind, j, root, depth)
  <2>1. new.kind = kind /\ new.of = j
    BY DEF Of
  <2>2. made' = made + 1 /\ made + 1 \in Jobs /\ link' = [link EXCEPT ![made + 1] = new]
    BY <1>0, <1>2, RemediationAssumption DEF Births, Room, Jobs
  <2> HIDE DEF new
  <2>3. link'[made + 1] = new /\ \A f \in Jobs \ {made + 1} : link'[f] = link[f]
    BY <1>0, <2>2 DEF FiledOK
  <2>4. \A f \in 1..made : f \in Jobs \ {made + 1}
    BY <1>0
  <2>5. QED
    BY <2>1, <2>2, <2>3, <2>4
<1>3. ASSUME NEW a \in Work, NEW n \in 1..2, NEW E \in SUBSET (Jobs \X Jobs), FilesBatch(a, n, E)
      PROVE  /\ busy[a].at = "file" /\ busy[a].job \in 1..made /\ made' = made + n
             /\ \A f \in Jobs : link'[f] = IF f \in made + 1..made + n
                    THEN Of("ai", busy[a].job, link[busy[a].job].root, link[busy[a].job].depth + 1)
                    ELSE link[f]
             /\ \A f \in 1..made : link'[f] = link[f]
  <2>1. /\ made' = made + n /\ busy[a].job \in 1..made
        /\ \A f \in Jobs : link'[f] = IF f \in made + 1..made + n
               THEN Of("ai", busy[a].job, link[busy[a].job].root, link[busy[a].job].depth + 1)
               ELSE link[f]
    BY <1>3, BatchFiled DEF Work
  <2>2. \A f \in 1..made : f \in Jobs /\ f \notin made + 1..made + n
    BY <1>0
  <2>3. busy[a].at = "file"
    BY <1>3 DEF FilesBatch
  <2>4. QED
    BY <2>1, <2>2, <2>3
<1>4. \A f \in 1..made : link'[f] = link[f]
  BY <1>1, <1>2, <1>3, FiledSo DEF HowFiled
<1>5. CASE \E kind \in Kinds \ {"plain", "ai"}, j \in 1..made, root \in 0..MaxJobs, depth \in Nat :
              Births(kind, j, root, depth) /\ FilesAs(kind, j)
  BY <1>2, <1>4, <1>5
<1>6. CASE \E a \in Work, n \in 1..2, E \in SUBSET (Jobs \X Jobs) : FilesBatch(a, n, E)
  BY <1>3, <1>4, <1>6
<1>7. QED
  BY <1>1, <1>5, <1>6, FiledSo DEF HowFiled

(* The depth of automated fixes *)

\* Whoever is about to file an automated fix has seen that there is room below.
DepthBounded ==
    /\ DepthKept
    /\ \A a \in Actor : busy[a].at = "file" => link[busy[a].job].depth < MaxDepth

LEMMA DepthInit == RemInit => DepthBounded
  BY RemediationAssumption DEF RemInit, DepthBounded, DepthKept, Of, Idle, Actor

LEMMA DepthStep == TypeInv /\ DepthBounded /\ [RemNext]_remVars => DepthBounded'
<1> SUFFICES ASSUME TypeInv, DepthBounded, [RemNext]_remVars PROVE DepthBounded'
  OBVIOUS
<1>0. /\ FiledOK /\ made \in Nat /\ made <= MaxJobs /\ \A j \in 1..made : j \in Jobs
      /\ \A a \in Actor : busy[a].at \notin {"idle", "scan"} => busy[a].job \in 1..made
  BY NamedJobs DEF TypeInv
<1>1. \A f \in 1..made : link'[f] = link[f]
  BY LinksAfter
<1>2. \A a \in Actor : busy'[a].at = "file" => link'[busy'[a].job].depth < MaxDepth
  BY <1>0, <1>1, HowEntered DEF Enters, Guarded, Fixed, DepthBounded
<1>3. ASSUME NEW f \in Jobs, link'[f].kind = "ai"
      PROVE  link'[f].depth <= MaxDepth /\ link'[f].root = link'[link'[f].of].root
  <2>1. CASE link'[f] = link[f]
    <3>1. link[f].of \in 1..made
      BY <1>0, <1>3, <2>1 DEF FiledOK
    <3>2. link'[link[f].of] = link[link[f].of]
      BY <1>1, <3>1
    <3>3. QED
      BY <1>3, <2>1, <3>2 DEF DepthBounded, DepthKept
  <2>2. CASE link'[f] # link[f]
    <3>1. ~UNCHANGED <<made, link>>
      BY <2>2
    <3>2. ~\E kind \in Kinds \ {"plain", "ai"}, j \in 1..made :
              /\ FilesAs(kind, j) /\ made' = made + 1 /\ made + 1 \in Jobs
              /\ link'[made + 1].kind = kind /\ link'[made + 1].of = j
              /\ \A g \in Jobs \ {made + 1} : link'[g] = link[g]
      BY <1>3, <2>2
    <3>3. PICK a \in Work, n \in 1..2 :
              LET new == Of("ai", busy[a].job, link[busy[a].job].root, link[busy[a].job].depth + 1)
              IN  /\ busy[a].at = "file" /\ busy[a].job \in 1..made /\ made' = made + n
                  /\ \A g \in Jobs : link'[g] = IF g \in made + 1..made + n THEN new ELSE link[g]
      BY <3>1, <3>2, LinksAfter
    <3>4. link'[f] = Of("ai", busy[a].job, link[busy[a].job].root, link[busy[a].job].depth + 1)
      BY <2>2, <3>3
    <3>5. /\ link'[f].of = busy[a].job /\ link'[f].root = link[busy[a].job].root
          /\ link'[f].depth = link[busy[a].job].depth + 1
      BY <3>4 DEF Of
    <3>6. link[busy[a].job].depth < MaxDepth /\ link[busy[a].job].depth \in Nat
      BY <1>0, <3>3 DEF DepthBounded, FiledOK, Links, Work, Actor
    <3>7. link'[busy[a].job] = link[busy[a].job]
      BY <1>1, <3>3
    <3>8. QED
      BY <3>5, <3>6, <3>7, RemediationAssumption
  <2>3. QED
    BY <2>1, <2>2
<1>4. QED
  BY <1>2, <1>3 DEF DepthBounded, DepthKept

\* An automated fix is no deeper than the limit and stays in the lineage of what it
\* fixes, whatever people hand on in between.
THEOREM FixesNotDeeper == RemSpec => []DepthKept
<1>1. RemInit => TypeInv /\ DepthBounded
  BY TypeInit, DepthInit
<1>2. TypeInv /\ DepthBounded /\ [RemNext]_remVars => (TypeInv /\ DepthBounded)'
  BY TypeStep, DepthStep
<1>3. DepthBounded => DepthKept
  BY DEF DepthBounded
<1>4. QED
  BY <1>1, <1>2, <1>3, PTL DEF RemSpec

-----------------------------------------------------------------------------
(* One fix for each failed deployment *)

\* How leaders come and go.
HowLed ==
    \/ UNCHANGED <<leads, doubled>>
    \/ \E l \in Leader : leads' = leads \union {l} /\ doubled' = (doubled \/ leads # {})
    \/ \E a \in Actor : leads' = leads \ {a} /\ UNCHANGED doubled /\ busy'[a] = Idle

LEMMA LedSo == TypeInv /\ [RemNext]_remVars => HowLed
<1> SUFFICES ASSUME TypeInv, [RemNext]_remVars PROVE HowLed
  OBVIOUS
<1>0. TypeInv /\ [RemNext]_remVars
  OBVIOUS
<1>1. DOMAIN busy = Actor
  BY DEF TypeInv, BusyOK
<1>2. QED
  <2>1. ASSUME NEW l \in Leader, Elected(l) PROVE HowLed
    BY <2>1, <1>1
       DEF Elected, rows, filed, counts, HowLed, leading
  <2>2. ASSUME NEW l \in Leader, Scans(l) PROVE HowLed
    BY <2>2, <1>1
       DEF Scans, Idle, rows, filed, counts, Nobody, HowLed, leading
  <2>3. ASSUME NEW l \in Leader, NEW j \in Jobs, NEW d \in Jobs, Blocks(l, j, d) PROVE HowLed
    BY <2>3, <1>1
       DEF Blocks, Nobody, counts, HowLed, leading
  <2>4. ASSUME LosesLock PROVE HowLed
    BY <2>4, <1>1
       DEF LosesLock, rows, filed, counts, HowLed, leading
  <2>5. ASSUME NEW a \in Actor, Dies(a) PROVE HowLed
    BY <2>5, <1>1
       DEF Dies, Idle, rows, filed, counts, Nobody, HowLed, leading
  <2>6. ASSUME NEW a \in Leader \union Worker, Ends(a) PROVE HowLed
    BY <2>6, <1>1
       DEF Ends, Nobody, Idle, rows, filed, counts, HowLed, leading
  <2>7. ASSUME NEW a \in Leader \union Worker, Counts(a) PROVE HowLed
    BY <2>7, <1>1
       DEF Counts, rows, filed, HowLed, leading
  <2>8. ASSUME NEW a \in Leader \union Worker, Requeues(a) PROVE HowLed
    BY <2>8, <1>1
       DEF Requeues, filed, counts, HowLed, leading
  <2>9. ASSUME NEW a \in Leader \union Worker, Depends(a) PROVE HowLed
    BY <2>9, <1>1
       DEF Depends, rows, filed, counts, HowLed, leading
  <2>10. ASSUME NEW a \in Leader \union Worker, FilesDeployFix(a) PROVE HowLed
    BY <2>10, <1>1
       DEF FilesDeployFix, counts, HowLed, leading
  <2>11. ASSUME NEW a \in Leader \union Worker, FilesHeadsFix(a) PROVE HowLed
    BY <2>11, <1>1
       DEF FilesHeadsFix, counts, HowLed, leading
  <2>12. ASSUME NEW a \in Leader \union Worker, ConsultsLast(a) PROVE HowLed
    BY <2>12, <1>1
       DEF ConsultsLast, rows, filed, counts, HowLed, leading
  <2>13. ASSUME NEW a \in Leader \union Worker, Escalates(a) PROVE HowLed
    BY <2>13, <1>1
       DEF Escalates, rows, filed, HowLed, leading
  <2>14. ASSUME NEW a \in Leader \union Worker, AdvisesRetry(a) PROVE HowLed
    BY <2>14, <1>1
       DEF AdvisesRetry, Advised, rows, filed, HowLed, leading
  <2>15. ASSUME NEW a \in Leader \union Worker, AdvisesFix(a) PROVE HowLed
    BY <2>15, <1>1
       DEF AdvisesFix, Advised, rows, filed, HowLed, leading
  <2>16. ASSUME NEW a \in Leader \union Worker, FindsConflict(a) PROVE HowLed
    BY <2>16, <1>1
       DEF FindsConflict, rows, filed, counts, HowLed, leading
  <2>17. ASSUME NEW a \in Leader \union Worker, SplitsSaved(a) PROVE HowLed
    BY <2>17, <1>1
       DEF SplitsSaved, counts, HowLed, leading
  <2>18. ASSUME NEW a \in Leader \union Worker, RepointsSaved(a) PROVE HowLed
    BY <2>18, <1>1
       DEF RepointsSaved, rows, filed, counts, HowLed, leading
  <2>19. ASSUME NEW a \in Leader \union Worker, SupersedesFailed(a) PROVE HowLed
    BY <2>19, <1>1
       DEF SupersedesFailed, counts, HowLed, leading
  <2>20. ASSUME NEW a \in Leader \union Worker, NEW n \in 1..2, NEW E \in SUBSET (IF n = 2 THEN {<<made + 2, made + 1>>} ELSE {}), FilesBatch(a, n, E) PROVE HowLed
    BY <2>20, <1>1
       DEF FilesBatch, Room, Of, counts, HowLed, leading
  <2>21. ASSUME NEW a \in Leader \union Worker, NEW j \in Jobs, RemediatesTransient(a, j) PROVE HowLed
    BY <2>21, <1>1
       DEF RemediatesTransient, Picked, Counted, Exhausted, rows, filed, counts, HowLed, leading
  <2>22. ASSUME NEW a \in Leader \union Worker, NEW j \in Jobs, RemediatesMerge(a, j) PROVE HowLed
    BY <2>22, <1>1
       DEF RemediatesMerge, Picked, Counted, Exhausted, rows, filed, counts, HowLed, leading
  <2>23. ASSUME NEW a \in Leader \union Worker, NEW j \in Jobs, RemediatesEnvironment(a, j) PROVE HowLed
    BY <2>23, <1>1
       DEF RemediatesEnvironment, Picked, Counted, Exhausted, rows, filed, counts, HowLed, leading
  <2>24. ASSUME NEW a \in Leader \union Worker, NEW j \in Jobs, RemediatesBlocked(a, j) PROVE HowLed
    BY <2>24, <1>1
       DEF RemediatesBlocked, Picked, StillBlocked, rows, filed, counts, Counted, Exhausted, HowLed, leading
  <2>25. ASSUME NEW a \in Leader \union Worker, NEW j \in Jobs, RemediatesGate(a, j) PROVE HowLed
    BY <2>25, <1>1
       DEF RemediatesGate, Picked, counts, HowLed, leading
  <2>26. ASSUME NEW a \in Leader \union Worker, NEW j \in Jobs, RemediatesDeploy(a, j) PROVE HowLed
    BY <2>26, <1>1
       DEF RemediatesDeploy, Picked, rows, filed, counts, HowLed, leading
  <2>27. ASSUME NEW a \in Leader \union Worker, NEW j \in Jobs, RemediatesHeads(a, j) PROVE HowLed
    BY <2>27, <1>1
       DEF RemediatesHeads, Picked, rows, filed, counts, HowLed, leading
  <2>28. ASSUME NEW a \in Leader \union Worker, NEW j \in Jobs, Consults(a, j) PROVE HowLed
    BY <2>28, <1>1
       DEF Consults, Picked, rows, filed, counts, HowLed, leading
  <2>29. ASSUME NEW p \in Person, FixesForward(p) PROVE HowLed
    BY <2>29, <1>1
       DEF FixesForward, counts, HowLed, leading
  <2>30. ASSUME NEW p \in Person, Records(p) PROVE HowLed
    BY <2>30, <1>1
       DEF Records, Idle, rows, counts, Nobody, HowLed, leading
  <2>31. ASSUME NEW p \in Person, NEW j \in Jobs, Checks(p, j) PROVE HowLed
    BY <2>31, <1>1
       DEF Checks, Idle, rows, counts, Nobody, HowLed, leading
  <2>32. ASSUME NEW j \in Jobs, Retries(j) PROVE HowLed
    BY <2>32, <1>1
       DEF Retries, filed, counts, HowLed, leading
  <2>33. ASSUME NEW j \in Jobs, Cancels(j) PROVE HowLed
    BY <2>33, <1>1
       DEF Cancels, Live, counts, HowLed, leading
  <2>34. ASSUME NEW j \in Jobs, Resolves(j) PROVE HowLed
    BY <2>34, <1>1
       DEF Resolves, filed, counts, HowLed, leading
  <2>35. ASSUME NEW j \in Jobs, Claims(j) PROVE HowLed
    BY <2>35, <1>1
       DEF Claims, filed, counts, HowLed, leading
  <2>36. ASSUME NEW j \in Jobs, NEW c \in Causes, Fails(j, c) PROVE HowLed
    BY <2>36, <1>1
       DEF Fails, counts, HowLed, leading
  <2>37. ASSUME NEW w \in Worker, NEW j \in Jobs, Finishes(w, j) PROVE HowLed
    BY <2>37, <1>1
       DEF Finishes, Idle, counts, Nobody, HowLed, leading
  <2>38. ASSUME NEW w \in Worker, NEW j \in Jobs, FinishesDeploy(w, j) PROVE HowLed
    BY <2>38, <1>1
       DEF FinishesDeploy, Idle, counts, Nobody, HowLed, leading
  <2>39. ASSUME UNCHANGED remVars PROVE HowLed
    BY <2>39, <1>1
       DEF remVars, HowLed, leading
  <2>40. QED
    BY <1>0, <2>1, <2>2, <2>3, <2>4, <2>5, <2>6, <2>7, <2>8, <2>9, <2>10, <2>11, <2>12, <2>13, <2>14, <2>15, <2>16, <2>17, <2>18, <2>19, <2>20, <2>21, <2>22, <2>23, <2>24, <2>25, <2>26, <2>27, <2>28, <2>29, <2>30, <2>31, <2>32, <2>33, <2>34, <2>35, <2>36, <2>37, <2>38, <2>39
       DEF RemNext, Remediates, Continues

\* Whoever is at something that needs the leader is one; while there has never been a
\* second, the check it made still holds.
FixesChecked ==
    /\ \A a \in Actor : busy[a].at \in Fixed => a \in Leader
    /\ \A l \in Leader : busy[l].at # "idle" => l \in leads
    /\ ~doubled => \A l, m \in leads : l = m
    /\ ~doubled => \A a \in Actor : busy[a].at \in Fixed => MayFix(busy[a].job, busy[a].at)
    /\ OneFixEach

LEMMA FixesInit == RemInit => FixesChecked
<1> SUFFICES ASSUME RemInit PROVE FixesChecked
  OBVIOUS
<1>1. \A a \in Actor : busy[a].at = "idle"
  BY DEF RemInit, Idle
<1>2. \A kind \in Fixed : FixesOf(kind) = {} /\ \A j \in Jobs : Fixes(j, kind) = {}
  BY DEF RemInit, FixesOf, Fixes, Of, Fixed
<1>3. OneFixEach
  BY <1>2, FS_EmptySet, RemediationAssumption DEF OneFixEach
<1>4. QED
  BY <1>1, <1>3, RemediationAssumption DEF RemInit, FixesChecked, Fixed, Actor

\* Filing something else leaves the fixes of a kind as they are.
LEMMA FixesSame ==
    ASSUME TypeInv, NEW kind \in Fixed, NEW D \in SUBSET Jobs, \A d \in D : d \notin 1..made,
           \A f \in Jobs \ D : link'[f] = link[f], \A d \in D : link'[d].kind # kind
    PROVE  /\ FixesOf(kind)' = FixesOf(kind)
           /\ \A j : Fixes(j, kind)' = Fixes(j, kind)
           /\ \A f \in FixesOf(kind) : link'[f] = link[f] /\ f \in 1..made /\ link[f].of \in 1..made
<1>1. \A f \in Jobs : link[f].kind = kind => f \in 1..made /\ link[f].of \in 1..made
  BY RemediationAssumption DEF TypeInv, FiledOK, Fixed, Jobs
<1>2. \A f \in Jobs : link'[f].kind = kind <=> link[f].kind = kind
  BY <1>1
<1>3. \A f \in Jobs : link[f].kind = kind => link'[f] = link[f]
  BY <1>1
<1>4. QED
  BY <1>1, <1>2, <1>3 DEF FixesOf, Fixes

LEMMA FixesFinite == \A kind : IsFiniteSet(FixesOf(kind)) /\ Cardinality(FixesOf(kind)) \in Nat
<1>1. IsFiniteSet(Jobs)
  BY FS_Interval, RemediationAssumption DEF Jobs
<1>2. \A kind : FixesOf(kind) \subseteq Jobs
  BY DEF FixesOf
<1>3. QED
  BY <1>1, <1>2, FS_Subset, FS_CardinalityType

\* No more than one fix for each job, none for a fix, no more than the cap.
OneFixOf(kind) ==
    /\ Cardinality(FixesOf(kind)) <= FixCap
    /\ \A j \in Jobs : Cardinality(Fixes(j, kind)) <= 1
    /\ \A f \in FixesOf(kind) : link[link[f].of].kind # kind

LEMMA FixesStep == TypeInv /\ FixesChecked /\ [RemNext]_remVars => FixesChecked'
<1> SUFFICES ASSUME TypeInv, FixesChecked, [RemNext]_remVars PROVE FixesChecked'
  OBVIOUS
<1>0. /\ FiledOK /\ BusyOK /\ made \in Nat /\ \A j \in 1..made : j \in Jobs
      /\ \A a \in Actor : busy[a].at \notin {"idle", "scan"} => busy[a].job \in 1..made
  BY NamedJobs DEF TypeInv
<1>1. \A a \in Actor : busy'[a].at \in Fixed => a \in Leader
  <2> SUFFICES ASSUME NEW a \in Actor, busy'[a].at \in Fixed PROVE a \in Leader
    OBVIOUS
  <2>1. CASE busy[a].at \in Fixed
    BY <2>1 DEF FixesChecked
  <2>2. CASE busy[a].at \notin Fixed
    <3>1. busy'[a].job \in 1..made /\ busy[a].seen[busy'[a].job] = busy'[a].at
      BY <2>2, HowEntered DEF Enters, Guarded, Fixed
    <3>2. busy[a].seen[busy'[a].job] \in Sees(a)
      BY <1>0, <3>1 DEF BusyOK, Sound, Fixed
    <3>3. QED
      BY <3>1, <3>2 DEF Sees, Fixed
  <2>3. QED
    BY <2>1, <2>2
<1>2. \A l \in Leader : busy'[l].at # "idle" => l \in leads'
  BY HowEntered, LedSo DEF Leads, HowLed, FixesChecked, Idle, Actor
<1>3. ~doubled' => ~doubled
  BY LedSo DEF HowLed, TypeInv, RowsOK
<1>4. ~doubled' => \A l, m \in leads' : l = m
  BY <1>3, LedSo DEF HowLed, FixesChecked, TypeInv, RowsOK
<1>5. \A f \in 1..made : link'[f] = link[f]
  BY LinksAfter
<1>6. ASSUME ~doubled'
      PROVE  /\ \A a \in Actor : busy'[a].at \in Fixed => MayFix(busy[a].job, busy[a].at)'
             /\ \A kind \in Fixed : OneFixOf(kind)'
  <2>0. /\ \A a \in Actor : busy[a].at \in Fixed => MayFix(busy[a].job, busy[a].at)
        /\ \A kind \in Fixed : OneFixOf(kind)
    BY <1>3, <1>6 DEF FixesChecked, OneFixEach, OneFixOf
  <2>1. ASSUME \A kind \in Fixed :
                 /\ FixesOf(kind)' = FixesOf(kind)
                 /\ \A j : Fixes(j, kind)' = Fixes(j, kind)
                 /\ \A f \in FixesOf(kind) : link'[f] = link[f] /\ f \in 1..made /\ link[f].of \in 1..made
        PROVE  /\ \A a \in Actor : busy'[a].at \in Fixed => MayFix(busy[a].job, busy[a].at)'
               /\ \A kind \in Fixed : OneFixOf(kind)'
    <3>1. ASSUME NEW a \in Actor, busy'[a].at \in Fixed
          PROVE  MayFix(busy[a].job, busy[a].at)'
      <4>1. busy'[a].job \in 1..made /\ MayFix(busy'[a].job, busy'[a].at)
        BY <1>0, <2>0, <3>1, HowEntered DEF Enters, Guarded, Fixed
      <4>2. link'[busy'[a].job] = link[busy'[a].job]
        BY <1>5, <4>1
      <4>3. /\ FixesOf(busy[a].at)' = FixesOf(busy'[a].at)
            /\ Fixes(busy[a].job, busy[a].at)' = Fixes(busy'[a].job, busy'[a].at)
        BY <2>1, <3>1
      <4>4. QED
        BY <4>1, <4>2, <4>3 DEF MayFix
    <3>2. ASSUME NEW kind \in Fixed PROVE OneFixOf(kind)'
      <4>1. \A f \in FixesOf(kind) : link'[link'[f].of] = link[link[f].of]
        BY <1>5, <2>1, <3>2
      <4>2. QED
        BY <2>0, <2>1, <3>2, <4>1 DEF OneFixOf
    <3>3. QED
      BY <3>1, <3>2
  <2>2. CASE UNCHANGED <<made, link>>
    <3>1. \A kind \in Fixed :
            /\ FixesOf(kind)' = FixesOf(kind)
            /\ \A j : Fixes(j, kind)' = Fixes(j, kind)
            /\ \A f \in FixesOf(kind) : link'[f] = link[f] /\ f \in 1..made /\ link[f].of \in 1..made
      <4> TAKE kind \in Fixed
      <4>1. {} \in SUBSET Jobs /\ (\A d \in {} : d \notin 1..made /\ link'[d].kind # kind)
            /\ \A f \in Jobs \ {} : link'[f] = link[f]
        BY <2>2
      <4>2. QED
        BY <4>1, FixesSame
    <3>2. QED
      BY <2>1, <3>1
  <2>3. ASSUME NEW a \in Work, NEW n \in 1..2, made' = made + n,
               \A f \in Jobs : link'[f] = IF f \in made + 1..made + n
                   THEN Of("ai", busy[a].job, link[busy[a].job].root, link[busy[a].job].depth + 1)
                   ELSE link[f]
        PROVE  /\ \A c \in Actor : busy'[c].at \in Fixed => MayFix(busy[c].job, busy[c].at)'
               /\ \A kind \in Fixed : OneFixOf(kind)'
    <3> DEFINE D == {f \in Jobs : f \in made + 1..made + n}
    <3>1. D \in SUBSET Jobs /\ (\A d \in D : d \notin 1..made) /\ \A f \in Jobs \ D : link'[f] = link[f]
      BY <1>0, <2>3
    <3>2. \A d \in D : link'[d].kind = "ai"
      BY <2>3 DEF Of
    <3> HIDE DEF D
    <3>3. \A kind \in Fixed :
            /\ FixesOf(kind)' = FixesOf(kind)
            /\ \A j : Fixes(j, kind)' = Fixes(j, kind)
            /\ \A f \in FixesOf(kind) : link'[f] = link[f] /\ f \in 1..made /\ link[f].of \in 1..made
      <4> TAKE kind \in Fixed
      <4>1. \A d \in D : link'[d].kind # kind
        BY <3>2 DEF Fixed
      <4>2. QED
        BY <3>1, <4>1, FixesSame
    <3>4. QED
      BY <2>1, <3>3
  <2>4. ASSUME NEW kind \in Kinds \ {"plain", "ai"}, NEW j \in 1..made, FilesAs(kind, j),
               made' = made + 1, made + 1 \in Jobs, link'[made + 1].kind = kind, link'[made + 1].of = j,
               \A f \in Jobs \ {made + 1} : link'[f] = link[f]
        PROVE  /\ \A c \in Actor : busy'[c].at \in Fixed => MayFix(busy[c].job, busy[c].at)'
               /\ \A k \in Fixed : OneFixOf(k)'
    <3>1. {made + 1} \in SUBSET Jobs /\ \A d \in {made + 1} : d \notin 1..made
      BY <1>0, <2>4
    <3>2. ASSUME NEW k \in Fixed, k # kind
          PROVE  /\ FixesOf(k)' = FixesOf(k)
                 /\ \A i : Fixes(i, k)' = Fixes(i, k)
                 /\ \A f \in FixesOf(k) : link'[f] = link[f] /\ f \in 1..made /\ link[f].of \in 1..made
      <4>1. \A d \in {made + 1} : link'[d].kind # k
        BY <2>4, <3>2
      <4>2. QED
        BY <2>4, <3>1, <3>2, <4>1, FixesSame
    <3>3. CASE kind \notin Fixed
      BY <2>1, <3>2, <3>3
    <3>4. CASE kind \in Fixed
      <4>1. PICK a \in Work : /\ busy[a].at = kind /\ busy[a].job = j /\ busy'[a].at = "depend"
                              /\ \A c \in Actor \ {a} : busy'[c] = busy[c]
        BY <2>4, <3>4 DEF FilesAs
      <4>2. \A c \in Actor : busy'[c].at \notin Fixed
        <5> SUFFICES ASSUME NEW c \in Actor, busy'[c].at \in Fixed PROVE FALSE
          OBVIOUS
        <5>1. c # a
          BY <4>1 DEF Fixed
        <5>2. busy[c].at \in Fixed
          BY <4>1, <5>1
        <5>3. a \in leads /\ c \in leads
          BY <3>4, <4>1, <5>2 DEF FixesChecked, Fixed, Work, Actor
        <5>4. QED
          BY <1>3, <1>6, <5>1, <5>3 DEF FixesChecked
      <4>3. MayFix(j, kind)
        BY <2>0, <3>4, <4>1 DEF Work, Actor
      <4>4. FixesOf(kind)' = FixesOf(kind) \union {made + 1} /\ made + 1 \notin FixesOf(kind)
        <5>1. link[made + 1].kind # kind
          BY <1>0, <2>4, <3>4 DEF FiledOK, Fixed
        <5>2. \A f \in Jobs : link'[f].kind = kind <=> f = made + 1 \/ link[f].kind = kind
          BY <2>4
        <5>3. QED
          BY <2>4, <5>1, <5>2 DEF FixesOf
      <4>5. Cardinality(FixesOf(kind)') <= FixCap
        <5>1. Cardinality(FixesOf(kind)') = Cardinality(FixesOf(kind)) + 1
          BY <4>4, FixesFinite, FS_AddElement
        <5>2. QED
          BY <4>3, <5>1, FixesFinite, RemediationAssumption DEF MayFix
      <4>6. ASSUME NEW i \in Jobs PROVE Cardinality(Fixes(i, kind)') <= 1
        <5>1. CASE i = j
          <6>1. Fixes(j, kind)' = {made + 1}
            BY <2>4, <4>3 DEF MayFix, Fixes
          <6>2. Cardinality({made + 1}) = 1
            BY FS_Singleton
          <6>3. QED
            BY <5>1, <6>1, <6>2
        <5>2. CASE i # j
          <6>1. Fixes(i, kind)' = Fixes(i, kind)
            BY <1>0, <2>4, <3>4, <5>2 DEF Fixes, FiledOK, Fixed, Jobs
          <6>2. QED
            BY <2>0, <3>4, <6>1 DEF OneFixOf
        <5>3. QED
          BY <5>1, <5>2
      <4>7. \A f \in FixesOf(kind)' : link'[link'[f].of].kind # kind
        <5> SUFFICES ASSUME NEW f \in FixesOf(kind)' PROVE link'[link'[f].of].kind # kind
          OBVIOUS
        <5>1. CASE f = made + 1
          <6>1. link'[f].of = j /\ link'[j] = link[j]
            BY <1>5, <2>4, <5>1
          <6>2. QED
            BY <4>3, <6>1 DEF MayFix
        <5>2. CASE f # made + 1
          <6>1. f \in FixesOf(kind) /\ f \in Jobs /\ link'[f] = link[f]
            BY <2>4, <4>4, <5>2 DEF FixesOf
          <6>2. link[f].of \in 1..made
            BY <1>0, <3>4, <6>1 DEF FixesOf, FiledOK, Fixed
          <6>3. link'[link[f].of] = link[link[f].of]
            BY <1>5, <6>2
          <6>4. QED
            BY <2>0, <3>4, <6>1, <6>3 DEF OneFixOf
        <5>3. QED
          BY <5>1, <5>2
      <4>8. OneFixOf(kind)'
        BY <4>5, <4>6, <4>7 DEF OneFixOf
      <4>9. ASSUME NEW k \in Fixed, k # kind PROVE OneFixOf(k)'
        <5>1. \A f \in FixesOf(k) : link'[link'[f].of] = link[link[f].of]
          BY <1>5, <3>2, <4>9
        <5>2. QED
          BY <2>0, <3>2, <4>9, <5>1 DEF OneFixOf
      <4>10. QED
        BY <4>2, <4>8, <4>9
    <3>5. QED
      BY <3>3, <3>4
  <2>5. QED
    BY <2>2, <2>3, <2>4, LinksAfter
<1>7. OneFixEach'
  BY <1>6 DEF OneFixEach, OneFixOf
<1>8. QED
  BY <1>1, <1>2, <1>4, <1>6, <1>7 DEF FixesChecked

\* Nothing locks the jobs that are counted, and still a failed deployment gets one fix
\* as long as there has never been a second leader.
THEOREM OneFixForEach == RemSpec => []OneFixEach
<1>1. RemInit => TypeInv /\ FixesChecked
  BY TypeInit, FixesInit
<1>2. TypeInv /\ FixesChecked /\ [RemNext]_remVars => (TypeInv /\ FixesChecked)'
  BY TypeStep, FixesStep
<1>3. FixesChecked => OneFixEach
  BY DEF FixesChecked
<1>4. QED
  BY <1>1, <1>2, <1>3, PTL DEF RemSpec

-----------------------------------------------------------------------------
(* Closing incidents *)

\* S holds d and is not left upwards.
Carried(d, S) == d \in S /\ \A c \in S, i \in Jobs : c > i /\ Closes(d, c, i) => i \in S

\* The climb is defined by recursion from younger to older incidents.  That there is
\* such a function is seen without induction: i is in every set that holds d and is
\* not left upwards.
LEMMA PropagatedSo ==
    ASSUME NEW d \in Jobs, NEW i \in Propagated(d)
    PROVE  \E c \in Jobs : Closes(d, c, i) /\ (c = d \/ c \in Propagated(d))
<1> DEFINE F(P) == [k \in Jobs |-> k = d \/ \E c \in Jobs : c > k /\ Closes(d, c, k) /\ P[c]]
           L == [k \in Jobs |-> \A S \in SUBSET Jobs : Carried(d, S) => k \in S]
           Passed == CHOOSE P : P = F(P)
<1>1. L = F(L)
  <2>1. ASSUME NEW k \in Jobs, F(L)[k] PROVE L[k]
    <3>1. SUFFICES ASSUME NEW S \in SUBSET Jobs, Carried(d, S) PROVE k \in S
      OBVIOUS
    <3>2. CASE k = d
      BY <3>1, <3>2 DEF Carried
    <3>3. ASSUME NEW c \in Jobs, c > k, Closes(d, c, k), L[c] PROVE k \in S
      BY <3>1, <3>3 DEF Carried
    <3>4. QED
      BY <2>1, <3>2, <3>3
  <2>2. ASSUME NEW k \in Jobs, L[k] PROVE F(L)[k]
    <3> DEFINE S == {m \in Jobs : F(L)[m]}
    <3>1. ASSUME NEW c \in S, NEW m \in Jobs, c > m, Closes(d, c, m) PROVE m \in S
      <4>1. L[c]
        BY <2>1
      <4>2. QED
        BY <3>1, <4>1
    <3>2. d \in S
      OBVIOUS
    <3> HIDE DEF S
    <3>3. Carried(d, S) /\ S \in SUBSET Jobs
      BY <3>1, <3>2 DEF Carried, S
    <3>4. k \in S
      BY <2>2, <3>3
    <3>5. QED
      BY <3>4 DEF S
  <2>3. QED
    BY <2>1, <2>2
<1>2. Passed = F(Passed)
  <2>1. \E P : P = F(P)
    BY <1>1
  <2> HIDE DEF F
  <2>2. QED
    BY <2>1
<1>3. Propagated(d) = {k \in Jobs \ {d} : Passed[k]}
  BY DEF Propagated
<1> HIDE DEF Passed
<1>4. i \in Jobs /\ i # d /\ Passed[i]
  BY <1>3
<1>5. PICK c \in Jobs : Closes(d, c, i) /\ Passed[c]
  BY <1>2, <1>4
<1>6. QED
  BY <1>3, <1>5

\* What a job that is done closes has a whole batch that is done or closed, or a
\* fix of another kind.
WholeOrDirect(i) ==
    \/ \A f \in Fixes(i, "ai") : status'[f] = "done" \/ f \in settled'
    \/ \E kind \in Direct : \E f \in Fixes(i, kind) : status'[f] = "done" \/ f \in settled'

LEMMA PropagatedWhole ==
    ASSUME TypeInv, NEW w, NEW d \in Jobs, Finishes(w, d), NEW i \in settled' \ settled
    PROVE  WholeOrDirect(i)
<1>1. /\ settled' = settled \union Propagated(d) /\ status'[d] = "done"
      /\ \A k \in Jobs : status[k] = "done" => status'[k] = "done"
  BY DEF Finishes, TypeInv, StatusOK
<1>2. PICK c \in Jobs : Closes(d, c, i) /\ (c = d \/ c \in Propagated(d))
  BY <1>1, PropagatedSo
<1>3. status'[c] = "done" \/ c \in settled'
  BY <1>1, <1>2
<1>4. CASE link[c].kind \in Direct
  BY <1>2, <1>3, <1>4 DEF Closes, Fixes, WholeOrDirect
<1>5. CASE link[c].kind \notin Direct
  <2>1. \A f \in Fixes(i, "ai") : Settled(f) \/ f \in {c, d}
    BY <1>2, <1>5 DEF Closes, Fixes
  <2>2. QED
    BY <1>1, <1>3, <2>1 DEF Fixes, Settled, WholeOrDirect
<1>6. QED
  BY <1>4, <1>5

\* No other action settles a job while one becomes done.
LEMMA SettlesSo ==
    ASSUME TypeInv, [RemNext]_remVars, NEW d \in Jobs, status[d] = "running", status'[d] = "done",
           settled' \ settled # {}
    PROVE  \E w \in Worker, j \in Jobs : Finishes(w, j)
<1>0. status \in [Jobs -> Statuses]
  BY DEF TypeInv, StatusOK
<1> SUFFICES ASSUME ~\E w \in Worker, j \in Jobs : Finishes(w, j) PROVE FALSE
  OBVIOUS
<1>1. ASSUME NEW l \in Leader, Elected(l) \/ Scans(l) \/ \E j, k \in Jobs : Blocks(l, j, k) PROVE settled' = settled
  BY <1>1 DEF Elected, Scans, Blocks, rows
<1>2. ASSUME LosesLock \/ \E a \in Actor : Dies(a) PROVE settled' = settled
  BY <1>2 DEF LosesLock, Dies, rows
<1>3. ASSUME NEW a \in Leader \union Worker, NEW j \in Jobs, Remediates(a, j) PROVE settled' = settled
  BY <1>3 DEF Remediates, RemediatesTransient, RemediatesMerge, RemediatesEnvironment, RemediatesBlocked,
     RemediatesGate, RemediatesDeploy, RemediatesHeads, Consults, Counted, Exhausted, rows
<1>4. ASSUME NEW a \in Leader \union Worker, Continues(a) PROVE settled' \subseteq settled
  BY <1>4 DEF Continues, Counts, Requeues, Depends, FilesDeployFix, FilesHeadsFix, ConsultsLast, Escalates,
     AdvisesRetry, AdvisesFix, Advised, FindsConflict, FilesBatch, SplitsSaved, RepointsSaved, SupersedesFailed, rows
<1>5. ASSUME NEW a \in Leader \union Worker, Ends(a) PROVE settled' = settled
  BY <1>5 DEF Ends, rows
<1>6. ASSUME NEW p \in Person, FixesForward(p) \/ Records(p) \/ \E j \in Jobs : Checks(p, j) PROVE settled' = settled
  BY <1>6 DEF FixesForward, Records, Checks, rows
<1>7. ASSUME NEW j \in Jobs, Retries(j) \/ Cancels(j) \/ Claims(j) \/ \E c \in Causes : Fails(j, c) PROVE settled' = settled
  BY <1>7 DEF Retries, Cancels, Claims, Fails
<1>8. ASSUME NEW j \in Jobs, Resolves(j) PROVE FALSE
  BY <1>8 DEF Resolves
<1>9. ASSUME NEW w \in Worker, NEW j \in Jobs, FinishesDeploy(w, j) PROVE settled' = settled
  BY <1>9 DEF FinishesDeploy
<1>10. RemNext
  BY DEF remVars, rows
<1>11. QED
  BY <1>1, <1>2, <1>3, <1>4, <1>5, <1>6, <1>7, <1>8, <1>9, <1>10 DEF RemNext

\* An incident is closed by the batch the analyst filed for it only when the whole batch
\* is done or closed itself, however far up a job that is done carries.
THEOREM WholeBatchCloses == RemSpec => ClosedWhole
<1>1. TypeInv /\ [RemNext]_remVars =>
        [\A i \in settled' \ settled :
           LET done(f) == status'[f] = "done" \/ f \in settled'
           IN  (\E d \in Jobs : status[d] = "running" /\ status'[d] = "done") =>
                 \/ \A f \in Fixes(i, "ai") : done(f)
                 \/ \E kind \in Direct : \E f \in Fixes(i, kind) : done(f)]_remVars
  <2> SUFFICES ASSUME TypeInv, [RemNext]_remVars, NEW i \in settled' \ settled,
                      NEW d \in Jobs, status[d] = "running", status'[d] = "done"
               PROVE  WholeOrDirect(i)
    BY DEF WholeOrDirect
  <2>1. PICK w \in Worker, j \in Jobs : Finishes(w, j)
    BY SettlesSo
  <2>2. QED
    BY <2>1, PropagatedWhole
<1>2. QED
  BY <1>1, TypesKept, PTL DEF RemSpec, ClosedWhole

=============================================================================
