---------------------------- MODULE Fleet_proofs ----------------------------
(***************************************************************************)
(* Artifacts and Fleet for every number of processes, incidents and        *)
(* remediations and every bound.                                           *)
(*                                                                         *)
(* A collection deletes what it has listed, and a scan what it has read as *)
(* failed, however long ago: so what they list must have ended, and stay   *)
(* so, and no live remediation may still need it.  That is true when they  *)
(* read the job table, and the schedules that break it later are excluded  *)
(* by hypothesis.                                                          *)
(*                                                                         *)
(* The git artifacts do not depend on who takes a step: ArtStep has what   *)
(* the processes may do to them, SecureStep what they do as long as the    *)
(* lists of the scans are true.                                            *)
(***************************************************************************)
EXTENDS Fleet, WellFoundedInduction, TLAPS

LEMMA HasMinimum ==
    ASSUME NEW T \in SUBSET Nat, T # {}
    PROVE  \E x \in T : \A y \in T : ~(y < x)
<1>1. IsWellFoundedOn(OpToRel(<, Nat), Nat)
  BY NatLessThanWellFounded
<1>2. \E x \in T : \A y \in T : ~(<<y, x>> \in OpToRel(<, Nat))
  BY <1>1, WFMin
<1>3. \A x, y \in T : <<y, x>> \in OpToRel(<, Nat) <=> y < x
  BY DEF OpToRel
<1>4. QED
  BY <1>2, <1>3

LEMMA LowestIn ==
    ASSUME NEW T \in SUBSET Job, T # {}
    PROVE  Lowest(T) \in T
<1>1. T \in SUBSET Nat
  BY ArtifactAssumption DEF Job
<1>2. \E n \in T : \A o \in T : n <= o
  BY <1>1, HasMinimum
<1>3. QED
  BY <1>2 DEF Lowest

-----------------------------------------------------------------------------
(* What a step does to the artifacts *)

\* A process lets go of its collection, its slot, or neither.
Yields(p) ==
    /\ sweep' = sweep \/ sweep' = [sweep EXCEPT ![p] = NoSweep]
    /\ slot' = slot \/ slot' = [slot EXCEPT ![p] = Idle]
    /\ UNCHANGED <<rows, git>>

Lists(p) ==
    /\ SweepBegins(p, Clone) \/ SweepBegins(p, None)
    /\ UNCHANGED <<rows, git, slot>>

Sticks(p) ==
    /\ slot[p].at \in {"work", "gate"}
    /\ At(p, "hung")
    /\ UNCHANGED <<rows, git, sweep>>

FilesSome(i) ==
    \E W \in SUBSET Fix : \E deps \in Orders(W), last \in W : Files(i, W, deps, last)

SlotStep(p) ==
    \/ \E j \in Job : Claims(p, j)
    \/ Clears(p) \/ Creates(p) \/ Seeds(p) \/ Works(p) \/ GateFails(p) \/ Lands(p)

JobStep(j) ==
    \/ Cancel(j) \/ Retry(j) \/ Archive(j) \/ Expires(j) \/ Requeues(j) \/ Unblocks(j)
    \/ \E f \in Fix : Blocks(j, f)

Drops(j) == DropsTree(j) \/ DropsBranch(j)

\* What a scan does without a look at the row.
BlindStep ==
    \/ \E j \in Job : Drops(j)
    \/ \E i \in Incident : FilesSome(i)

\* The same where the row still says what the scan has read.
TimelyStep ==
    \/ \E j \in Job : Drops(j) /\ status[j] = "FAILED" /\ why[j] = "build"
    \/ \E i \in Incident : FilesSome(i) /\ why[i] = "gate"

GuardedStep ==
    \/ \E p \in Proc : \/ Yields(p) \/ Lists(p) \/ Sticks(p) \/ SlotStep(p)
                       \/ SweepsBranch(p) \/ SweepsTree(p)
    \/ \E j \in Job : JobStep(j)

Spends == UNCHANGED trouble \/ Hit

ArtStep    == (GuardedStep \/ BlindStep) /\ Spends
SecureStep == (GuardedStep \/ TimelyStep) /\ Spends

LEMMA WritesTyped ==
    ASSUME RowTypes, NEW j, NEW st \in {"PENDING", "FAILED", "DONE", "CANCELLED"},
           NEW b \in BOOLEAN, NEW w \in {"none", "build", "gate", "source"},
           NEW d \in Fix \union {None}, Writes(j, st, b, w, d)
    PROVE  RowTypes'
  BY DEF RowTypes, Writes

LEMMA EndsTyped ==
    ASSUME RowTypes, NEW p, NEW st \in {"PENDING", "FAILED", "DONE", "CANCELLED"},
           NEW b \in BOOLEAN, NEW w \in {"none", "build", "gate", "source"}, Ends(p, st, b, w)
    PROVE  RowTypes'
<1>1. CASE Running(p)
  <2>1. Writes(slot[p].job, st, b, w, None)
    BY <1>1 DEF Ends, Saves
  <2>2. QED
    BY <2>1, WritesTyped
<1>2. CASE ~Running(p)
  BY <1>2 DEF Ends, RowTypes, jobrow
<1>3. QED
  BY <1>1, <1>2

LEMMA ArtTypeStep == ArtifactTypeOK /\ ArtStep => ArtifactTypeOK'
<1> SUFFICES ASSUME ArtifactTypeOK, ArtStep PROVE ArtifactTypeOK'
  OBVIOUS
<1>0. /\ RowTypes /\ LinkTypes /\ GitTypes /\ SlotTypes /\ SweepTypes /\ trouble \in 0..Trouble
      /\ ArtStep /\ (UNCHANGED trouble \/ Hit)
  BY DEF ArtStep, Spends, ArtifactTypeOK
<1>1. trouble' \in 0..Trouble
  BY <1>0, ArtifactAssumption DEF Hit
<1>2. RowTypes'
  <2>1. ASSUME NEW p \in Proc, Yields(p) PROVE RowTypes'
    BY <2>1, <1>0
       DEF Yields, jobrow, links, rows, git, RowTypes, Job
  <2>2. ASSUME NEW p \in Proc, Lists(p) PROVE RowTypes'
    BY <2>2, <1>0
       DEF Lists, SweepBegins, Orphans, OnDisk, Place, jobrow, links, rows, git, RowTypes, Job
  <2>3. ASSUME NEW p \in Proc, Sticks(p) PROVE RowTypes'
    BY <2>3, <1>0
       DEF Sticks, At, jobrow, links, rows, git, RowTypes, Job
  <2>4. ASSUME NEW p \in Proc, NEW j \in Job, Claims(p, j) PROVE RowTypes'
    BY <2>4, <1>0
       DEF Claims, links, git, RowTypes, Job
  <2>5. ASSUME NEW p \in Proc, Clears(p) PROVE RowTypes'
    BY <2>5, <1>0
       DEF Clears, At, jobrow, links, rows, RowTypes, Job
  <2>6. ASSUME NEW p \in Proc, Creates(p) PROVE RowTypes'
    BY <2>6, <1>0, EndsTyped DEF Creates, RowTypes, jobrow, rows
  <2>7. ASSUME NEW p \in Proc, Seeds(p) PROVE RowTypes'
    BY <2>7, <1>0, EndsTyped DEF Seeds, RowTypes, jobrow, rows
  <2>8. ASSUME NEW p \in Proc, Works(p) PROVE RowTypes'
    BY <2>8, <1>0, EndsTyped DEF Works, RowTypes, jobrow, rows
  <2>9. ASSUME NEW p \in Proc, GateFails(p) PROVE RowTypes'
    BY <2>9, <1>0, EndsTyped DEF GateFails, RowTypes, jobrow, rows
  <2>10. ASSUME NEW p \in Proc, Lands(p) PROVE RowTypes'
    BY <2>10, <1>0, EndsTyped DEF Lands, RowTypes, jobrow, rows
  <2>11. ASSUME NEW p \in Proc, SweepsBranch(p) PROVE RowTypes'
    BY <2>11, <1>0
       DEF SweepsBranch, jobrow, links, rows, RowTypes, Job
  <2>12. ASSUME NEW p \in Proc, SweepsTree(p) PROVE RowTypes'
    BY <2>12, <1>0
       DEF SweepsTree, jobrow, links, rows, RowTypes, Job
  <2>13. ASSUME NEW j \in Job, Cancel(j) PROVE RowTypes'
    BY <2>13, <1>0
       DEF Cancel, Saves, Writes, links, git, RowTypes, Job, Live
  <2>14. ASSUME NEW j \in Job, Retry(j) PROVE RowTypes'
    BY <2>14, <1>0
       DEF Retry, Saves, Writes, links, git, RowTypes, Job, Live
  <2>15. ASSUME NEW j \in Job, Archive(j) PROVE RowTypes'
    BY <2>15, <1>0
       DEF Archive, jobrow, RowTypes, Job
  <2>16. ASSUME NEW j \in Job, Expires(j) PROVE RowTypes'
    BY <2>16, <1>0
       DEF Expires, links, git, RowTypes, Job
  <2>17. ASSUME NEW j \in Job, Requeues(j) PROVE RowTypes'
    BY <2>17, <1>0, WritesTyped DEF Requeues, Saves, RowTypes, jobrow
  <2>18. ASSUME NEW j \in Job, Unblocks(j) PROVE RowTypes'
    BY <2>18, <1>0
       DEF Unblocks, Saves, Writes, links, git, RowTypes, Job, Live
  <2>19. ASSUME NEW j \in Job, NEW f \in Fix, Blocks(j, f) PROVE RowTypes'
    BY <2>19, <1>0
       DEF Blocks, Writes, links, git, RowTypes, Job, Live
  <2>20. ASSUME NEW i \in Incident, FilesSome(i) PROVE RowTypes'
    BY <2>20, <1>0
       DEF FilesSome, Files, Orders, git, RowTypes, Job
  <2>21. ASSUME NEW j \in Job, Drops(j) PROVE RowTypes'
    BY <2>21, <1>0
       DEF Drops, DropsTree, DropsBranch, jobrow, links, rows, git, RowTypes, Job
  <2>22. QED
    BY <2>1, <2>2, <2>3, <2>4, <2>5, <2>6, <2>7, <2>8, <2>9, <2>10, <2>11, <2>12, <2>13, <2>14,
       <2>15, <2>16, <2>17, <2>18, <2>19, <2>20, <2>21, <1>0
       DEF ArtStep, GuardedStep, BlindStep, SlotStep, JobStep
<1>3. LinkTypes'
  <2>1. ASSUME NEW p \in Proc, Yields(p) PROVE LinkTypes'
    BY <2>1, <1>0
       DEF Yields, jobrow, links, rows, git, LinkTypes, Job
  <2>2. ASSUME NEW p \in Proc, Lists(p) PROVE LinkTypes'
    BY <2>2, <1>0
       DEF Lists, SweepBegins, Orphans, OnDisk, Place, jobrow, links, rows, git, LinkTypes, Job
  <2>3. ASSUME NEW p \in Proc, Sticks(p) PROVE LinkTypes'
    BY <2>3, <1>0
       DEF Sticks, At, jobrow, links, rows, git, LinkTypes, Job
  <2>4. ASSUME NEW p \in Proc, NEW j \in Job, Claims(p, j) PROVE LinkTypes'
    BY <2>4, <1>0
       DEF Claims, links, git, LinkTypes, Job
  <2>5. ASSUME NEW p \in Proc, Clears(p) PROVE LinkTypes'
    BY <2>5, <1>0
       DEF Clears, At, jobrow, links, rows, LinkTypes, Job
  <2>6. ASSUME NEW p \in Proc, Creates(p) PROVE LinkTypes'
    BY <2>6, <1>0
       DEF Creates, At, Ends, Frees, Running, Saves, Writes, jobrow, links, LinkTypes, Job
  <2>7. ASSUME NEW p \in Proc, Seeds(p) PROVE LinkTypes'
    <3>1. waits' = waits /\ closed' = closed /\ (source' = source \/ source' = [source EXCEPT ![slot[p].job].captured = TRUE])
      BY <2>7 DEF Seeds, Captures
    <3>2. CASE source' = source
      BY <3>1, <3>2, <1>0 DEF LinkTypes
    <3>3. CASE source' = [source EXCEPT ![slot[p].job].captured = TRUE]
      <4>1. \A f \in Fix : source'[f] \in {source[f], [source[f] EXCEPT !.captured = TRUE]}
        BY <3>3, <1>0 DEF LinkTypes
      <4>2. \A f \in Fix : source'[f] \in [job : Incident \union {None}, sha : {None} \union 0..MaxBuilds, captured : BOOLEAN]
        <5> DEFINE S == {None} \union 0..MaxBuilds
        <5> HIDE DEF S
        <5>1. \A f \in Fix : source[f] \in [job : Incident \union {None}, sha : S, captured : BOOLEAN]
          BY <1>0 DEF LinkTypes, S
        <5>2. \A f \in Fix : source'[f] \in [job : Incident \union {None}, sha : S, captured : BOOLEAN]
          BY <5>1, <4>1
        <5>3. QED
          BY <5>2 DEF S
      <4>3. source' = [f \in Fix |-> source'[f]]
        BY <3>3, <1>0 DEF LinkTypes
      <4>4. QED
        BY <4>2, <4>3, <3>1, <1>0 DEF LinkTypes
    <3>4. QED
      BY <3>1, <3>2, <3>3
  <2>8. ASSUME NEW p \in Proc, Works(p) PROVE LinkTypes'
    BY <2>8, <1>0
       DEF Works, Ends, Frees, Running, Saves, Writes, jobrow, links, LinkTypes, Job
  <2>9. ASSUME NEW p \in Proc, GateFails(p) PROVE LinkTypes'
    BY <2>9, <1>0
       DEF GateFails, Ends, Frees, Running, Saves, Writes, jobrow, links, git, LinkTypes, Job
  <2>10. ASSUME NEW p \in Proc, Lands(p) PROVE LinkTypes'
    BY <2>10, <1>0
       DEF Lands, Ends, Frees, Running, Saves, Writes, jobrow, LinkTypes, Job
  <2>11. ASSUME NEW p \in Proc, SweepsBranch(p) PROVE LinkTypes'
    BY <2>11, <1>0
       DEF SweepsBranch, jobrow, links, rows, LinkTypes, Job
  <2>12. ASSUME NEW p \in Proc, SweepsTree(p) PROVE LinkTypes'
    BY <2>12, <1>0
       DEF SweepsTree, jobrow, links, rows, LinkTypes, Job
  <2>13. ASSUME NEW j \in Job, Cancel(j) PROVE LinkTypes'
    BY <2>13, <1>0
       DEF Cancel, Saves, Writes, links, git, LinkTypes, Job
  <2>14. ASSUME NEW j \in Job, Retry(j) PROVE LinkTypes'
    BY <2>14, <1>0
       DEF Retry, Saves, Writes, links, git, LinkTypes, Job
  <2>15. ASSUME NEW j \in Job, Archive(j) PROVE LinkTypes'
    BY <2>15, <1>0
       DEF Archive, jobrow, LinkTypes, Job
  <2>16. ASSUME NEW j \in Job, Expires(j) PROVE LinkTypes'
    BY <2>16, <1>0
       DEF Expires, links, git, LinkTypes, Job
  <2>17. ASSUME NEW j \in Job, Requeues(j) PROVE LinkTypes'
    BY <2>17, <1>0
       DEF Requeues, Saves, Writes, jobrow, links, git, LinkTypes, Job
  <2>18. ASSUME NEW j \in Job, Unblocks(j) PROVE LinkTypes'
    BY <2>18, <1>0
       DEF Unblocks, Saves, Writes, links, git, LinkTypes, Job
  <2>19. ASSUME NEW j \in Job, NEW f \in Fix, Blocks(j, f) PROVE LinkTypes'
    BY <2>19, <1>0
       DEF Blocks, Writes, links, git, LinkTypes, Job
  <2>20. ASSUME NEW i \in Incident, FilesSome(i) PROVE LinkTypes'
    <3>1. PICK W \in SUBSET Fix : \E deps \in Orders(W), last \in W : Files(i, W, deps, last)
      BY <2>20 DEF FilesSome
    <3>2. PICK deps \in Orders(W), last \in W : Files(i, W, deps, last)
      BY <3>1
    <3>3. \A f \in W : deps[f] \subseteq Fix
      BY <3>2 DEF Orders
    <3>4. branch[i] \in {None} \union 0..MaxBuilds
      BY <1>0 DEF GitTypes, Job
    <3>5. waits' \in [Job -> SUBSET Fix] /\ closed' = closed
      BY <1>0, <3>2, <3>3 DEF Files, LinkTypes
    <3>6. source' \in [Fix -> [job : Incident \union {None}, sha : {None} \union 0..MaxBuilds, captured : BOOLEAN]]
      BY <1>0, <3>2, <3>4 DEF Files, LinkTypes
    <3>7. QED
      BY <1>0, <3>5, <3>6 DEF LinkTypes
  <2>21. ASSUME NEW j \in Job, Drops(j) PROVE LinkTypes'
    BY <2>21, <1>0
       DEF Drops, DropsTree, DropsBranch, jobrow, links, rows, git, LinkTypes, Job
  <2>22. QED
    BY <2>1, <2>2, <2>3, <2>4, <2>5, <2>6, <2>7, <2>8, <2>9, <2>10, <2>11, <2>12, <2>13, <2>14,
       <2>15, <2>16, <2>17, <2>18, <2>19, <2>20, <2>21, <1>0
       DEF ArtStep, GuardedStep, BlindStep, SlotStep, JobStep
<1>4. GitTypes'
  <2>1. ASSUME NEW p \in Proc, Yields(p) PROVE GitTypes'
    BY <2>1, <1>0
       DEF Yields, jobrow, links, rows, git, GitTypes, Job
  <2>2. ASSUME NEW p \in Proc, Lists(p) PROVE GitTypes'
    BY <2>2, <1>0
       DEF Lists, SweepBegins, Orphans, OnDisk, Place, jobrow, links, rows, git, GitTypes, Job
  <2>3. ASSUME NEW p \in Proc, Sticks(p) PROVE GitTypes'
    BY <2>3, <1>0
       DEF Sticks, At, jobrow, links, rows, git, GitTypes, Job
  <2>4. ASSUME NEW p \in Proc, NEW j \in Job, Claims(p, j) PROVE GitTypes'
    BY <2>4, <1>0
       DEF Claims, links, git, GitTypes, Job
  <2>5. ASSUME NEW p \in Proc, Clears(p) PROVE GitTypes'
    BY <2>5, <1>0
       DEF Clears, At, jobrow, links, rows, GitTypes, Job
  <2>6. ASSUME NEW p \in Proc, Creates(p) PROVE GitTypes'
    <3> DEFINE pruned == [k \in Job |-> IF tree[k] = "stale" THEN "none" ELSE tree[k]]
    <3>1. pruned \in [Job -> {"none", "here", "stale"}]
      BY <1>0 DEF GitTypes
    <3>2. /\ tree' = pruned \/ tree' = [pruned EXCEPT ![slot[p].job] = "here"]
          /\ branch' = [branch EXCEPT ![slot[p].job] = 0] \/ branch' = [branch EXCEPT ![slot[p].job] = None]
          /\ builds' = builds
      BY <2>6 DEF Creates
    <3> HIDE DEF pruned
    <3>3. QED
      BY <3>1, <3>2, <1>0, ArtifactAssumption DEF GitTypes
  <2>7. ASSUME NEW p \in Proc, Seeds(p) PROVE GitTypes'
    BY <2>7, <1>0
       DEF Seeds, At, Captures, Ends, Frees, Running, Saves, Writes, jobrow, git, GitTypes, Job
  <2>8. ASSUME NEW p \in Proc, Works(p) PROVE GitTypes'
    BY <2>8, <1>0, ArtifactAssumption
       DEF Works, Ends, Frees, Running, Saves, Writes, jobrow, links, GitTypes, Job
  <2>9. ASSUME NEW p \in Proc, GateFails(p) PROVE GitTypes'
    BY <2>9, <1>0
       DEF GateFails, Ends, Frees, Running, Saves, Writes, jobrow, links, git, GitTypes, Job
  <2>10. ASSUME NEW p \in Proc, Lands(p) PROVE GitTypes'
    BY <2>10, <1>0
       DEF Lands, Ends, Frees, Running, Saves, Writes, jobrow, GitTypes, Job
  <2>11. ASSUME NEW p \in Proc, SweepsBranch(p) PROVE GitTypes'
    BY <2>11, <1>0
       DEF SweepsBranch, jobrow, links, rows, GitTypes, Job
  <2>12. ASSUME NEW p \in Proc, SweepsTree(p) PROVE GitTypes'
    BY <2>12, <1>0
       DEF SweepsTree, jobrow, links, rows, GitTypes, Job
  <2>13. ASSUME NEW j \in Job, Cancel(j) PROVE GitTypes'
    BY <2>13, <1>0
       DEF Cancel, Saves, Writes, links, git, GitTypes, Job
  <2>14. ASSUME NEW j \in Job, Retry(j) PROVE GitTypes'
    BY <2>14, <1>0
       DEF Retry, Saves, Writes, links, git, GitTypes, Job
  <2>15. ASSUME NEW j \in Job, Archive(j) PROVE GitTypes'
    BY <2>15, <1>0
       DEF Archive, jobrow, GitTypes, Job
  <2>16. ASSUME NEW j \in Job, Expires(j) PROVE GitTypes'
    BY <2>16, <1>0
       DEF Expires, links, git, GitTypes, Job
  <2>17. ASSUME NEW j \in Job, Requeues(j) PROVE GitTypes'
    BY <2>17, <1>0
       DEF Requeues, Saves, Writes, jobrow, links, git, GitTypes, Job
  <2>18. ASSUME NEW j \in Job, Unblocks(j) PROVE GitTypes'
    BY <2>18, <1>0
       DEF Unblocks, Saves, Writes, links, git, GitTypes, Job
  <2>19. ASSUME NEW j \in Job, NEW f \in Fix, Blocks(j, f) PROVE GitTypes'
    BY <2>19, <1>0
       DEF Blocks, Writes, links, git, GitTypes, Job
  <2>20. ASSUME NEW i \in Incident, FilesSome(i) PROVE GitTypes'
    BY <2>20, <1>0
       DEF FilesSome, Files, Orders, git, GitTypes, Job
  <2>21. ASSUME NEW j \in Job, Drops(j) PROVE GitTypes'
    BY <2>21, <1>0
       DEF Drops, DropsTree, DropsBranch, jobrow, links, rows, git, GitTypes, Job
  <2>22. QED
    BY <2>1, <2>2, <2>3, <2>4, <2>5, <2>6, <2>7, <2>8, <2>9, <2>10, <2>11, <2>12, <2>13, <2>14,
       <2>15, <2>16, <2>17, <2>18, <2>19, <2>20, <2>21, <1>0
       DEF ArtStep, GuardedStep, BlindStep, SlotStep, JobStep
<1>5. SlotTypes'
  <2>1. ASSUME NEW p \in Proc, Yields(p) PROVE SlotTypes'
    BY <2>1, <1>0
       DEF Yields, jobrow, links, rows, git, SlotTypes, Job, Idle, Steps
  <2>2. ASSUME NEW p \in Proc, Lists(p) PROVE SlotTypes'
    BY <2>2, <1>0
       DEF Lists, SweepBegins, Orphans, OnDisk, Place, jobrow, links, rows, git, SlotTypes, Job,
           Steps
  <2>3. ASSUME NEW p \in Proc, Sticks(p) PROVE SlotTypes'
    BY <2>3, <1>0
       DEF Sticks, At, jobrow, links, rows, git, SlotTypes, Job, Steps
  <2>4. ASSUME NEW p \in Proc, NEW j \in Job, Claims(p, j) PROVE SlotTypes'
    BY <2>4, <1>0
       DEF Claims, links, git, SlotTypes, Job, Idle, Steps
  <2>5. ASSUME NEW p \in Proc, Clears(p) PROVE SlotTypes'
    BY <2>5, <1>0
       DEF Clears, At, jobrow, links, rows, SlotTypes, Job, Steps
  <2>6. ASSUME NEW p \in Proc, Creates(p) PROVE SlotTypes'
    BY <2>6, <1>0
       DEF Creates, At, Ends, Frees, Running, Saves, Writes, jobrow, links, SlotTypes, Job, Idle,
           Steps
  <2>7. ASSUME NEW p \in Proc, Seeds(p) PROVE SlotTypes'
    BY <2>7, <1>0
       DEF Seeds, At, Captures, Ends, Frees, Running, Saves, Writes, jobrow, git, SlotTypes, Job,
           Idle, Steps
  <2>8. ASSUME NEW p \in Proc, Works(p) PROVE SlotTypes'
    BY <2>8, <1>0
       DEF Works, Ends, Frees, Running, Saves, Writes, jobrow, links, SlotTypes, Job, Idle, Steps
  <2>9. ASSUME NEW p \in Proc, GateFails(p) PROVE SlotTypes'
    BY <2>9, <1>0
       DEF GateFails, Ends, Frees, Running, Saves, Writes, jobrow, links, git, SlotTypes, Job,
           Idle, Steps
  <2>10. ASSUME NEW p \in Proc, Lands(p) PROVE SlotTypes'
    BY <2>10, <1>0
       DEF Lands, Ends, Frees, Running, Saves, Writes, jobrow, SlotTypes, Job, Idle, Steps
  <2>11. ASSUME NEW p \in Proc, SweepsBranch(p) PROVE SlotTypes'
    BY <2>11, <1>0
       DEF SweepsBranch, jobrow, links, rows, SlotTypes, Job, Steps
  <2>12. ASSUME NEW p \in Proc, SweepsTree(p) PROVE SlotTypes'
    BY <2>12, <1>0
       DEF SweepsTree, jobrow, links, rows, SlotTypes, Job, Steps
  <2>13. ASSUME NEW j \in Job, Cancel(j) PROVE SlotTypes'
    BY <2>13, <1>0
       DEF Cancel, Saves, Writes, links, git, SlotTypes, Job, Steps
  <2>14. ASSUME NEW j \in Job, Retry(j) PROVE SlotTypes'
    BY <2>14, <1>0
       DEF Retry, Saves, Writes, links, git, SlotTypes, Job, Steps
  <2>15. ASSUME NEW j \in Job, Archive(j) PROVE SlotTypes'
    BY <2>15, <1>0
       DEF Archive, jobrow, SlotTypes, Job, Steps
  <2>16. ASSUME NEW j \in Job, Expires(j) PROVE SlotTypes'
    BY <2>16, <1>0
       DEF Expires, links, git, SlotTypes, Job, Steps
  <2>17. ASSUME NEW j \in Job, Requeues(j) PROVE SlotTypes'
    BY <2>17, <1>0
       DEF Requeues, Saves, Writes, jobrow, links, git, SlotTypes, Job, Steps
  <2>18. ASSUME NEW j \in Job, Unblocks(j) PROVE SlotTypes'
    BY <2>18, <1>0
       DEF Unblocks, Saves, Writes, links, git, SlotTypes, Job, Steps
  <2>19. ASSUME NEW j \in Job, NEW f \in Fix, Blocks(j, f) PROVE SlotTypes'
    BY <2>19, <1>0
       DEF Blocks, Writes, links, git, SlotTypes, Job, Steps
  <2>20. ASSUME NEW i \in Incident, FilesSome(i) PROVE SlotTypes'
    BY <2>20, <1>0
       DEF FilesSome, Files, Orders, git, SlotTypes, Job, Steps
  <2>21. ASSUME NEW j \in Job, Drops(j) PROVE SlotTypes'
    BY <2>21, <1>0
       DEF Drops, DropsTree, DropsBranch, jobrow, links, rows, git, SlotTypes, Job
  <2>22. QED
    BY <2>1, <2>2, <2>3, <2>4, <2>5, <2>6, <2>7, <2>8, <2>9, <2>10, <2>11, <2>12, <2>13, <2>14,
       <2>15, <2>16, <2>17, <2>18, <2>19, <2>20, <2>21, <1>0
       DEF ArtStep, GuardedStep, BlindStep, SlotStep, JobStep
<1>6. SweepTypes'
  <2>1. ASSUME NEW p \in Proc, Yields(p) PROVE SweepTypes'
    BY <2>1, <1>0
       DEF Yields, jobrow, links, rows, git, SweepTypes, Job, NoSweep
  <2>2. ASSUME NEW p \in Proc, Lists(p) PROVE SweepTypes'
    <3> DEFINE ids == Active \union Protected
    <3>1. \A ctx : Place(ids, ctx) \in Job \union {None, Clone}
      BY LowestIn DEF Place, OnDisk
    <3>2. \A ctx : Orphans(ids, ctx) \in SUBSET Job
      BY DEF Orphans, OnDisk
    <3>3. PICK at : SweepBegins(p, at)
      BY <2>2 DEF Lists
    <3> DEFINE ctx == Place(ids, at)
               todo == Orphans(ids, ctx)
    <3>4. sweep' = [sweep EXCEPT ![p] = IF todo = {} THEN NoSweep ELSE [at |-> "branch", todo |-> todo, ctx |-> ctx]]
      BY <3>3 DEF SweepBegins
    <3>5. ctx \in Job \union {None, Clone} /\ todo \in SUBSET Job
      BY <3>1, <3>2
    <3> HIDE DEF ctx, todo
    <3>6. QED
      BY <3>4, <3>5, <1>0 DEF SweepTypes, NoSweep
  <2>3. ASSUME NEW p \in Proc, Sticks(p) PROVE SweepTypes'
    BY <2>3, <1>0
       DEF Sticks, At, jobrow, links, rows, git, SweepTypes, Job
  <2>4. ASSUME NEW p \in Proc, NEW j \in Job, Claims(p, j) PROVE SweepTypes'
    BY <2>4, <1>0
       DEF Claims, links, git, SweepTypes, Job
  <2>5. ASSUME NEW p \in Proc, Clears(p) PROVE SweepTypes'
    BY <2>5, <1>0
       DEF Clears, At, jobrow, links, rows, SweepTypes, Job
  <2>6. ASSUME NEW p \in Proc, Creates(p) PROVE SweepTypes'
    BY <2>6, <1>0
       DEF Creates, At, Ends, Frees, Running, Saves, Writes, jobrow, links, SweepTypes, Job
  <2>7. ASSUME NEW p \in Proc, Seeds(p) PROVE SweepTypes'
    BY <2>7, <1>0
       DEF Seeds, At, Captures, Ends, Frees, Running, Saves, Writes, jobrow, git, SweepTypes, Job
  <2>8. ASSUME NEW p \in Proc, Works(p) PROVE SweepTypes'
    BY <2>8, <1>0
       DEF Works, Ends, Frees, Running, Saves, Writes, jobrow, links, SweepTypes, Job
  <2>9. ASSUME NEW p \in Proc, GateFails(p) PROVE SweepTypes'
    BY <2>9, <1>0
       DEF GateFails, Ends, Frees, Running, Saves, Writes, jobrow, links, git, SweepTypes, Job
  <2>10. ASSUME NEW p \in Proc, Lands(p) PROVE SweepTypes'
    BY <2>10, <1>0
       DEF Lands, Ends, Frees, Running, Saves, Writes, jobrow, SweepTypes, Job
  <2>11. ASSUME NEW p \in Proc, SweepsBranch(p) PROVE SweepTypes'
    BY <2>11, <1>0
       DEF SweepsBranch, jobrow, links, rows, SweepTypes, Job
  <2>12. ASSUME NEW p \in Proc, SweepsTree(p) PROVE SweepTypes'
    BY <2>12, <1>0
       DEF SweepsTree, jobrow, links, rows, SweepTypes, Job, NoSweep
  <2>13. ASSUME NEW j \in Job, Cancel(j) PROVE SweepTypes'
    BY <2>13, <1>0
       DEF Cancel, Saves, Writes, links, git, SweepTypes, Job
  <2>14. ASSUME NEW j \in Job, Retry(j) PROVE SweepTypes'
    BY <2>14, <1>0
       DEF Retry, Saves, Writes, links, git, SweepTypes, Job
  <2>15. ASSUME NEW j \in Job, Archive(j) PROVE SweepTypes'
    BY <2>15, <1>0
       DEF Archive, jobrow, SweepTypes, Job
  <2>16. ASSUME NEW j \in Job, Expires(j) PROVE SweepTypes'
    BY <2>16, <1>0
       DEF Expires, links, git, SweepTypes, Job
  <2>17. ASSUME NEW j \in Job, Requeues(j) PROVE SweepTypes'
    BY <2>17, <1>0
       DEF Requeues, Saves, Writes, jobrow, links, git, SweepTypes, Job
  <2>18. ASSUME NEW j \in Job, Unblocks(j) PROVE SweepTypes'
    BY <2>18, <1>0
       DEF Unblocks, Saves, Writes, links, git, SweepTypes, Job
  <2>19. ASSUME NEW j \in Job, NEW f \in Fix, Blocks(j, f) PROVE SweepTypes'
    BY <2>19, <1>0
       DEF Blocks, Writes, links, git, SweepTypes, Job
  <2>20. ASSUME NEW i \in Incident, FilesSome(i) PROVE SweepTypes'
    BY <2>20, <1>0
       DEF FilesSome, Files, Orders, git, SweepTypes, Job
  <2>21. ASSUME NEW j \in Job, Drops(j) PROVE SweepTypes'
    BY <2>21, <1>0
       DEF Drops, DropsTree, DropsBranch, jobrow, links, rows, git, SweepTypes, Job
  <2>22. QED
    BY <2>1, <2>2, <2>3, <2>4, <2>5, <2>6, <2>7, <2>8, <2>9, <2>10, <2>11, <2>12, <2>13, <2>14,
       <2>15, <2>16, <2>17, <2>18, <2>19, <2>20, <2>21, <1>0
       DEF ArtStep, GuardedStep, BlindStep, SlotStep, JobStep
<1>7. QED
  BY <1>1, <1>2, <1>3, <1>4, <1>5, <1>6 DEF ArtifactTypeOK
-----------------------------------------------------------------------------
(* What holds of the artifacts *)

\* A slot runs a job that is claimed, or has been cancelled since, and no two
\* slots the same.
SlotsApart ==
    \A p \in Proc :
       /\ slot[p].job = None <=> slot[p].at = "idle"
       /\ slot[p].job # None => status[slot[p].job] \in {"RUNNING", "CANCELLED"}
       /\ \A q \in Proc : slot[p].job # None /\ slot[q].job = slot[p].job => q = p

SweepShape == \A p \in Proc : sweep[p].at = "no" <=> sweep[p].todo = {}

\* A remediation that is not filed has nothing yet.
Unfiled ==
    \A f \in Job : status[f] = "NONE" =>
        f \in Fix /\ tree[f] = "none" /\ branch[f] = None /\ source[f] = NoSource

\* What a collection has listed has ended.
ListedEnded ==
    \A p \in Proc : \A j \in sweep[p].todo : status[j] \in {"FAILED", "DONE", "CANCELLED"}

\* f is live and has yet to take its candidate over.
Needy(f) == status[f] \in Live /\ source[f].sha # None /\ ~source[f].captured

\* No collection lists an open incident that a live remediation still needs.
NeededUnlisted ==
    \A f \in Fix : LET i == source[f].job IN
        Needy(f) /\ status[i] = "FAILED" /\ ~closed[i] => \A p \in Proc : i \notin sweep[p].todo

Branches ==
    \A j \in Job :
       /\ tree[j] = "here" => branch[j] # None
       /\ branch[j] # None => branch[j] <= builds[j]
       /\ built[j] => branch[j] # 0
       /\ why[j] = "gate" => built[j]
       /\ status[j] = "DONE" => branch[j] = None

\* Between its claim and its commit a job has no commit of its own.
SlotAt ==
    \A p \in Proc : LET j == slot[p].job IN
       /\ slot[p].at \in {"clear", "create", "seed", "work"} => ~built[j]
       /\ slot[p].at = "gate" => built[j]
       /\ slot[p].at = "create" => tree[j] # "here"
       /\ slot[p].at \in {"seed", "work"} => branch[j] \in {None, 0}

\* A recorded candidate is a commit, and not the one of a build that broke off.
Sources ==
    \A f \in Fix : source[f].sha # None =>
       /\ source[f].job \in Incident
       /\ 1 <= source[f].sha /\ source[f].sha <= builds[source[f].job]
       /\ why[source[f].job] = "build" => branch[source[f].job] # source[f].sha

LEMMA JobFacts ==
    /\ None \notin Job /\ Fix \subseteq Job /\ Incident \subseteq Job
    /\ \A i \in Incident, f \in Fix : i # f
    /\ \A j \in Job : j \in Nat \ {0}
  BY ArtifactAssumption DEF Job

LEMMA EndsEffect ==
    ASSUME ArtifactTypeOK, NEW p \in Proc, NEW st \in {"PENDING", "FAILED", "DONE"}, NEW b \in BOOLEAN,
           NEW w \in {"none", "build", "gate", "source"}, Ends(p, st, b, w)
    PROVE  /\ slot' = [slot EXCEPT ![p] = Idle]
           /\ \A j \in Job :
                \/ /\ j = slot[p].job /\ status[j] = "RUNNING"
                   /\ status'[j] = st /\ built'[j] = b /\ why'[j] = w
                \/ status'[j] = status[j] /\ built'[j] = built[j] /\ why'[j] = why[j]
<1>1. slot' = [slot EXCEPT ![p] = Idle]
  BY DEF Ends, Frees
<1>2. RowTypes /\ SlotTypes
  BY DEF ArtifactTypeOK
<1>3. CASE Running(p)
  <2>1. Saves(slot[p].job, st, b, w)
    BY <1>3 DEF Ends
  <2>2. QED
    BY <1>1, <1>2, <1>3, <2>1 DEF Saves, Writes, Running, RowTypes
<1>4. CASE ~Running(p)
  <2>1. UNCHANGED jobrow
    BY <1>4 DEF Ends
  <2>2. QED
    BY <1>1, <1>2, <1>4, <2>1 DEF jobrow, Running
<1>5. QED
  BY <1>3, <1>4

LEMMA SlotsApartStep ==
    ASSUME ArtifactTypeOK, ArtStep, SlotsApart
    PROVE  SlotsApart'
<1>0. ArtStep
  OBVIOUS
<1>1. /\ RowTypes /\ LinkTypes /\ GitTypes /\ SlotTypes /\ SweepTypes
      /\ SlotsApart
  BY DEF ArtifactTypeOK
<1>2. QED
  <2>1. ASSUME NEW p \in Proc, Yields(p) PROVE SlotsApart'
    BY <2>1, <1>1
       DEF Yields, jobrow, links, rows, git, SlotsApart, SlotTypes, Idle
  <2>2. ASSUME NEW p \in Proc, Lists(p) PROVE SlotsApart'
    BY <2>2, <1>1
       DEF Lists, SweepBegins, Orphans, OnDisk, Place, jobrow, links, rows, git, SlotsApart, Job
  <2>3. ASSUME NEW p \in Proc, Sticks(p) PROVE SlotsApart'
    BY <2>3, <1>1
       DEF Sticks, At, jobrow, links, rows, git, SlotsApart, SlotTypes
  <2>4. ASSUME NEW p \in Proc, NEW j \in Job, Claims(p, j) PROVE SlotsApart'
    BY <2>4, <1>1, ArtifactAssumption
       DEF Claims, links, git, SlotsApart, RowTypes, SlotTypes, Live, Idle, Job
  <2>5. ASSUME NEW p \in Proc, Clears(p) PROVE SlotsApart'
    BY <2>5, <1>1
       DEF Clears, At, jobrow, links, rows, SlotsApart, SlotTypes
  <2>6. ASSUME NEW p \in Proc, Creates(p) PROVE SlotsApart'
    BY <2>6, <1>1
       DEF Creates, At, Ends, Frees, Running, Saves, Writes, jobrow, links, SlotsApart, RowTypes,
           SlotTypes, Live, Idle, Job
  <2>7. ASSUME NEW p \in Proc, Seeds(p) PROVE SlotsApart'
    BY <2>7, <1>1
       DEF Seeds, At, Captures, Ends, Frees, Running, Saves, Writes, jobrow, git, SlotsApart,
           RowTypes, SlotTypes, Live, Idle
  <2>8. ASSUME NEW p \in Proc, Works(p) PROVE SlotsApart'
    <3>1. PICK st \in {"PENDING", "FAILED", "DONE"}, b \in BOOLEAN, w \in {"none", "build", "gate"} :
             Ends(p, st, b, w)
      BY <2>8 DEF Works
    <3>2. /\ slot' = [slot EXCEPT ![p] = Idle]
          /\ \A k \in Job : \/ status'[k] = status[k]
                            \/ k = slot[p].job /\ status[k] = "RUNNING" /\ status'[k] = st
      <4>1. /\ slot' = [slot EXCEPT ![p] = Idle]
            /\ \A k \in Job :
                 \/ /\ k = slot[p].job /\ status[k] = "RUNNING"
                    /\ status'[k] = st /\ built'[k] = b /\ why'[k] = w
                 \/ status'[k] = status[k] /\ built'[k] = built[k] /\ why'[k] = why[k]
        BY <3>1, EndsEffect
      <4>2. QED
        BY <4>1
    <3>3. QED
      BY <3>2, <1>1, JobFacts DEF SlotsApart, SlotTypes, Idle
  <2>9. ASSUME NEW p \in Proc, GateFails(p) PROVE SlotsApart'
    <3>1. PICK st \in {"PENDING", "FAILED", "DONE"}, b \in BOOLEAN, w \in {"none", "build", "gate"} :
             Ends(p, st, b, w)
      BY <2>9 DEF GateFails
    <3>2. /\ slot' = [slot EXCEPT ![p] = Idle]
          /\ \A k \in Job : \/ status'[k] = status[k]
                            \/ k = slot[p].job /\ status[k] = "RUNNING" /\ status'[k] = st
      <4>1. /\ slot' = [slot EXCEPT ![p] = Idle]
            /\ \A k \in Job :
                 \/ /\ k = slot[p].job /\ status[k] = "RUNNING"
                    /\ status'[k] = st /\ built'[k] = b /\ why'[k] = w
                 \/ status'[k] = status[k] /\ built'[k] = built[k] /\ why'[k] = why[k]
        BY <3>1, EndsEffect
      <4>2. QED
        BY <4>1
    <3>3. QED
      BY <3>2, <1>1, JobFacts DEF SlotsApart, SlotTypes, Idle
  <2>10. ASSUME NEW p \in Proc, Lands(p) PROVE SlotsApart'
    <3>1. PICK st \in {"PENDING", "FAILED", "DONE"}, b \in BOOLEAN, w \in {"none", "build", "gate"} :
             Ends(p, st, b, w)
      BY <2>10 DEF Lands
    <3>2. /\ slot' = [slot EXCEPT ![p] = Idle]
          /\ \A k \in Job : \/ status'[k] = status[k]
                            \/ k = slot[p].job /\ status[k] = "RUNNING" /\ status'[k] = st
      <4>1. /\ slot' = [slot EXCEPT ![p] = Idle]
            /\ \A k \in Job :
                 \/ /\ k = slot[p].job /\ status[k] = "RUNNING"
                    /\ status'[k] = st /\ built'[k] = b /\ why'[k] = w
                 \/ status'[k] = status[k] /\ built'[k] = built[k] /\ why'[k] = why[k]
        BY <3>1, EndsEffect
      <4>2. QED
        BY <4>1
    <3>3. QED
      BY <3>2, <1>1, JobFacts DEF SlotsApart, SlotTypes, Idle
  <2>11. ASSUME NEW p \in Proc, SweepsBranch(p) PROVE SlotsApart'
    BY <2>11, <1>1
       DEF SweepsBranch, jobrow, links, rows, SlotsApart
  <2>12. ASSUME NEW p \in Proc, SweepsTree(p) PROVE SlotsApart'
    BY <2>12, <1>1
       DEF SweepsTree, jobrow, links, rows, SlotsApart
  <2>13. ASSUME NEW j \in Job, Cancel(j) PROVE SlotsApart'
    BY <2>13, <1>1
       DEF Cancel, Saves, Writes, links, git, SlotsApart, RowTypes, Live
  <2>14. ASSUME NEW j \in Job, Retry(j) PROVE SlotsApart'
    BY <2>14, <1>1
       DEF Retry, Saves, Writes, links, git, SlotsApart, RowTypes, Live
  <2>15. ASSUME NEW j \in Job, Archive(j) PROVE SlotsApart'
    BY <2>15, <1>1
       DEF Archive, jobrow, SlotsApart
  <2>16. ASSUME NEW j \in Job, Expires(j) PROVE SlotsApart'
    BY <2>16, <1>1
       DEF Expires, links, git, SlotsApart, RowTypes
  <2>17. ASSUME NEW j \in Job, Requeues(j) PROVE SlotsApart'
    BY <2>17, <1>1, ArtifactAssumption
       DEF Requeues, Saves, Writes, jobrow, links, git, SlotsApart, RowTypes, SlotTypes, Live, Idle,
           Job
  <2>18. ASSUME NEW j \in Job, Unblocks(j) PROVE SlotsApart'
    BY <2>18, <1>1
       DEF Unblocks, Saves, Writes, links, git, SlotsApart, RowTypes, Live
  <2>19. ASSUME NEW j \in Job, NEW f \in Fix, Blocks(j, f) PROVE SlotsApart'
    BY <2>19, <1>1
       DEF Blocks, Writes, links, git, SlotsApart, RowTypes, Live
  <2>20. ASSUME NEW i \in Incident, FilesSome(i) PROVE SlotsApart'
    <3>1. UNCHANGED slot /\ \A k \in Job : status[k] # "NONE" => status'[k] = status[k]
      BY <2>20, <1>1 DEF FilesSome, Files, RowTypes
    <3>2. QED
      BY <3>1, <1>1, JobFacts DEF SlotsApart, SlotTypes
  <2>21. ASSUME NEW j \in Job, Drops(j) PROVE SlotsApart'
    BY <2>21, <1>1
       DEF Drops, DropsTree, DropsBranch, jobrow, links, rows, git, SlotsApart
  <2>22. QED
    BY <2>1, <2>2, <2>3, <2>4, <2>5, <2>6, <2>7, <2>8, <2>9, <2>10, <2>11, <2>12, <2>13, <2>14,
       <2>15, <2>16, <2>17, <2>18, <2>19, <2>20, <2>21, <1>0
       DEF ArtStep, GuardedStep, BlindStep, SlotStep, JobStep

LEMMA SweepShapeStep ==
    ASSUME ArtifactTypeOK, ArtStep, SweepShape
    PROVE  SweepShape'
<1>0. ArtStep
  OBVIOUS
<1>1. /\ RowTypes /\ LinkTypes /\ GitTypes /\ SlotTypes /\ SweepTypes
      /\ SweepShape
  BY DEF ArtifactTypeOK
<1>2. QED
  <2>1. ASSUME NEW p \in Proc, Yields(p) PROVE SweepShape'
    BY <2>1, <1>1
       DEF Yields, jobrow, links, rows, git, SweepShape, SweepTypes, NoSweep
  <2>2. ASSUME NEW p \in Proc, Lists(p) PROVE SweepShape'
    <3>1. PICK todo, ctx :
             sweep' = [sweep EXCEPT ![p] =
                         IF todo = {} THEN NoSweep ELSE [at |-> "branch", todo |-> todo, ctx |-> ctx]]
      BY <2>2 DEF Lists, SweepBegins
    <3>2. QED
      BY <3>1, <1>1 DEF SweepShape, SweepTypes, NoSweep
  <2>3. ASSUME NEW p \in Proc, Sticks(p) PROVE SweepShape'
    BY <2>3, <1>1
       DEF Sticks, At, jobrow, links, rows, git, SweepShape
  <2>4. ASSUME NEW p \in Proc, NEW j \in Job, Claims(p, j) PROVE SweepShape'
    BY <2>4, <1>1
       DEF Claims, links, git, SweepShape
  <2>5. ASSUME NEW p \in Proc, Clears(p) PROVE SweepShape'
    BY <2>5, <1>1
       DEF Clears, At, jobrow, links, rows, SweepShape
  <2>6. ASSUME NEW p \in Proc, Creates(p) PROVE SweepShape'
    BY <2>6, <1>1
       DEF Creates, At, Ends, Frees, Running, Saves, Writes, jobrow, links, SweepShape
  <2>7. ASSUME NEW p \in Proc, Seeds(p) PROVE SweepShape'
    BY <2>7, <1>1
       DEF Seeds, At, Captures, Ends, Frees, Running, Saves, Writes, jobrow, git, SweepShape
  <2>8. ASSUME NEW p \in Proc, Works(p) PROVE SweepShape'
    BY <2>8, <1>1
       DEF Works, Ends, Frees, Running, Saves, Writes, jobrow, links, SweepShape
  <2>9. ASSUME NEW p \in Proc, GateFails(p) PROVE SweepShape'
    BY <2>9, <1>1
       DEF GateFails, Ends, Frees, Running, Saves, Writes, jobrow, links, git, SweepShape
  <2>10. ASSUME NEW p \in Proc, Lands(p) PROVE SweepShape'
    BY <2>10, <1>1
       DEF Lands, Ends, Frees, Running, Saves, Writes, jobrow, SweepShape
  <2>11. ASSUME NEW p \in Proc, SweepsBranch(p) PROVE SweepShape'
    BY <2>11, <1>1
       DEF SweepsBranch, jobrow, links, rows, SweepShape, SweepTypes
  <2>12. ASSUME NEW p \in Proc, SweepsTree(p) PROVE SweepShape'
    BY <2>12, <1>1
       DEF SweepsTree, jobrow, links, rows, SweepShape, SweepTypes, NoSweep
  <2>13. ASSUME NEW j \in Job, Cancel(j) PROVE SweepShape'
    BY <2>13, <1>1
       DEF Cancel, Saves, Writes, links, git, SweepShape
  <2>14. ASSUME NEW j \in Job, Retry(j) PROVE SweepShape'
    BY <2>14, <1>1
       DEF Retry, Saves, Writes, links, git, SweepShape
  <2>15. ASSUME NEW j \in Job, Archive(j) PROVE SweepShape'
    BY <2>15, <1>1
       DEF Archive, jobrow, SweepShape
  <2>16. ASSUME NEW j \in Job, Expires(j) PROVE SweepShape'
    BY <2>16, <1>1
       DEF Expires, links, git, SweepShape
  <2>17. ASSUME NEW j \in Job, Requeues(j) PROVE SweepShape'
    BY <2>17, <1>1
       DEF Requeues, Saves, Writes, jobrow, links, git, SweepShape
  <2>18. ASSUME NEW j \in Job, Unblocks(j) PROVE SweepShape'
    BY <2>18, <1>1
       DEF Unblocks, Saves, Writes, links, git, SweepShape
  <2>19. ASSUME NEW j \in Job, NEW f \in Fix, Blocks(j, f) PROVE SweepShape'
    BY <2>19, <1>1
       DEF Blocks, Writes, links, git, SweepShape
  <2>20. ASSUME NEW i \in Incident, FilesSome(i) PROVE SweepShape'
    BY <2>20, <1>1
       DEF FilesSome, Files, Orders, git, SweepShape
  <2>21. ASSUME NEW j \in Job, Drops(j) PROVE SweepShape'
    BY <2>21, <1>1
       DEF Drops, DropsTree, DropsBranch, jobrow, links, rows, git, SweepShape
  <2>22. QED
    BY <2>1, <2>2, <2>3, <2>4, <2>5, <2>6, <2>7, <2>8, <2>9, <2>10, <2>11, <2>12, <2>13, <2>14,
       <2>15, <2>16, <2>17, <2>18, <2>19, <2>20, <2>21, <1>0
       DEF ArtStep, GuardedStep, BlindStep, SlotStep, JobStep

LEMMA UnfiledStep ==
    ASSUME ArtifactTypeOK, ArtStep, SlotsApart, Unfiled
    PROVE  Unfiled'
<1>0. ArtStep
  OBVIOUS
<1>1. /\ RowTypes /\ LinkTypes /\ GitTypes /\ SlotTypes /\ SweepTypes
      /\ SlotsApart /\ Unfiled
  BY DEF ArtifactTypeOK
<1>2. QED
  <2>1. ASSUME NEW p \in Proc, Yields(p) PROVE Unfiled'
    BY <2>1, <1>1
       DEF Yields, jobrow, links, rows, git, Unfiled, SlotTypes, Idle, Job
  <2>2. ASSUME NEW p \in Proc, Lists(p) PROVE Unfiled'
    BY <2>2, <1>1
       DEF Lists, SweepBegins, Orphans, OnDisk, Place, jobrow, links, rows, git, Unfiled, Job
  <2>3. ASSUME NEW p \in Proc, Sticks(p) PROVE Unfiled'
    BY <2>3, <1>1
       DEF Sticks, At, jobrow, links, rows, git, Unfiled, SlotTypes, Job
  <2>4. ASSUME NEW p \in Proc, NEW j \in Job, Claims(p, j) PROVE Unfiled'
    BY <2>4, <1>1
       DEF Claims, links, git, Unfiled, RowTypes, SlotTypes, Idle, Job
  <2>5. ASSUME NEW p \in Proc, Clears(p) PROVE Unfiled'
    BY <2>5, <1>1
       DEF Clears, At, jobrow, links, rows, Unfiled, GitTypes, SlotTypes, Job
  <2>6. ASSUME NEW p \in Proc, Creates(p) PROVE Unfiled'
    <3>1. \A f \in Job : f # slot[p].job /\ tree[f] = "none" /\ branch[f] = None
                                => tree'[f] = "none" /\ branch'[f] = None
      BY <2>6, <1>1 DEF Creates, GitTypes
    <3>2. UNCHANGED source /\ (UNCHANGED status \/ Ends(p, "FAILED", FALSE, "build"))
      BY <2>6 DEF Creates, links, jobrow
    <3>3. Ends(p, "FAILED", FALSE, "build") => \A f \in Job : status'[f] = "NONE" => status[f] = "NONE"
      BY EndsEffect
    <3>4. \A f \in Job : status[f] = "NONE" => f # slot[p].job
      BY <1>1, JobFacts DEF SlotsApart
    <3>5. QED
      BY <3>1, <3>2, <3>3, <3>4, <1>1 DEF Unfiled
  <2>7. ASSUME NEW p \in Proc, Seeds(p) PROVE Unfiled'
    BY <2>7, <1>1, ArtifactAssumption
       DEF Seeds, At, Captures, Ends, Frees, Running, Saves, Writes, jobrow, git, Unfiled,
           SlotsApart, GitTypes, LinkTypes, RowTypes, SlotTypes, Live, Idle, Job
  <2>8. ASSUME NEW p \in Proc, Works(p) PROVE Unfiled'
    BY <2>8, <1>1
       DEF Works, Ends, Frees, Running, Saves, Writes, jobrow, links, Unfiled, GitTypes, RowTypes,
           SlotTypes, Live, Idle, Job
  <2>9. ASSUME NEW p \in Proc, GateFails(p) PROVE Unfiled'
    BY <2>9, <1>1
       DEF GateFails, Ends, Frees, Running, Saves, Writes, jobrow, links, git, Unfiled, RowTypes,
           SlotTypes, Live, Idle, Job
  <2>10. ASSUME NEW p \in Proc, Lands(p) PROVE Unfiled'
    BY <2>10, <1>1
       DEF Lands, Ends, Frees, Running, Saves, Writes, jobrow, Unfiled, GitTypes, RowTypes,
           SlotTypes, Live, Idle, Job
  <2>11. ASSUME NEW p \in Proc, SweepsBranch(p) PROVE Unfiled'
    BY <2>11, <1>1
       DEF SweepsBranch, jobrow, links, rows, Unfiled, GitTypes, Job
  <2>12. ASSUME NEW p \in Proc, SweepsTree(p) PROVE Unfiled'
    BY <2>12, <1>1
       DEF SweepsTree, jobrow, links, rows, Unfiled, GitTypes, Job
  <2>13. ASSUME NEW j \in Job, Cancel(j) PROVE Unfiled'
    BY <2>13, <1>1
       DEF Cancel, Saves, Writes, links, git, Unfiled, RowTypes, Live, Job
  <2>14. ASSUME NEW j \in Job, Retry(j) PROVE Unfiled'
    BY <2>14, <1>1
       DEF Retry, Saves, Writes, links, git, Unfiled, RowTypes, Live, Job
  <2>15. ASSUME NEW j \in Job, Archive(j) PROVE Unfiled'
    BY <2>15, <1>1
       DEF Archive, jobrow, Unfiled, GitTypes, LinkTypes, Job
  <2>16. ASSUME NEW j \in Job, Expires(j) PROVE Unfiled'
    BY <2>16, <1>1
       DEF Expires, links, git, Unfiled, RowTypes, Job
  <2>17. ASSUME NEW j \in Job, Requeues(j) PROVE Unfiled'
    BY <2>17, <1>1
       DEF Requeues, Saves, Writes, jobrow, links, git, Unfiled, RowTypes, Live, Job
  <2>18. ASSUME NEW j \in Job, Unblocks(j) PROVE Unfiled'
    BY <2>18, <1>1
       DEF Unblocks, Saves, Writes, links, git, Unfiled, RowTypes, Live, Job
  <2>19. ASSUME NEW j \in Job, NEW f \in Fix, Blocks(j, f) PROVE Unfiled'
    BY <2>19, <1>1
       DEF Blocks, Writes, links, git, Unfiled, RowTypes, Live, Job
  <2>20. ASSUME NEW i \in Incident, FilesSome(i) PROVE Unfiled'
    BY <2>20, <1>1
       DEF FilesSome, Files, Orders, git, Unfiled, LinkTypes, RowTypes, Job
  <2>21. ASSUME NEW j \in Job, Drops(j) PROVE Unfiled'
    BY <2>21, <1>1
       DEF Drops, DropsTree, DropsBranch, jobrow, links, rows, git, Unfiled, GitTypes, LinkTypes, Job
  <2>22. QED
    BY <2>1, <2>2, <2>3, <2>4, <2>5, <2>6, <2>7, <2>8, <2>9, <2>10, <2>11, <2>12, <2>13, <2>14,
       <2>15, <2>16, <2>17, <2>18, <2>19, <2>20, <2>21, <1>0
       DEF ArtStep, GuardedStep, BlindStep, SlotStep, JobStep

LEMMA ListedEndedStep ==
    ASSUME ArtifactTypeOK, ArtStep, SlotsApart, SweepShape, Unfiled, ListedEnded, "revive_in_sweep" \notin Races
    PROVE  ListedEnded'
<1>0. ArtStep
  OBVIOUS
<1>1. /\ RowTypes /\ LinkTypes /\ GitTypes /\ SlotTypes /\ SweepTypes
      /\ SlotsApart /\ SweepShape /\ Unfiled /\ ListedEnded
  BY DEF ArtifactTypeOK
<1>2. QED
  <2>1. ASSUME NEW p \in Proc, Yields(p) PROVE ListedEnded'
    <3>1. status' = status /\ \A q \in Proc : sweep'[q].todo \subseteq sweep[q].todo
      BY <2>1, <1>1 DEF Yields, rows, jobrow, SweepTypes, NoSweep
    <3>2. QED
      BY <3>1, <1>1 DEF ListedEnded
  <2>2. ASSUME NEW p \in Proc, Lists(p) PROVE ListedEnded'
    <3>1. PICK at : SweepBegins(p, at)
      BY <2>2 DEF Lists
    <3> DEFINE ids == Active \union Protected
               todo == Orphans(ids, Place(ids, at))
    <3>2. \A j \in todo : j \in Job /\ j \notin Active /\ (tree[j] = "here" \/ branch[j] # None)
      BY DEF Orphans, OnDisk
    <3>3. \A j \in todo : status[j] \in {"FAILED", "DONE", "CANCELLED"}
      BY <3>2, <1>1 DEF Active, Live, Unfiled, RowTypes
    <3>4. status' = status
      BY <2>2 DEF Lists, rows, jobrow
    <3>5. \A q \in Proc : sweep'[q].todo = sweep[q].todo \/ sweep'[q].todo \subseteq todo
      <4> HIDE DEF todo
      <4>1. \E ctx : sweep' = [sweep EXCEPT ![p] = IF todo = {} THEN NoSweep ELSE [at |-> "branch", todo |-> todo, ctx |-> ctx]]
        BY <3>1 DEF SweepBegins, todo
      <4>2. QED
        BY <4>1, <1>1 DEF SweepTypes, NoSweep
    <3>6. QED
      BY <3>3, <3>4, <3>5, <1>1 DEF ListedEnded
  <2>3. ASSUME NEW p \in Proc, Sticks(p) PROVE ListedEnded'
    BY <2>3, <1>1
       DEF Sticks, At, jobrow, links, rows, git, ListedEnded, SlotTypes
  <2>4. ASSUME NEW p \in Proc, NEW j \in Job, Claims(p, j) PROVE ListedEnded'
    BY <2>4, <1>1
       DEF Claims, links, git, ListedEnded, RowTypes, SlotTypes, Idle
  <2>5. ASSUME NEW p \in Proc, Clears(p) PROVE ListedEnded'
    BY <2>5, <1>1
       DEF Clears, At, jobrow, links, rows, ListedEnded, SlotTypes
  <2>6. ASSUME NEW p \in Proc, Creates(p) PROVE ListedEnded'
    BY <2>6, <1>1, ArtifactAssumption
       DEF Creates, At, Ends, Frees, Running, Saves, Writes, jobrow, links, ListedEnded,
           SlotsApart, Unfiled, SweepTypes, NoSweep, Revivable, Listed, RowTypes, SlotTypes, Live,
           Idle, Job
  <2>7. ASSUME NEW p \in Proc, Seeds(p) PROVE ListedEnded'
    BY <2>7, <1>1, ArtifactAssumption
       DEF Seeds, At, Captures, Ends, Frees, Running, Saves, Writes, jobrow, git, ListedEnded,
           SlotsApart, Unfiled, SweepTypes, NoSweep, Revivable, Listed, RowTypes, SlotTypes, Live,
           Idle, Job
  <2>8. ASSUME NEW p \in Proc, Works(p) PROVE ListedEnded'
    BY <2>8, <1>1, ArtifactAssumption
       DEF Works, Ends, Frees, Running, Saves, Writes, jobrow, links, ListedEnded, SlotsApart,
           Unfiled, SweepTypes, NoSweep, Revivable, Listed, RowTypes, SlotTypes, Live, Idle, Job
  <2>9. ASSUME NEW p \in Proc, GateFails(p) PROVE ListedEnded'
    BY <2>9, <1>1, ArtifactAssumption
       DEF GateFails, Ends, Frees, Running, Saves, Writes, jobrow, links, git, ListedEnded,
           SlotsApart, Unfiled, SweepTypes, NoSweep, Revivable, Listed, RowTypes, SlotTypes, Live,
           Idle, Job
  <2>10. ASSUME NEW p \in Proc, Lands(p) PROVE ListedEnded'
    BY <2>10, <1>1, ArtifactAssumption
       DEF Lands, Ends, Frees, Running, Saves, Writes, jobrow, ListedEnded, SlotsApart, Unfiled,
           SweepTypes, NoSweep, Revivable, Listed, RowTypes, SlotTypes, Live, Idle, Job
  <2>11. ASSUME NEW p \in Proc, SweepsBranch(p) PROVE ListedEnded'
    BY <2>11, <1>1
       DEF SweepsBranch, jobrow, links, rows, ListedEnded, SweepTypes
  <2>12. ASSUME NEW p \in Proc, SweepsTree(p) PROVE ListedEnded'
    BY <2>12, <1>1
       DEF SweepsTree, jobrow, links, rows, ListedEnded, SweepTypes, NoSweep
  <2>13. ASSUME NEW j \in Job, Cancel(j) PROVE ListedEnded'
    BY <2>13, <1>1
       DEF Cancel, Saves, Writes, links, git, ListedEnded, RowTypes, Live
  <2>14. ASSUME NEW j \in Job, Retry(j) PROVE ListedEnded'
    BY <2>14, <1>1
       DEF Retry, Saves, Writes, links, git, ListedEnded, Revivable, Listed, RowTypes, Live
  <2>15. ASSUME NEW j \in Job, Archive(j) PROVE ListedEnded'
    BY <2>15, <1>1
       DEF Archive, jobrow, ListedEnded
  <2>16. ASSUME NEW j \in Job, Expires(j) PROVE ListedEnded'
    BY <2>16, <1>1
       DEF Expires, links, git, ListedEnded, RowTypes
  <2>17. ASSUME NEW j \in Job, Requeues(j) PROVE ListedEnded'
    BY <2>17, <1>1, ArtifactAssumption
       DEF Requeues, Saves, Writes, jobrow, links, git, ListedEnded, SlotsApart, Unfiled,
           SweepTypes, NoSweep, Revivable, Listed, RowTypes, SlotTypes, Live, Idle, Job
  <2>18. ASSUME NEW j \in Job, Unblocks(j) PROVE ListedEnded'
    BY <2>18, <1>1
       DEF Unblocks, Saves, Writes, links, git, ListedEnded, Revivable, Listed, RowTypes, Live
  <2>19. ASSUME NEW j \in Job, NEW f \in Fix, Blocks(j, f) PROVE ListedEnded'
    BY <2>19, <1>1
       DEF Blocks, Writes, links, git, ListedEnded, RowTypes, Live
  <2>20. ASSUME NEW i \in Incident, FilesSome(i) PROVE ListedEnded'
    BY <2>20, <1>1, ArtifactAssumption
       DEF FilesSome, Files, Orders, git, ListedEnded, SlotsApart, Unfiled, SweepTypes, NoSweep,
           Revivable, Listed, RowTypes, SlotTypes, Live, Idle, Job
  <2>21. ASSUME NEW j \in Job, Drops(j) PROVE ListedEnded'
    BY <2>21, <1>1
       DEF Drops, DropsTree, DropsBranch, jobrow, links, rows, git, ListedEnded
  <2>22. QED
    BY <2>1, <2>2, <2>3, <2>4, <2>5, <2>6, <2>7, <2>8, <2>9, <2>10, <2>11, <2>12, <2>13, <2>14,
       <2>15, <2>16, <2>17, <2>18, <2>19, <2>20, <2>21, <1>0
       DEF ArtStep, GuardedStep, BlindStep, SlotStep, JobStep

LEMMA NeededUnlistedStep ==
    ASSUME ArtifactTypeOK, ArtStep, SlotsApart, SweepShape, Unfiled, ListedEnded, NeededUnlisted, "revive_in_sweep" \notin Races
    PROVE  NeededUnlisted'
<1>0. ArtStep
  OBVIOUS
<1>1. /\ RowTypes /\ LinkTypes /\ GitTypes /\ SlotTypes /\ SweepTypes
      /\ SlotsApart /\ SweepShape /\ Unfiled /\ ListedEnded /\ NeededUnlisted
  BY DEF ArtifactTypeOK
<1>3. \A f \in Fix : source[f].job \in Job \/ \A p \in Proc : source[f].job \notin sweep[p].todo
  BY <1>1, JobFacts DEF LinkTypes, SweepTypes
<1>2. QED
  <2>1. ASSUME NEW p \in Proc, Yields(p) PROVE NeededUnlisted'
    <3>1. UNCHANGED <<status, source, closed>> /\ \A q \in Proc : sweep'[q].todo \subseteq sweep[q].todo
      BY <2>1, <1>1 DEF Yields, rows, jobrow, links, SweepTypes, NoSweep
    <3>2. QED
      BY <3>1, <1>1 DEF NeededUnlisted, Needy
  <2>2. ASSUME NEW p \in Proc, Lists(p) PROVE NeededUnlisted'
    <3>1. PICK at : SweepBegins(p, at)
      BY <2>2 DEF Lists
    <3> DEFINE ids == Active \union Protected
               todo == Orphans(ids, Place(ids, at))
    <3>2. \A i \in todo : i \in Job /\ i \notin Protected
      BY DEF Orphans, OnDisk
    <3>3. ASSUME NEW f \in Fix, Needy(f), status[source[f].job] = "FAILED", ~closed[source[f].job]
          PROVE  source[f].job \notin todo
      BY <3>2, <3>3 DEF Protected, LiveFixes, Needy
    <3>4. UNCHANGED <<status, source, closed>>
      BY <2>2 DEF Lists, rows, jobrow, links
    <3>5. \A q \in Proc : sweep'[q].todo = sweep[q].todo \/ sweep'[q].todo \subseteq todo
      <4> HIDE DEF todo
      <4>1. \E ctx : sweep' = [sweep EXCEPT ![p] = IF todo = {} THEN NoSweep ELSE [at |-> "branch", todo |-> todo, ctx |-> ctx]]
        BY <3>1 DEF SweepBegins, todo
      <4>2. QED
        BY <4>1, <1>1 DEF SweepTypes, NoSweep
    <3> HIDE DEF todo
    <3>6. QED
      BY <3>3, <3>4, <3>5, <1>1 DEF NeededUnlisted, Needy
  <2>3. ASSUME NEW p \in Proc, Sticks(p) PROVE NeededUnlisted'
    BY <2>3, <1>1
       DEF Sticks, At, jobrow, links, rows, git, NeededUnlisted, Needy, SlotTypes, Live
  <2>4. ASSUME NEW p \in Proc, NEW j \in Job, Claims(p, j) PROVE NeededUnlisted'
    BY <2>4, <1>1
       DEF Claims, links, git, NeededUnlisted, Needy, RowTypes, SlotTypes, Live, Idle
  <2>5. ASSUME NEW p \in Proc, Clears(p) PROVE NeededUnlisted'
    BY <2>5, <1>1
       DEF Clears, At, jobrow, links, rows, NeededUnlisted, Needy, SlotTypes, Live
  <2>6. ASSUME NEW p \in Proc, Creates(p) PROVE NeededUnlisted'
    BY <2>6, <1>1, ArtifactAssumption
       DEF Creates, At, Ends, Frees, Running, Saves, Writes, jobrow, links, NeededUnlisted, Needy,
           ListedEnded, SlotsApart, Unfiled, SweepTypes, LinkTypes, NoSweep, NoSource, Revivable,
           Listed, RowTypes, SlotTypes, Live, Idle, Job
  <2>7. ASSUME NEW p \in Proc, Seeds(p) PROVE NeededUnlisted'
    <3>1. UNCHANGED <<sweep, closed>>
      BY <2>7 DEF Seeds
    <3>2. \A k \in Job : status'[k] = status[k] \/ (status[k] = "RUNNING" /\ status'[k] = "FAILED")
      <4>1. UNCHANGED status \/ Ends(p, "FAILED", FALSE, "source")
        BY <2>7 DEF Seeds, jobrow
      <4>2. CASE Ends(p, "FAILED", FALSE, "source")
        <5>1. \A k \in Job :
                \/ /\ k = slot[p].job /\ status[k] = "RUNNING"
                   /\ status'[k] = "FAILED" /\ built'[k] = FALSE /\ why'[k] = "source"
                \/ status'[k] = status[k] /\ built'[k] = built[k] /\ why'[k] = why[k]
          BY <4>2, EndsEffect, Zenon
        <5>2. QED
          BY <5>1
      <4>3. QED
        BY <4>1, <4>2
    <3>3. \A f \in Fix : source'[f].job = source[f].job /\ (Needy(f)' => Needy(f))
      <4>1. \A f \in Fix : source'[f].job = source[f].job /\ source'[f].sha = source[f].sha
                          /\ (source[f].captured => source'[f].captured)
        <5>1. UNCHANGED source \/ source' = [source EXCEPT ![slot[p].job].captured = TRUE]
          BY <2>7 DEF Seeds, Captures
        <5>2. QED
          BY <5>1, <1>1 DEF LinkTypes
      <4>2. \A f \in Fix : status'[f] \in Live => status[f] \in Live
        BY <3>2, JobFacts DEF Live
      <4>3. QED
        BY <4>1, <4>2 DEF Needy
    <3>4. QED
      BY <3>1, <3>2, <3>3, <1>1, <1>3 DEF NeededUnlisted, ListedEnded, Needy, Live
  <2>8. ASSUME NEW p \in Proc, Works(p) PROVE NeededUnlisted'
    <3>1. PICK st \in {"PENDING", "FAILED", "DONE"}, b \in BOOLEAN, w \in {"none", "build", "gate"} :
             Ends(p, st, b, w)
      BY <2>8 DEF Works
    <3>2. /\ slot' = [slot EXCEPT ![p] = Idle]
          /\ \A k \in Job : \/ status'[k] = status[k]
                            \/ k = slot[p].job /\ status[k] = "RUNNING" /\ status'[k] = st
      <4>1. /\ slot' = [slot EXCEPT ![p] = Idle]
            /\ \A k \in Job :
                 \/ /\ k = slot[p].job /\ status[k] = "RUNNING"
                    /\ status'[k] = st /\ built'[k] = b /\ why'[k] = w
                 \/ status'[k] = status[k] /\ built'[k] = built[k] /\ why'[k] = why[k]
        BY <3>1, EndsEffect
      <4>2. QED
        BY <4>1
    <3>3. UNCHANGED <<source, sweep>> /\ \A k \in Job : closed[k] => closed'[k]
      BY <2>8, <1>1 DEF Works, links, LinkTypes
    <3>4. \A f \in Fix : Needy(f)' => Needy(f)
      BY <3>2, <3>3, JobFacts DEF Needy, Live
    <3>5. QED
      BY <3>2, <3>3, <3>4, <1>1, <1>3 DEF NeededUnlisted, ListedEnded, Needy, Live
  <2>9. ASSUME NEW p \in Proc, GateFails(p) PROVE NeededUnlisted'
    <3>1. PICK st \in {"PENDING", "FAILED", "DONE"}, b \in BOOLEAN, w \in {"none", "build", "gate"} :
             Ends(p, st, b, w)
      BY <2>9 DEF GateFails
    <3>2. /\ slot' = [slot EXCEPT ![p] = Idle]
          /\ \A k \in Job : \/ status'[k] = status[k]
                            \/ k = slot[p].job /\ status[k] = "RUNNING" /\ status'[k] = st
      <4>1. /\ slot' = [slot EXCEPT ![p] = Idle]
            /\ \A k \in Job :
                 \/ /\ k = slot[p].job /\ status[k] = "RUNNING"
                    /\ status'[k] = st /\ built'[k] = b /\ why'[k] = w
                 \/ status'[k] = status[k] /\ built'[k] = built[k] /\ why'[k] = why[k]
        BY <3>1, EndsEffect
      <4>2. QED
        BY <4>1
    <3>3. UNCHANGED <<source, sweep>> /\ \A k \in Job : closed[k] => closed'[k]
      BY <2>9, <1>1 DEF GateFails, links, LinkTypes
    <3>4. \A f \in Fix : Needy(f)' => Needy(f)
      BY <3>2, <3>3, JobFacts DEF Needy, Live
    <3>5. QED
      BY <3>2, <3>3, <3>4, <1>1, <1>3 DEF NeededUnlisted, ListedEnded, Needy, Live
  <2>10. ASSUME NEW p \in Proc, Lands(p) PROVE NeededUnlisted'
    <3>1. PICK st \in {"PENDING", "FAILED", "DONE"}, b \in BOOLEAN, w \in {"none", "build", "gate"} :
             Ends(p, st, b, w)
      BY <2>10 DEF Lands
    <3>2. /\ slot' = [slot EXCEPT ![p] = Idle]
          /\ \A k \in Job : \/ status'[k] = status[k]
                            \/ k = slot[p].job /\ status[k] = "RUNNING" /\ status'[k] = st
      <4>1. /\ slot' = [slot EXCEPT ![p] = Idle]
            /\ \A k \in Job :
                 \/ /\ k = slot[p].job /\ status[k] = "RUNNING"
                    /\ status'[k] = st /\ built'[k] = b /\ why'[k] = w
                 \/ status'[k] = status[k] /\ built'[k] = built[k] /\ why'[k] = why[k]
        BY <3>1, EndsEffect
      <4>2. QED
        BY <4>1
    <3>3. UNCHANGED <<source, sweep>> /\ \A k \in Job : closed[k] => closed'[k]
      BY <2>10, <1>1 DEF Lands, links, LinkTypes
    <3>4. \A f \in Fix : Needy(f)' => Needy(f)
      BY <3>2, <3>3, JobFacts DEF Needy, Live
    <3>5. QED
      BY <3>2, <3>3, <3>4, <1>1, <1>3 DEF NeededUnlisted, ListedEnded, Needy, Live
  <2>11. ASSUME NEW p \in Proc, SweepsBranch(p) PROVE NeededUnlisted'
    BY <2>11, <1>1
       DEF SweepsBranch, jobrow, links, rows, NeededUnlisted, Needy, SweepTypes, Live
  <2>12. ASSUME NEW p \in Proc, SweepsTree(p) PROVE NeededUnlisted'
    BY <2>12, <1>1
       DEF SweepsTree, jobrow, links, rows, NeededUnlisted, Needy, SweepTypes, NoSweep, Live
  <2>13. ASSUME NEW j \in Job, Cancel(j) PROVE NeededUnlisted'
    BY <2>13, <1>1
       DEF Cancel, Saves, Writes, links, git, NeededUnlisted, Needy, RowTypes, Live
  <2>14. ASSUME NEW j \in Job, Retry(j) PROVE NeededUnlisted'
    BY <2>14, <1>1
       DEF Retry, Saves, Writes, links, git, NeededUnlisted, Needy, Revivable, Listed, RowTypes,
           Live
  <2>15. ASSUME NEW j \in Job, Archive(j) PROVE NeededUnlisted'
    BY <2>15, <1>1
       DEF Archive, jobrow, NeededUnlisted, Needy, LinkTypes, Live
  <2>16. ASSUME NEW j \in Job, Expires(j) PROVE NeededUnlisted'
    BY <2>16, <1>1
       DEF Expires, links, git, NeededUnlisted, Needy, RowTypes, Live
  <2>17. ASSUME NEW j \in Job, Requeues(j) PROVE NeededUnlisted'
    <3>1. /\ UNCHANGED <<source, sweep, closed>>
          /\ \/ UNCHANGED status
             \/ /\ status' = [status EXCEPT ![j] = "PENDING"]
                /\ \A q \in Proc : /\ j \notin sweep[q].todo
                                   /\ j \in Fix => source[j].job \notin sweep[q].todo
      BY <2>17 DEF Requeues, Saves, Writes, links, rows, git, jobrow, Revivable, Listed
    <3>2. \A f \in Fix : Needy(f)' => Needy(f) \/ \A q \in Proc : source[f].job \notin sweep[q].todo
      BY <3>1, <1>1, JobFacts DEF Needy, RowTypes
    <3>3. \A k \in Job : status'[k] = "FAILED" => status[k] = "FAILED"
      BY <3>1, <1>1 DEF RowTypes
    <3>4. QED
      BY <3>1, <3>2, <3>3, <1>1, <1>3 DEF NeededUnlisted
  <2>18. ASSUME NEW j \in Job, Unblocks(j) PROVE NeededUnlisted'
    <3>1. /\ UNCHANGED <<source, sweep, closed>>
          /\ \/ UNCHANGED status
             \/ /\ status' = [status EXCEPT ![j] = "PENDING"]
                /\ \A q \in Proc : /\ j \notin sweep[q].todo
                                   /\ j \in Fix => source[j].job \notin sweep[q].todo
      BY <2>18 DEF Unblocks, Saves, Writes, links, rows, git, jobrow, Revivable, Listed
    <3>2. \A f \in Fix : Needy(f)' => Needy(f) \/ \A q \in Proc : source[f].job \notin sweep[q].todo
      BY <3>1, <1>1, JobFacts DEF Needy, RowTypes
    <3>3. \A k \in Job : status'[k] = "FAILED" => status[k] = "FAILED"
      BY <3>1, <1>1 DEF RowTypes
    <3>4. QED
      BY <3>1, <3>2, <3>3, <1>1, <1>3 DEF NeededUnlisted
  <2>19. ASSUME NEW j \in Job, NEW f \in Fix, Blocks(j, f) PROVE NeededUnlisted'
    BY <2>19, <1>1, ArtifactAssumption
       DEF Blocks, Writes, links, git, NeededUnlisted, Needy, ListedEnded, SlotsApart, Unfiled,
           SweepTypes, LinkTypes, NoSweep, NoSource, Revivable, Listed, RowTypes, SlotTypes, Live,
           Idle, Job
  <2>20. ASSUME NEW i \in Incident, FilesSome(i) PROVE NeededUnlisted'
    <3>1. PICK W \in SUBSET Fix : \E deps \in Orders(W), last \in W : Files(i, W, deps, last)
      BY <2>20 DEF FilesSome
    <3>2. PICK deps \in Orders(W), last \in W : Files(i, W, deps, last)
      BY <3>1
    <3>3. /\ UNCHANGED <<sweep, closed>>
          /\ \A q \in Proc : i \notin sweep[q].todo
      BY <3>2 DEF Files, Revivable, Listed
    <3>4. \A f \in W : source'[f].job = i
      BY <3>2 DEF Files
    <3>5. \A f \in Fix \ W : source'[f] = source[f] /\ status'[f] = status[f]
      BY <3>2, JobFacts DEF Files
    <3>6. \A k \in Job : status'[k] = "FAILED" => status[k] = "FAILED"
      BY <3>2 DEF Files
    <3>7. QED
      BY <3>3, <3>4, <3>5, <3>6, <1>1, <1>3 DEF NeededUnlisted, Needy
  <2>21. ASSUME NEW j \in Job, Drops(j) PROVE NeededUnlisted'
    BY <2>21, <1>1
       DEF Drops, DropsTree, DropsBranch, jobrow, links, rows, git, NeededUnlisted, Needy
  <2>22. QED
    BY <2>1, <2>2, <2>3, <2>4, <2>5, <2>6, <2>7, <2>8, <2>9, <2>10, <2>11, <2>12, <2>13, <2>14,
       <2>15, <2>16, <2>17, <2>18, <2>19, <2>20, <2>21, <1>0
       DEF ArtStep, GuardedStep, BlindStep, SlotStep, JobStep

LEMMA BranchesStep ==
    ASSUME ArtifactTypeOK, ArtStep, SlotsApart, SlotAt, Branches
    PROVE  Branches'
<1>0. ArtStep
  OBVIOUS
<1>1. /\ RowTypes /\ LinkTypes /\ GitTypes /\ SlotTypes /\ SweepTypes
      /\ SlotsApart /\ SlotAt /\ Branches
  BY DEF ArtifactTypeOK
<1>2. QED
  <2>1. ASSUME NEW p \in Proc, Yields(p) PROVE Branches'
    BY <2>1, <1>1
       DEF Yields, jobrow, links, rows, git, Branches, SlotTypes, Idle, Job
  <2>2. ASSUME NEW p \in Proc, Lists(p) PROVE Branches'
    BY <2>2, <1>1
       DEF Lists, SweepBegins, Orphans, OnDisk, Place, jobrow, links, rows, git, Branches, Job
  <2>3. ASSUME NEW p \in Proc, Sticks(p) PROVE Branches'
    BY <2>3, <1>1
       DEF Sticks, At, jobrow, links, rows, git, Branches, SlotTypes, Job
  <2>4. ASSUME NEW p \in Proc, NEW j \in Job, Claims(p, j) PROVE Branches'
    BY <2>4, <1>1
       DEF Claims, links, git, Branches, RowTypes, SlotTypes, Idle, Job
  <2>5. ASSUME NEW p \in Proc, Clears(p) PROVE Branches'
    BY <2>5, <1>1
       DEF Clears, At, jobrow, links, rows, Branches, GitTypes, SlotTypes, Job
  <2>6. ASSUME NEW p \in Proc, Creates(p) PROVE Branches'
    <3> DEFINE s == slot[p].job
    <3>1. slot[p].at = "create" /\ ~built[s] /\ tree[s] # "here"
      BY <2>6, <1>1 DEF Creates, SlotAt
    <3>2. s \in Job /\ status[s] \in {"RUNNING", "CANCELLED"}
      BY <3>1, <1>1 DEF SlotsApart, SlotTypes
    <3>3. \A k \in Job : k # s => branch'[k] = branch[k] /\ (tree'[k] = "here" => tree[k] = "here")
      BY <2>6, <1>1 DEF Creates, GitTypes
    <3>4. UNCHANGED builds
      BY <2>6 DEF Creates
    <3>5. CASE tree'[s] = "here" /\ branch'[s] = 0 /\ UNCHANGED jobrow
      BY <3>1, <3>2, <3>3, <3>4, <3>5, <1>1, ArtifactAssumption DEF Branches, jobrow, GitTypes
    <3>6. CASE tree'[s] # "here" /\ branch'[s] = None /\ Ends(p, "FAILED", FALSE, "build")
      <4>1. \A k \in Job : /\ built'[k] => built[k] /\ k # s
                           /\ why'[k] = "gate" => why[k] = "gate" /\ k # s
                           /\ status'[k] = "DONE" => status[k] = "DONE"
        <5>1. \A k \in Job :
                \/ /\ k = s /\ status[k] = "RUNNING"
                   /\ status'[k] = "FAILED" /\ built'[k] = FALSE /\ why'[k] = "build"
                \/ status'[k] = status[k] /\ built'[k] = built[k] /\ why'[k] = why[k]
          BY <3>6, EndsEffect, Zenon
        <5>2. why[s] # "gate"
          BY <3>1, <3>2, <1>1 DEF Branches
        <5>3. QED
          BY <3>1, <5>1, <5>2
      <4>2. \A k \in Job : k # s => built'[k] = built[k]
        <5>1. PICK b \in BOOLEAN : b = FALSE /\ Ends(p, "FAILED", b, "build")
          BY <3>6
        <5>2. QED
          BY <5>1, EndsEffect
      <4>3. QED
        BY <3>2, <3>3, <3>4, <3>6, <4>1, <4>2, <1>1, ArtifactAssumption DEF Branches, GitTypes
    <3>7. QED
      <4>1. \/ tree'[s] = "here" /\ branch'[s] = 0 /\ UNCHANGED jobrow
            \/ branch'[s] = None /\ tree'[s] # "here" /\ Ends(p, "FAILED", FALSE, "build")
        BY <2>6, <3>1, <3>2, <1>1 DEF Creates, GitTypes
      <4>2. QED
        BY <4>1, <3>5, <3>6
  <2>7. ASSUME NEW p \in Proc, Seeds(p) PROVE Branches'
    BY <2>7, <1>1
       DEF Seeds, At, Captures, Ends, Frees, Running, Saves, Writes, jobrow, git, Branches,
           RowTypes, SlotTypes, Live, Idle, Job
  <2>8. ASSUME NEW p \in Proc, Works(p) PROVE Branches'
    BY <2>8, <1>1, ArtifactAssumption
       DEF Works, Ends, Frees, Running, Saves, Writes, jobrow, links, Branches, SlotAt, SlotsApart,
           GitTypes, RowTypes, SlotTypes, Live, Idle, Job
  <2>9. ASSUME NEW p \in Proc, GateFails(p) PROVE Branches'
    BY <2>9, <1>1, ArtifactAssumption
       DEF GateFails, Ends, Frees, Running, Saves, Writes, jobrow, links, git, Branches, SlotAt,
           SlotsApart, GitTypes, RowTypes, SlotTypes, Live, Idle, Job
  <2>10. ASSUME NEW p \in Proc, Lands(p) PROVE Branches'
    BY <2>10, <1>1, ArtifactAssumption
       DEF Lands, Ends, Frees, Running, Saves, Writes, jobrow, Branches, SlotAt, SlotsApart,
           GitTypes, RowTypes, SlotTypes, Live, Idle, Job
  <2>11. ASSUME NEW p \in Proc, SweepsBranch(p) PROVE Branches'
    BY <2>11, <1>1, ArtifactAssumption
       DEF SweepsBranch, jobrow, links, rows, Branches, SlotAt, SlotsApart, GitTypes, RowTypes,
           SlotTypes, Live, Idle, Job
  <2>12. ASSUME NEW p \in Proc, SweepsTree(p) PROVE Branches'
    BY <2>12, <1>1
       DEF SweepsTree, jobrow, links, rows, Branches, GitTypes, Job
  <2>13. ASSUME NEW j \in Job, Cancel(j) PROVE Branches'
    BY <2>13, <1>1
       DEF Cancel, Saves, Writes, links, git, Branches, RowTypes, Live, Job
  <2>14. ASSUME NEW j \in Job, Retry(j) PROVE Branches'
    BY <2>14, <1>1
       DEF Retry, Saves, Writes, links, git, Branches, RowTypes, Live, Job
  <2>15. ASSUME NEW j \in Job, Archive(j) PROVE Branches'
    BY <2>15, <1>1, ArtifactAssumption
       DEF Archive, jobrow, Branches, SlotAt, SlotsApart, GitTypes, RowTypes, SlotTypes, Live,
           Idle, Job
  <2>16. ASSUME NEW j \in Job, Expires(j) PROVE Branches'
    BY <2>16, <1>1
       DEF Expires, links, git, Branches, RowTypes, Job
  <2>17. ASSUME NEW j \in Job, Requeues(j) PROVE Branches'
    BY <2>17, <1>1
       DEF Requeues, Saves, Writes, jobrow, links, git, Branches, RowTypes, Live, Job
  <2>18. ASSUME NEW j \in Job, Unblocks(j) PROVE Branches'
    BY <2>18, <1>1
       DEF Unblocks, Saves, Writes, links, git, Branches, RowTypes, Live, Job
  <2>19. ASSUME NEW j \in Job, NEW f \in Fix, Blocks(j, f) PROVE Branches'
    BY <2>19, <1>1
       DEF Blocks, Writes, links, git, Branches, RowTypes, Live, Job
  <2>20. ASSUME NEW i \in Incident, FilesSome(i) PROVE Branches'
    BY <2>20, <1>1
       DEF FilesSome, Files, Orders, git, Branches, RowTypes, Job
  <2>21. ASSUME NEW j \in Job, Drops(j) PROVE Branches'
    <3>1. /\ UNCHANGED <<status, built, why, builds>>
          /\ \A k \in Job : \/ tree'[k] = tree[k] /\ branch'[k] = branch[k]
                            \/ tree'[k] = "none" /\ branch'[k] = branch[k]
                            \/ tree'[k] = "none" /\ branch'[k] = None
      BY <2>21, <1>1 DEF Drops, DropsTree, DropsBranch, jobrow, rows, GitTypes
    <3>2. QED
      BY <3>1, <1>1, ArtifactAssumption DEF Branches
  <2>22. QED
    BY <2>1, <2>2, <2>3, <2>4, <2>5, <2>6, <2>7, <2>8, <2>9, <2>10, <2>11, <2>12, <2>13, <2>14,
       <2>15, <2>16, <2>17, <2>18, <2>19, <2>20, <2>21, <1>0
       DEF ArtStep, GuardedStep, BlindStep, SlotStep, JobStep

LEMMA SlotAtStep ==
    ASSUME ArtifactTypeOK, ArtStep, SlotsApart, Branches, SlotAt
    PROVE  SlotAt'
<1>0. ArtStep
  OBVIOUS
<1>1. /\ RowTypes /\ LinkTypes /\ GitTypes /\ SlotTypes /\ SweepTypes
      /\ SlotsApart /\ Branches /\ SlotAt
  BY DEF ArtifactTypeOK
<1>2. QED
  <2>1. ASSUME NEW p \in Proc, Yields(p) PROVE SlotAt'
    BY <2>1, <1>1
       DEF Yields, jobrow, links, rows, git, SlotAt, SlotTypes, Idle
  <2>2. ASSUME NEW p \in Proc, Lists(p) PROVE SlotAt'
    BY <2>2, <1>1
       DEF Lists, SweepBegins, Orphans, OnDisk, Place, jobrow, links, rows, git, SlotAt, Job
  <2>3. ASSUME NEW p \in Proc, Sticks(p) PROVE SlotAt'
    BY <2>3, <1>1
       DEF Sticks, At, jobrow, links, rows, git, SlotAt, SlotTypes
  <2>4. ASSUME NEW p \in Proc, NEW j \in Job, Claims(p, j) PROVE SlotAt'
    BY <2>4, <1>1
       DEF Claims, links, git, SlotAt, RowTypes, SlotTypes, Idle
  <2>5. ASSUME NEW p \in Proc, Clears(p) PROVE SlotAt'
    BY <2>5, <1>1, ArtifactAssumption
       DEF Clears, At, jobrow, links, rows, SlotAt, Branches, SlotsApart, GitTypes, Steps,
           RowTypes, SlotTypes, Live, Idle, Job
  <2>6. ASSUME NEW p \in Proc, Creates(p) PROVE SlotAt'
    <3> DEFINE s == slot[p].job
    <3>1. slot[p].at = "create" /\ ~built[s] /\ s \in Job
      BY <2>6, <1>1 DEF Creates, SlotAt, SlotsApart, SlotTypes
    <3>2. \A q \in Proc \ {p} : slot[q].job # s
      BY <3>1, <1>1, JobFacts DEF SlotsApart
    <3>3. \A k \in Job : k # s => branch'[k] = branch[k] /\ (tree'[k] = "here" => tree[k] = "here")
      BY <2>6, <1>1 DEF Creates, GitTypes
    <3>4. CASE /\ branch'[s] = 0 /\ UNCHANGED built
               /\ \E at \in {"seed", "work"} : slot' = [slot EXCEPT ![p].at = at]
      BY <3>1, <3>2, <3>3, <3>4, <1>1 DEF SlotAt, SlotsApart, SlotTypes
    <3>5. CASE Ends(p, "FAILED", FALSE, "build")
      <4>1. /\ slot' = [slot EXCEPT ![p] = Idle]
            /\ \A k \in Job : k # s => built'[k] = built[k]
        BY <3>5, EndsEffect
      <4>2. \A q \in Proc : q # p => slot'[q] = slot[q]
        BY <4>1, <1>1 DEF SlotTypes
      <4>3. slot'[p] = Idle
        BY <4>1, <1>1 DEF SlotTypes
      <4>4. \A q \in Proc \ {p} : slot[q].at # "idle" => slot[q].job \in Job
        BY <1>1 DEF SlotsApart, SlotTypes
      <4>5. QED
        BY <3>2, <3>3, <4>1, <4>2, <4>3, <4>4, <1>1 DEF SlotAt, Idle
    <3>6. QED
      BY <2>6, <3>1, <3>4, <3>5, <1>1 DEF Creates, At, GitTypes, jobrow
  <2>7. ASSUME NEW p \in Proc, Seeds(p) PROVE SlotAt'
    BY <2>7, <1>1, ArtifactAssumption
       DEF Seeds, At, Captures, Ends, Frees, Running, Saves, Writes, jobrow, git, SlotAt, Branches,
           SlotsApart, GitTypes, Steps, RowTypes, SlotTypes, Live, Idle, Job
  <2>8. ASSUME NEW p \in Proc, Works(p) PROVE SlotAt'
    <3> DEFINE s == slot[p].job
    <3>1. PICK st \in {"PENDING", "FAILED", "DONE"}, b \in BOOLEAN, w \in {"none", "build", "gate"} :
             Ends(p, st, b, w)
      BY <2>8 DEF Works
    <3>2. /\ slot' = [slot EXCEPT ![p] = Idle]
          /\ \A k \in Job : k # s => built'[k] = built[k]
      BY <3>1, EndsEffect
    <3>3. s \in Job /\ \A q \in Proc \ {p} : slot[q].job # s
      BY <2>8, <1>1, JobFacts DEF Works, SlotsApart, SlotTypes
    <3>4. \A k \in Job : k # s => tree'[k] = tree[k] /\ branch'[k] = branch[k]
      BY <2>8, <1>1 DEF Works, git, GitTypes
    <3>5. \A q \in Proc : q # p => slot'[q] = slot[q]
      BY <3>2, <1>1 DEF SlotTypes
    <3>6. slot'[p] = Idle
      BY <3>2, <1>1 DEF SlotTypes
    <3>7. \A q \in Proc \ {p} : slot[q].at # "idle" => slot[q].job \in Job
      BY <1>1 DEF SlotsApart, SlotTypes
    <3>8. QED
      BY <3>2, <3>3, <3>4, <3>5, <3>6, <3>7, <1>1 DEF SlotAt, Idle
  <2>9. ASSUME NEW p \in Proc, GateFails(p) PROVE SlotAt'
    <3> DEFINE s == slot[p].job
    <3>1. PICK st \in {"PENDING", "FAILED", "DONE"}, b \in BOOLEAN, w \in {"none", "build", "gate"} :
             Ends(p, st, b, w)
      BY <2>9 DEF GateFails
    <3>2. /\ slot' = [slot EXCEPT ![p] = Idle]
          /\ \A k \in Job : k # s => built'[k] = built[k]
      BY <3>1, EndsEffect
    <3>3. s \in Job /\ \A q \in Proc \ {p} : slot[q].job # s
      BY <2>9, <1>1, JobFacts DEF GateFails, SlotsApart, SlotTypes
    <3>4. \A k \in Job : k # s => tree'[k] = tree[k] /\ branch'[k] = branch[k]
      BY <2>9, <1>1 DEF GateFails, git, GitTypes
    <3>5. \A q \in Proc : q # p => slot'[q] = slot[q]
      BY <3>2, <1>1 DEF SlotTypes
    <3>6. slot'[p] = Idle
      BY <3>2, <1>1 DEF SlotTypes
    <3>7. \A q \in Proc \ {p} : slot[q].at # "idle" => slot[q].job \in Job
      BY <1>1 DEF SlotsApart, SlotTypes
    <3>8. QED
      BY <3>2, <3>3, <3>4, <3>5, <3>6, <3>7, <1>1 DEF SlotAt, Idle
  <2>10. ASSUME NEW p \in Proc, Lands(p) PROVE SlotAt'
    <3> DEFINE s == slot[p].job
    <3>1. PICK st \in {"PENDING", "FAILED", "DONE"}, b \in BOOLEAN, w \in {"none", "build", "gate"} :
             Ends(p, st, b, w)
      BY <2>10 DEF Lands
    <3>2. /\ slot' = [slot EXCEPT ![p] = Idle]
          /\ \A k \in Job : k # s => built'[k] = built[k]
      BY <3>1, EndsEffect
    <3>3. s \in Job /\ \A q \in Proc \ {p} : slot[q].job # s
      BY <2>10, <1>1, JobFacts DEF Lands, SlotsApart, SlotTypes
    <3>4. \A k \in Job : k # s => tree'[k] = tree[k] /\ branch'[k] = branch[k]
      BY <2>10, <1>1 DEF Lands, git, GitTypes
    <3>5. \A q \in Proc : q # p => slot'[q] = slot[q]
      BY <3>2, <1>1 DEF SlotTypes
    <3>6. slot'[p] = Idle
      BY <3>2, <1>1 DEF SlotTypes
    <3>7. \A q \in Proc \ {p} : slot[q].at # "idle" => slot[q].job \in Job
      BY <1>1 DEF SlotsApart, SlotTypes
    <3>8. QED
      BY <3>2, <3>3, <3>4, <3>5, <3>6, <3>7, <1>1 DEF SlotAt, Idle
  <2>11. ASSUME NEW p \in Proc, SweepsBranch(p) PROVE SlotAt'
    BY <2>11, <1>1
       DEF SweepsBranch, jobrow, links, rows, SlotAt, GitTypes
  <2>12. ASSUME NEW p \in Proc, SweepsTree(p) PROVE SlotAt'
    BY <2>12, <1>1
       DEF SweepsTree, jobrow, links, rows, SlotAt, GitTypes
  <2>13. ASSUME NEW j \in Job, Cancel(j) PROVE SlotAt'
    BY <2>13, <1>1
       DEF Cancel, Saves, Writes, links, git, SlotAt, RowTypes, Live
  <2>14. ASSUME NEW j \in Job, Retry(j) PROVE SlotAt'
    BY <2>14, <1>1
       DEF Retry, Saves, Writes, links, git, SlotAt, RowTypes, Live
  <2>15. ASSUME NEW j \in Job, Archive(j) PROVE SlotAt'
    BY <2>15, <1>1
       DEF Archive, jobrow, SlotAt, GitTypes
  <2>16. ASSUME NEW j \in Job, Expires(j) PROVE SlotAt'
    BY <2>16, <1>1
       DEF Expires, links, git, SlotAt, RowTypes
  <2>17. ASSUME NEW j \in Job, Requeues(j) PROVE SlotAt'
    <3>1. /\ UNCHANGED <<git, slot>>
          /\ \/ UNCHANGED built
             \/ status[j] = "FAILED" /\ built' = [built EXCEPT ![j] = FALSE]
      BY <2>17 DEF Requeues, Saves, Writes, jobrow
    <3>2. \A q \in Proc : slot[q].job = j => status[j] # "FAILED"
      BY <1>1, JobFacts DEF SlotsApart
    <3>3. \A q \in Proc : slot[q].at # "idle" => slot[q].job \in Job
      BY <1>1 DEF SlotsApart, SlotTypes
    <3>4. QED
      BY <3>1, <3>2, <3>3, <1>1 DEF SlotAt, RowTypes, git
  <2>18. ASSUME NEW j \in Job, Unblocks(j) PROVE SlotAt'
    BY <2>18, <1>1, ArtifactAssumption
       DEF Unblocks, Saves, Writes, links, git, SlotAt, Branches, SlotsApart, GitTypes, Steps,
           RowTypes, SlotTypes, Live, Idle, Job
  <2>19. ASSUME NEW j \in Job, NEW f \in Fix, Blocks(j, f) PROVE SlotAt'
    BY <2>19, <1>1
       DEF Blocks, Writes, links, git, SlotAt, RowTypes, Live
  <2>20. ASSUME NEW i \in Incident, FilesSome(i) PROVE SlotAt'
    BY <2>20, <1>1
       DEF FilesSome, Files, Orders, git, SlotAt, RowTypes, Job
  <2>21. ASSUME NEW j \in Job, Drops(j) PROVE SlotAt'
    <3>1. /\ UNCHANGED <<built, slot>>
          /\ \A k \in Job : /\ tree'[k] = "here" => tree[k] = "here"
                            /\ branch'[k] \in {branch[k], None}
      BY <2>21, <1>1 DEF Drops, DropsTree, DropsBranch, jobrow, rows, GitTypes
    <3>2. \A q \in Proc : slot[q].at # "idle" => slot[q].job \in Job
      BY <1>1 DEF SlotsApart, SlotTypes
    <3>3. QED
      BY <3>1, <3>2, <1>1 DEF SlotAt
  <2>22. QED
    BY <2>1, <2>2, <2>3, <2>4, <2>5, <2>6, <2>7, <2>8, <2>9, <2>10, <2>11, <2>12, <2>13, <2>14,
       <2>15, <2>16, <2>17, <2>18, <2>19, <2>20, <2>21, <1>0
       DEF ArtStep, GuardedStep, BlindStep, SlotStep, JobStep

LEMMA SourcesStep ==
    ASSUME ArtifactTypeOK, SecureStep, SlotsApart, SlotAt, Branches, Sources
    PROVE  Sources'
<1>0. SecureStep
  OBVIOUS
<1>1. /\ RowTypes /\ LinkTypes /\ GitTypes /\ SlotTypes /\ SweepTypes
      /\ SlotsApart /\ SlotAt /\ Branches /\ Sources
  BY DEF ArtifactTypeOK
<1>2. QED
  <2>1. ASSUME NEW p \in Proc, Yields(p) PROVE Sources'
    BY <2>1, <1>1
       DEF Yields, jobrow, links, rows, git, Sources, SlotTypes, Idle
  <2>2. ASSUME NEW p \in Proc, Lists(p) PROVE Sources'
    BY <2>2, <1>1
       DEF Lists, SweepBegins, Orphans, OnDisk, Place, jobrow, links, rows, git, Sources, Job
  <2>3. ASSUME NEW p \in Proc, Sticks(p) PROVE Sources'
    BY <2>3, <1>1
       DEF Sticks, At, jobrow, links, rows, git, Sources, SlotTypes
  <2>4. ASSUME NEW p \in Proc, NEW j \in Job, Claims(p, j) PROVE Sources'
    BY <2>4, <1>1
       DEF Claims, links, git, Sources, RowTypes, SlotTypes, Idle
  <2>5. ASSUME NEW p \in Proc, Clears(p) PROVE Sources'
    BY <2>5, <1>1
       DEF Clears, At, jobrow, links, rows, Sources, GitTypes, SlotTypes
  <2>6. ASSUME NEW p \in Proc, Creates(p) PROVE Sources'
    BY <2>6, <1>1
       DEF Creates, At, Ends, Frees, Running, Saves, Writes, jobrow, links, Sources, GitTypes,
           RowTypes, SlotTypes, Live, Idle, Job
  <2>7. ASSUME NEW p \in Proc, Seeds(p) PROVE Sources'
    <3>1. UNCHANGED git /\ \A f \in Fix : source'[f].job = source[f].job /\ source'[f].sha = source[f].sha
      <4>1. UNCHANGED git /\ (UNCHANGED source \/ source' = [source EXCEPT ![slot[p].job].captured = TRUE])
        BY <2>7 DEF Seeds, Captures
      <4>2. QED
        BY <4>1, <1>1 DEF LinkTypes
    <3>2. UNCHANGED why \/ Ends(p, "FAILED", FALSE, "source")
      BY <2>7 DEF Seeds, jobrow
    <3>3. ASSUME Ends(p, "FAILED", FALSE, "source")
          PROVE  \A k \in Job : why'[k] = "build" => why[k] = "build"
      <4>1. why' = [why EXCEPT ![slot[p].job] = "source"] \/ UNCHANGED why
        BY <3>3 DEF Ends, Saves, Writes, jobrow
      <4>2. QED
        BY <4>1, <1>1 DEF RowTypes
    <3>4. QED
      BY <3>1, <3>2, <3>3, <1>1, JobFacts DEF Sources, git
  <2>8. ASSUME NEW p \in Proc, Works(p) PROVE Sources'
    <3> DEFINE s == slot[p].job
    <3>1. s \in Job /\ branch[s] \in {None, 0}
      BY <2>8, <1>1 DEF Works, SlotAt, SlotsApart, SlotTypes
    <3>2. UNCHANGED source
      BY <2>8 DEF Works, links
    <3>3. \A k \in Job : k # s => branch'[k] = branch[k] /\ builds'[k] = builds[k] /\ why'[k] = why[k]
      <4>1. \E st \in {"PENDING", "FAILED"}, b \in BOOLEAN, w \in {"none", "build"} : Ends(p, st, b, w)
        BY <2>8 DEF Works
      <4>2. \A k \in Job : k # s => why'[k] = why[k]
        BY <4>1, EndsEffect
      <4>3. QED
        BY <2>8, <4>2, <1>1 DEF Works, GitTypes
    <3>4. \/ branch'[s] = branch[s] /\ builds'[s] = builds[s]
          \/ branch'[s] = builds[s] + 1 /\ builds'[s] = builds[s] + 1
      BY <2>8, <3>1, <1>1 DEF Works, GitTypes
    <3>5. \A f \in Fix : source[f].sha # None =>
             source[f].job \in Job /\ source[f].sha \in Int /\ builds[source[f].job] \in Int
      BY <1>1, JobFacts DEF Sources, LinkTypes, GitTypes
    <3>6. QED
      BY <3>1, <3>2, <3>3, <3>4, <3>5, <1>1, ArtifactAssumption DEF Sources
  <2>9. ASSUME NEW p \in Proc, GateFails(p) PROVE Sources'
    <3>1. UNCHANGED <<git, source>>
      BY <2>9 DEF GateFails, links
    <3>2. Ends(p, "FAILED", TRUE, "gate")
      BY <2>9 DEF GateFails
    <3>3. \A k \in Job : why'[k] = "build" => why[k] = "build"
      <4>1. why' = [why EXCEPT ![slot[p].job] = "gate"] \/ UNCHANGED why
        BY <3>2 DEF Ends, Saves, Writes, jobrow
      <4>2. QED
        BY <4>1, <1>1 DEF RowTypes
    <3>4. QED
      BY <3>1, <3>3, <1>1, JobFacts DEF Sources, git
  <2>10. ASSUME NEW p \in Proc, Lands(p) PROVE Sources'
    <3> DEFINE s == slot[p].job
    <3>1. UNCHANGED <<source, builds>>
      BY <2>10 DEF Lands
    <3>2. Ends(p, "DONE", TRUE, "none")
      BY <2>10 DEF Lands
    <3>3. \A k \in Job : why'[k] = "build" => why[k] = "build"
      <4>1. why' = [why EXCEPT ![slot[p].job] = "none"] \/ UNCHANGED why
        BY <3>2 DEF Ends, Saves, Writes, jobrow
      <4>2. QED
        BY <4>1, <1>1 DEF RowTypes
    <3>4. \A k \in Job : branch'[k] = branch[k] \/ branch'[k] = None
      BY <2>10, <1>1 DEF Lands, GitTypes
    <3>5. QED
      BY <3>1, <3>3, <3>4, <1>1, JobFacts, ArtifactAssumption DEF Sources
  <2>11. ASSUME NEW p \in Proc, SweepsBranch(p) PROVE Sources'
    BY <2>11, <1>1
       DEF SweepsBranch, jobrow, links, rows, Sources, GitTypes
  <2>12. ASSUME NEW p \in Proc, SweepsTree(p) PROVE Sources'
    BY <2>12, <1>1
       DEF SweepsTree, jobrow, links, rows, Sources, GitTypes
  <2>13. ASSUME NEW j \in Job, Cancel(j) PROVE Sources'
    BY <2>13, <1>1
       DEF Cancel, Saves, Writes, links, git, Sources, RowTypes, Live
  <2>14. ASSUME NEW j \in Job, Retry(j) PROVE Sources'
    BY <2>14, <1>1
       DEF Retry, Saves, Writes, links, git, Sources, RowTypes, Live
  <2>15. ASSUME NEW j \in Job, Archive(j) PROVE Sources'
    BY <2>15, <1>1
       DEF Archive, jobrow, Sources, GitTypes, LinkTypes
  <2>16. ASSUME NEW j \in Job, Expires(j) PROVE Sources'
    BY <2>16, <1>1
       DEF Expires, links, git, Sources, RowTypes
  <2>17. ASSUME NEW j \in Job, Requeues(j) PROVE Sources'
    <3>1. /\ UNCHANGED <<git, source>>
          /\ UNCHANGED why \/ why' = [why EXCEPT ![j] = "none"]
      BY <2>17 DEF Requeues, Saves, Writes, jobrow, links
    <3>2. \A k \in Job : why'[k] = "build" => why[k] = "build"
      BY <3>1, <1>1 DEF RowTypes
    <3>3. QED
      BY <3>1, <3>2, <1>1, JobFacts DEF Sources, git
  <2>18. ASSUME NEW j \in Job, Unblocks(j) PROVE Sources'
    BY <2>18, <1>1
       DEF Unblocks, Saves, Writes, links, git, Sources, RowTypes, Live
  <2>19. ASSUME NEW j \in Job, NEW f \in Fix, Blocks(j, f) PROVE Sources'
    BY <2>19, <1>1
       DEF Blocks, Writes, links, git, Sources, RowTypes, Live
  <2>20. ASSUME NEW i \in Incident, FilesSome(i), why[i] = "gate" PROVE Sources'
    BY <2>20, <1>1, ArtifactAssumption
       DEF FilesSome, Files, Orders, git, Sources, SlotAt, Branches, SlotsApart, GitTypes,
           LinkTypes, NoSource, RowTypes, SlotTypes, Live, Idle, Job
  <2>21. ASSUME NEW j \in Job, Drops(j) PROVE Sources'
    BY <2>21, <1>1
       DEF Drops, DropsTree, DropsBranch, jobrow, links, rows, git, Sources, GitTypes, LinkTypes, Job
  <2>22. QED
    BY <2>1, <2>2, <2>3, <2>4, <2>5, <2>6, <2>7, <2>8, <2>9, <2>10, <2>11, <2>12, <2>13, <2>14,
       <2>15, <2>16, <2>17, <2>18, <2>19, <2>20, <2>21, <1>0
       DEF SecureStep, GuardedStep, TimelyStep, SlotStep, JobStep

-----------------------------------------------------------------------------
(* The processes *)

FleetTypes ==
    /\ ph \in [Proc -> {"off", "boot", "live", "drain"}]
    /\ sup \in [Proc -> {"off", "standby", "leader", "dead"}]
    /\ scan \in [Proc -> {"no", "triage", "sweep"}]
    /\ behind \in [Proc -> Incident \union {None}]
    /\ failed \in [Proc -> [Job -> {"none", "build", "gate"}]]
    /\ felled \in [Proc -> [job : Job \union {None}, at : {"no", "branch", "row"}]]
    /\ lock \in Proc \union {None}
    /\ row \in [Proc -> Job \union {None, IdleRow}]
    /\ fresh \in [Job -> BOOLEAN]
    /\ wedge \in BOOLEAN

FleetShape ==
    \A p \in Proc : /\ sup[p] # "off" => ph[p] = "live"
                    /\ scan[p] # "no" => sup[p] = "leader"
                    /\ behind[p] # None => scan[p] = "triage"
                    /\ felled[p] # Unfelled => scan[p] = "triage" /\ felled[p].job # None
                    /\ slot[p] # Idle => ph[p] \in {"live", "drain"}

\* What a scan does to the artifacts, by its list.
ScanStep ==
    /\ \E p \in Proc :
          \/ \E j \in Job : (failed[p][j] = "build" \/ felled[p].job = j) /\ Drops(j)
          \/ \E i \in Incident : failed[p][i] = "gate" /\ FilesSome(i)
    /\ UNCHANGED trouble

GuardedArtStep == GuardedStep /\ Spends

\* Whatever a process does, the artifacts see a step of these or none.
LEMMA FleetArt ==
    ASSUME FleetTypeOK, FleetNext
    PROVE  GuardedArtStep \/ ScanStep \/ UNCHANGED avars
<1>1. ASSUME NEW p \in Proc, Boots(p) PROVE GuardedArtStep \/ UNCHANGED avars
  <2>1. Lists(p) /\ (UNCHANGED trouble \/ Hit)
    BY <1>1 DEF Boots, Lists
  <2>2. QED
    BY <2>1 DEF GuardedArtStep, GuardedStep, Spends
<1>2. ASSUME NEW p \in Proc, GoesLive(p) PROVE GuardedArtStep \/ UNCHANGED avars
  BY <1>2 DEF GoesLive
<1>3. ASSUME NEW p \in Proc, Stops(p) PROVE GuardedArtStep \/ UNCHANGED avars
  <2>1. Yields(p) /\ (UNCHANGED trouble \/ Hit)
    BY <1>3 DEF Stops, SupervisorStops, BreaksOff, Frees, Yields
  <2>2. QED
    BY <2>1 DEF GuardedArtStep, GuardedStep, Spends
<1>4. ASSUME NEW p \in Proc, Drains(p) PROVE GuardedArtStep \/ UNCHANGED avars
  <2>1. Yields(p) /\ (UNCHANGED trouble \/ Hit)
    BY <1>4 DEF Drains, SupervisorStops, BreaksOff, Yields
  <2>2. QED
    BY <2>1 DEF GuardedArtStep, GuardedStep, Spends
<1>5. ASSUME NEW p \in Proc, DrainEnds(p) PROVE GuardedArtStep \/ UNCHANGED avars
  <2>1. Yields(p) /\ (UNCHANGED trouble \/ Hit)
    BY <1>5 DEF DrainEnds, Frees, Yields
  <2>2. QED
    BY <2>1 DEF GuardedArtStep, GuardedStep, Spends
<1>6. ASSUME NEW p \in Proc, Dies(p) PROVE GuardedArtStep \/ UNCHANGED avars
  <2>1. Yields(p) /\ (UNCHANGED trouble \/ Hit)
    BY <1>6 DEF Dies, SupervisorStops, BreaksOff, Frees, Yields
  <2>2. QED
    BY <2>1 DEF GuardedArtStep, GuardedStep, Spends
<1>7. ASSUME NEW p \in Proc, Ages(p) PROVE GuardedArtStep \/ UNCHANGED avars
  BY <1>7 DEF Ages
<1>8. ASSUME NEW p \in Proc, Takes(p) PROVE GuardedArtStep \/ UNCHANGED avars
  <2>1. SlotStep(p)
    BY <1>8 DEF Takes, SlotStep
  <2>2. UNCHANGED trouble \/ Hit
    BY <1>8 DEF Takes, Claims
  <2>3. QED
    BY <2>1, <2>2 DEF GuardedArtStep, GuardedStep, Spends
<1>9. ASSUME NEW p \in Proc, Runs(p) PROVE GuardedArtStep \/ UNCHANGED avars
  <2>1. SlotStep(p)
    BY <1>9 DEF Runs, SlotStep
  <2>2. UNCHANGED trouble \/ Hit
    BY <1>9 DEF Runs, Clears, Creates, Seeds, Works, GateFails, Lands
  <2>3. QED
    BY <2>1, <2>2 DEF GuardedArtStep, GuardedStep, Spends
<1>10. ASSUME NEW p \in Proc, Hangs(p) PROVE GuardedArtStep \/ UNCHANGED avars
  <2>1. Sticks(p) /\ (UNCHANGED trouble \/ Hit)
    BY <1>10 DEF Hangs, Sticks
  <2>2. QED
    BY <2>1 DEF GuardedArtStep, GuardedStep, Spends
<1>11. ASSUME NEW p \in Proc, Beats(p) PROVE GuardedArtStep \/ UNCHANGED avars
  BY <1>11 DEF Beats
<1>12. ASSUME NEW p \in Proc, Elects(p) PROVE GuardedArtStep \/ UNCHANGED avars
  BY <1>12 DEF Elects
<1>13. ASSUME NEW p \in Proc, LosesLock(p) PROVE GuardedArtStep \/ UNCHANGED avars
  <2>1. Yields(p) /\ (UNCHANGED trouble \/ Hit)
    BY <1>13 DEF LosesLock, Yields
  <2>2. QED
    BY <2>1 DEF GuardedArtStep, GuardedStep, Spends
<1>14. ASSUME NEW p \in Proc, ElectionEnds(p) PROVE GuardedArtStep \/ UNCHANGED avars
  <2>1. Yields(p) /\ (UNCHANGED trouble \/ Hit)
    BY <1>14 DEF ElectionEnds, BreaksOff, Yields
  <2>2. QED
    BY <2>1 DEF GuardedArtStep, GuardedStep, Spends
<1>15. ASSUME NEW p \in Proc, ScanBegins(p) PROVE GuardedArtStep \/ UNCHANGED avars
  BY <1>15 DEF ScanBegins
<1>16. ASSUME NEW p \in Proc, Fells(p) PROVE ScanStep
  BY <1>16 DEF Fells, ScanStep, Drops, DropsTree
<1>17. ASSUME NEW p \in Proc, FellsBranch(p) PROVE ScanStep
  <2>1. felled[p].job \in Job
    BY <1>17 DEF FellsBranch, FleetTypeOK, Unfelled
  <2>2. QED
    BY <1>17, <2>1 DEF FellsBranch, ScanStep, Drops, DropsBranch
<1>18. ASSUME NEW p \in Proc, Restarts(p) PROVE GuardedArtStep \/ UNCHANGED avars
  <2>1. felled[p].job \in Job
    BY <1>18 DEF Restarts, FleetTypeOK, Unfelled
  <2>2. JobStep(felled[p].job) /\ UNCHANGED trouble
    BY <1>18 DEF Restarts, JobStep, Requeues
  <2>3. QED
    BY <2>1, <2>2 DEF GuardedArtStep, GuardedStep, Spends
<1>19. ASSUME NEW p \in Proc, Fails(p) PROVE GuardedArtStep \/ UNCHANGED avars
  <2>1. PICK j \in Job : JobStep(j) /\ UNCHANGED trouble
    BY <1>19 DEF Fails, JobStep, Blocks
  <2>2. QED
    BY <2>1 DEF GuardedArtStep, GuardedStep, Spends
<1>20. ASSUME NEW p \in Proc, FilesWave(p) PROVE ScanStep
  <2>1. PICK i \in Incident, W \in SUBSET Fix : \E deps \in Orders(W), last \in W :
          failed[p][i] = "gate" /\ Files(i, W, deps, last)
    BY <1>20 DEF FilesWave
  <2>2. UNCHANGED trouble
    BY <2>1 DEF Files
  <2>3. QED
    BY <2>1, <2>2 DEF ScanStep, FilesSome
<1>21. ASSUME NEW p \in Proc, QueuesBehind(p) PROVE GuardedArtStep \/ UNCHANGED avars
  <2>1. behind[p] \in Incident /\ Requeues(behind[p])
    BY <1>21 DEF QueuesBehind, FleetTypeOK
  <2>2. behind[p] \in Job /\ JobStep(behind[p]) /\ UNCHANGED trouble
    BY <2>1, JobFacts DEF Requeues, JobStep
  <2>3. QED
    BY <2>2 DEF GuardedArtStep, GuardedStep, Spends
<1>22. ASSUME NEW p \in Proc, Wakes(p) PROVE GuardedArtStep \/ UNCHANGED avars
  <2>1. PICK j \in Job : JobStep(j) /\ UNCHANGED trouble
    BY <1>22 DEF Wakes, JobStep, Unblocks
  <2>2. QED
    BY <2>1 DEF GuardedArtStep, GuardedStep, Spends
<1>23. ASSUME NEW p \in Proc, Collects(p) PROVE GuardedArtStep \/ UNCHANGED avars
  <2>1. Lists(p) /\ (UNCHANGED trouble \/ Hit)
    BY <1>23 DEF Collects, Lists
  <2>2. QED
    BY <2>1 DEF GuardedArtStep, GuardedStep, Spends
<1>24. ASSUME NEW p \in Proc, Sweeps(p) PROVE GuardedArtStep \/ UNCHANGED avars
  <2>1. SweepsBranch(p) \/ SweepsTree(p)
    BY <1>24 DEF Sweeps
  <2>2. UNCHANGED trouble
    BY <2>1 DEF SweepsBranch, SweepsTree
  <2>3. QED
    BY <2>1, <2>2 DEF GuardedArtStep, GuardedStep, Spends
<1>25. ASSUME NEW p \in Proc, ScanEnds(p) PROVE GuardedArtStep \/ UNCHANGED avars
  BY <1>25 DEF ScanEnds
<1>26. ASSUME NEW j \in Job, Operator(j) PROVE GuardedArtStep \/ UNCHANGED avars
  <2>1. JobStep(j)
    BY <1>26 DEF Operator, JobStep
  <2>2. UNCHANGED trouble \/ Hit
    BY <1>26 DEF Operator, Cancel, Retry, Archive, Expires
  <2>3. QED
    BY <2>1, <2>2 DEF GuardedArtStep, GuardedStep, Spends
<1>27. ASSUME NEW j \in Job, Stales(j) PROVE GuardedArtStep \/ UNCHANGED avars
  BY <1>27 DEF Stales
<1>28. ASSUME NEW p \in Proc, Remedies(p)
       PROVE GuardedArtStep \/ ScanStep \/ UNCHANGED avars
  BY <1>28, <1>16, <1>17, <1>18, <1>19 DEF Remedies
<1>29. QED
  <2>1. ASSUME NEW p \in Proc, FleetStep(p)
        PROVE GuardedArtStep \/ ScanStep \/ UNCHANGED avars
    BY <2>1, <1>1, <1>2, <1>3, <1>4, <1>5, <1>6, <1>7, <1>8, <1>9, <1>10, <1>11, <1>12, <1>13,
       <1>14, <1>15, <1>20, <1>21, <1>22, <1>23, <1>24, <1>25, <1>28
       DEF FleetStep
  <2>2. QED
    BY <2>1, <1>26, <1>27 DEF FleetNext

LEMMA FleetArtStep ==
    ASSUME FleetTypeOK, FleetNext
    PROVE  ArtStep \/ UNCHANGED avars
<1>1. GuardedArtStep => ArtStep
  BY DEF GuardedArtStep, ArtStep
<1>2. ScanStep => ArtStep
  BY DEF ScanStep, ArtStep, BlindStep, Spends
<1>3. QED
  BY <1>1, <1>2, FleetArt

LEMMA ArtStutters ==
    ASSUME ArtifactTypeOK, UNCHANGED avars
    PROVE  ArtifactTypeOK'
  BY DEF ArtifactTypeOK, RowTypes, LinkTypes, GitTypes, SlotTypes, SweepTypes, avars, rows,
         jobrow, links, git

LEMMA FleetInitTyped == FleetInit => FleetTypeOK
<1> SUFFICES ASSUME FleetInit PROVE FleetTypeOK
  OBVIOUS
<1>1. ArtifactTypeOK
  BY ArtifactAssumption
     DEF FleetInit, ArtifactInit, ArtifactTypeOK, RowTypes, LinkTypes, GitTypes, SlotTypes,
         SweepTypes,
         Idle, NoSweep, NoSource, Steps, Job
<1>2. FleetTypes /\ FleetShape
  BY DEF FleetInit, ArtifactInit, FleetTypes, FleetShape, Idle, Unlisted, Unfelled
<1>3. QED
  BY <1>1, <1>2 DEF FleetTypeOK, FleetTypes, FleetShape

LEMMA FleetTypesStep ==
    ASSUME FleetTypeOK, FleetNext
    PROVE  FleetTypes' /\ FleetShape'
<1>0. /\ FleetTypes /\ FleetShape
      /\ SlotTypes
  BY DEF FleetTypeOK, FleetTypes, FleetShape, ArtifactTypeOK
<1>1. ASSUME NEW p \in Proc, Boots(p) PROVE FleetTypes' /\ FleetShape'
  BY <1>1, <1>0 DEF Boots, FleetTypes, FleetShape, SlotTypes, Idle, fvars, scans, avars
<1>2. ASSUME NEW p \in Proc, GoesLive(p) PROVE FleetTypes' /\ FleetShape'
  BY <1>2, <1>0 DEF GoesLive, FleetTypes, FleetShape, SlotTypes, Idle, fvars, scans, avars
<1>3. ASSUME NEW p \in Proc, Stops(p) PROVE FleetTypes' /\ FleetShape'
  BY <1>3, <1>0
     DEF Stops, SupervisorStops, BreaksOff, Unlisted, Unfelled, scans, Frees, FleetTypes, FleetShape, SlotTypes, Idle, fvars, scans, avars
<1>4. ASSUME NEW p \in Proc, Drains(p) PROVE FleetTypes' /\ FleetShape'
  BY <1>4, <1>0 DEF Drains, SupervisorStops, BreaksOff, Unlisted, Unfelled, scans, FleetTypes, FleetShape, SlotTypes, Idle, fvars, scans, avars
<1>5. ASSUME NEW p \in Proc, DrainEnds(p) PROVE FleetTypes' /\ FleetShape'
  BY <1>5, <1>0 DEF DrainEnds, Frees, FleetTypes, FleetShape, SlotTypes, Idle, fvars, scans, avars
<1>6. ASSUME NEW p \in Proc, Dies(p) PROVE FleetTypes' /\ FleetShape'
  BY <1>6, <1>0
     DEF Dies, SupervisorStops, BreaksOff, Unlisted, Unfelled, scans, Frees, FleetTypes, FleetShape, SlotTypes, Idle, fvars, scans, avars
<1>7. ASSUME NEW p \in Proc, Ages(p) PROVE FleetTypes' /\ FleetShape'
  BY <1>7, <1>0 DEF Ages, FleetTypes, FleetShape, SlotTypes, Idle, fvars, scans, avars
<1>8. ASSUME NEW p \in Proc, Takes(p) PROVE FleetTypes' /\ FleetShape'
  BY <1>8, <1>0 DEF Takes, Claims, Touch, FleetTypes, FleetShape, SlotTypes, Idle, fvars, scans, avars
<1>9. ASSUME NEW p \in Proc, Runs(p) PROVE FleetTypes' /\ FleetShape'
  <2>1. /\ UNCHANGED <<ph, sup, scan, behind, failed, felled, lock, wedge>> /\ Touch
        /\ row' = [row EXCEPT ![p] = IF slot'[p] = Idle THEN IdleRow ELSE @]
    BY <1>9 DEF Runs, scans
  <2>2. FleetTypes'
    BY <1>0, <2>1 DEF FleetTypes, Touch
  <2>3. slot[p].at \in {"clear", "create", "seed", "work", "gate"}
    BY <1>9 DEF Runs, Clears, Creates, Seeds, Works, GateFails, Lands
  <2>4. \A q \in Proc : q # p => slot'[q] = slot[q]
    BY <1>9, <1>0
       DEF Runs, Clears, Creates, Seeds, Works, GateFails, Lands, Ends, Frees, At, SlotTypes
  <2>5. QED
    BY <1>0, <2>1, <2>2, <2>3, <2>4 DEF FleetShape, Idle
<1>10. ASSUME NEW p \in Proc, Hangs(p) PROVE FleetTypes' /\ FleetShape'
  BY <1>10, <1>0 DEF Hangs, At, FleetTypes, FleetShape, SlotTypes, Idle, fvars, scans, avars
<1>11. ASSUME NEW p \in Proc, Beats(p) PROVE FleetTypes' /\ FleetShape'
  BY <1>11, <1>0 DEF Beats, FleetTypes, FleetShape, SlotTypes, Idle, fvars, scans, avars
<1>12. ASSUME NEW p \in Proc, Elects(p) PROVE FleetTypes' /\ FleetShape'
  BY <1>12, <1>0 DEF Elects, FleetTypes, FleetShape, SlotTypes, Idle, fvars, scans, avars
<1>13. ASSUME NEW p \in Proc, LosesLock(p) PROVE FleetTypes' /\ FleetShape'
  BY <1>13, <1>0 DEF LosesLock, FleetTypes, FleetShape, SlotTypes, Idle, fvars, scans, avars
<1>14. ASSUME NEW p \in Proc, ElectionEnds(p) PROVE FleetTypes' /\ FleetShape'
  BY <1>14, <1>0 DEF ElectionEnds, BreaksOff, Unlisted, Unfelled, scans, FleetTypes, FleetShape, SlotTypes, Idle, fvars, scans, avars
<1>15. ASSUME NEW p \in Proc, ScanBegins(p) PROVE FleetTypes' /\ FleetShape'
  BY <1>15, <1>0
     DEF ScanBegins, FailedRows, Reclaimed, Wedged, FleetTypes, FleetShape, SlotTypes, Idle, fvars, scans, avars
<1>16. ASSUME NEW p \in Proc, Remedies(p) PROVE FleetTypes' /\ FleetShape'
  <2>1. CASE Fells(p)
    <3>1. PICK j \in Job : /\ failed' = [failed EXCEPT ![p][j] = "none"]
                           /\ felled' = [felled EXCEPT ![p] = [job |-> j, at |-> "branch"]]
      BY <2>1 DEF Fells
    <3>2. scan[p] = "triage" /\ UNCHANGED <<ph, sup, scan, behind, lock, row, fresh, wedge, slot>>
      BY <2>1 DEF Fells, Triages, DropsTree
    <3>3. QED
      <4>1. FleetTypes'
        BY <1>0, <3>1, <3>2, JobFacts DEF FleetTypes
      <4>2. felled'[p].job \in Job /\ \A q \in Proc : q # p => felled'[q] = felled[q]
        BY <1>0, <3>1 DEF FleetTypes
      <4>3. QED
        BY <1>0, <3>2, <4>1, <4>2, JobFacts DEF FleetShape
  <2>2. CASE FellsBranch(p)
    <3>1. felled[p].at = "branch" /\ felled' = [felled EXCEPT ![p].at = "row"]
      BY <2>2 DEF FellsBranch
    <3>2. felled[p] # Unfelled
      BY <3>1 DEF Unfelled
    <3>3. UNCHANGED <<ph, sup, scan, behind, failed, lock, row, fresh, wedge, slot>>
      BY <2>2 DEF FellsBranch, DropsBranch
    <3>4. QED
      <4>1. FleetTypes'
        BY <1>0, <3>1, <3>3 DEF FleetTypes
      <4>2. \A q \in Proc : /\ felled'[q] # Unfelled => felled[q] # Unfelled
                            /\ felled'[q].job = felled[q].job
        BY <1>0, <3>1, <3>2 DEF FleetTypes
      <4>3. QED
        BY <1>0, <3>3, <4>1, <4>2 DEF FleetShape
  <2>3. CASE Restarts(p)
    <3>1. felled' = [felled EXCEPT ![p] = Unfelled] /\ Touch
      BY <2>3 DEF Restarts
    <3>2. UNCHANGED <<ph, sup, scan, behind, failed, lock, row, wedge, slot>>
      BY <2>3 DEF Restarts, Requeues
    <3>3. QED
      BY <1>0, <3>1, <3>2 DEF FleetTypes, FleetShape, Touch, Unfelled
  <2>4. CASE Fails(p)
    <3>1. UNCHANGED <<ph, sup, scan, behind, failed, felled, lock, row, wedge, slot>> /\ Touch
      BY <2>4 DEF Fails, Blocks, scans
    <3>2. QED
      BY <1>0, <3>1 DEF FleetTypes, FleetShape, Touch
  <2>5. QED
    BY <1>16, <2>1, <2>2, <2>3, <2>4 DEF Remedies
<1>17. ASSUME NEW p \in Proc, FilesWave(p) PROVE FleetTypes' /\ FleetShape'
  <2>1. PICK i \in Incident : /\ failed' = [failed EXCEPT ![p][i] = "none"]
                              /\ behind' = [behind EXCEPT ![p] = i]
                              /\ UNCHANGED slot
    <3>1. PICK i \in Incident, W \in SUBSET Fix : \E deps \in Orders(W), last \in W :
            /\ Files(i, W, deps, last)
            /\ failed' = [failed EXCEPT ![p][i] = "none"]
            /\ behind' = [behind EXCEPT ![p] = i]
      BY <1>17 DEF FilesWave
    <3>2. UNCHANGED slot
      BY <3>1 DEF Files
    <3>3. QED
      BY <3>1, <3>2
  <2>2. /\ scan[p] = "triage" /\ Touch
        /\ UNCHANGED <<ph, sup, scan, felled, lock, row, wedge>>
    BY <1>17 DEF FilesWave, Triages
  <2>3. QED
    <3>1. FleetTypes'
      <4>1. failed' \in [Proc -> [Job -> {"none", "build", "gate"}]]
        BY <1>0, <2>1, JobFacts DEF FleetTypes
      <4>2. behind' \in [Proc -> Incident \union {None}]
        BY <1>0, <2>1 DEF FleetTypes
      <4>3. fresh' \in [Job -> BOOLEAN]
        BY <1>0, <2>2 DEF FleetTypes, Touch
      <4>4. QED
        BY <1>0, <2>2, <4>1, <4>2, <4>3 DEF FleetTypes
    <3>2. \A q \in Proc : q # p => behind'[q] = behind[q]
      BY <1>0, <2>1 DEF FleetTypes
    <3>3. QED
      BY <1>0, <2>1, <2>2, <3>1, <3>2 DEF FleetShape
<1>18. ASSUME NEW p \in Proc, QueuesBehind(p) PROVE FleetTypes' /\ FleetShape'
  BY <1>18, <1>0
     DEF QueuesBehind, Requeues, Touch, FleetTypes, FleetShape, SlotTypes, Idle
<1>19. ASSUME NEW p \in Proc, Wakes(p) PROVE FleetTypes' /\ FleetShape'
  BY <1>19, <1>0 DEF Wakes, Unblocks, Touch, FleetTypes, FleetShape, SlotTypes, Idle, fvars, scans, avars
<1>20. ASSUME NEW p \in Proc, Collects(p) PROVE FleetTypes' /\ FleetShape'
  BY <1>20, <1>0 DEF Collects, Triages, Unlisted, FleetTypes, FleetShape, SlotTypes, Idle, fvars, scans, avars
<1>21. ASSUME NEW p \in Proc, Sweeps(p) PROVE FleetTypes' /\ FleetShape'
  BY <1>21, <1>0
     DEF Sweeps, SweepsBranch, SweepsTree, FleetTypes, FleetShape, SlotTypes, Idle, fvars, scans, avars
<1>22. ASSUME NEW p \in Proc, ScanEnds(p) PROVE FleetTypes' /\ FleetShape'
  BY <1>22, <1>0 DEF ScanEnds, FleetTypes, FleetShape, SlotTypes, Idle, fvars, scans, avars
<1>23. ASSUME NEW j \in Job, Operator(j) PROVE FleetTypes' /\ FleetShape'
  BY <1>23, <1>0 DEF Operator, Cancel, Retry, Archive, Expires, Touch, FleetTypes, FleetShape, scans
<1>24. ASSUME NEW j \in Job, Stales(j) PROVE FleetTypes' /\ FleetShape'
  BY <1>24, <1>0 DEF Stales, FleetTypes, FleetShape, scans, avars
<1>25. QED
  BY <1>1, <1>2, <1>3, <1>4, <1>5, <1>6, <1>7, <1>8, <1>9, <1>10, <1>11, <1>12, <1>13, <1>14,
     <1>15, <1>16, <1>17, <1>18, <1>19, <1>20, <1>21, <1>22, <1>23, <1>24
     DEF FleetNext, FleetStep

LEMMA FleetStutters ==
    ASSUME FleetTypeOK, UNCHANGED vars
    PROVE  FleetTypeOK'
<1>1. UNCHANGED avars /\ UNCHANGED fvars
  BY DEF vars
<1>2. ArtifactTypeOK'
  BY <1>1, ArtStutters DEF FleetTypeOK
<1>3. FleetTypes' /\ FleetShape'
  BY <1>1 DEF FleetTypeOK, FleetTypes, FleetShape, fvars, scans, avars
<1>4. QED
  BY <1>2, <1>3 DEF FleetTypeOK, FleetTypes, FleetShape

LEMMA FleetTypeStep == FleetTypeOK /\ [FleetNext]_vars => FleetTypeOK'
<1>1. ASSUME FleetTypeOK, FleetNext PROVE FleetTypeOK'
  <2>1. ArtifactTypeOK'
    BY <1>1, FleetArtStep, ArtTypeStep, ArtStutters DEF FleetTypeOK
  <2>2. FleetTypes' /\ FleetShape'
    BY <1>1, FleetTypesStep
  <2>3. QED
    BY <2>1, <2>2 DEF FleetTypeOK, FleetTypes, FleetShape
<1>2. QED
  BY <1>1, FleetStutters

\* The values of Fleet's and Artifacts' variables, and what a process is in: a
\* supervisor only in a process that is up, a scan only in a leader, an incident
\* between its two transactions only in a scan, a busy slot only in a process
\* that runs or drains.
THEOREM FleetTypeCorrect == FleetSpec => []FleetTypeOK
<1>1. FleetInit => FleetTypeOK
  BY FleetInitTyped
<1>2. FleetTypeOK /\ [FleetNext]_vars => FleetTypeOK'
  BY FleetTypeStep
<1>3. QED
  BY <1>1, <1>2, PTL DEF FleetSpec

-----------------------------------------------------------------------------
(* The artifacts that live jobs need *)

\* Scan p lists j, or is starting it over.
Holds(p, j) == failed[p][j] # "none" \/ felled[p].job = j

\* What a scan lists failed as the list says.
ListTrue ==
    \A p \in Proc, j \in Job :
       /\ failed[p][j] # "none" => status[j] = "FAILED" /\ why[j] = failed[p][j]
       /\ felled[p].job = j => status[j] = "FAILED" /\ why[j] = "build"

\* No two scans list a job, and none lists the job that it is starting over.
ListsApart ==
    \A p \in Proc, j \in Job :
       /\ \A q \in Proc : Holds(p, j) /\ Holds(q, j) => p = q
       /\ felled[p].job = j => failed[p][j] = "none"

LEMMA FleetSecure ==
    ASSUME FleetTypeOK, ListTrue, FleetNext
    PROVE  SecureStep \/ UNCHANGED avars
<1>1. GuardedArtStep => SecureStep
  BY DEF GuardedArtStep, SecureStep
<1>2. ASSUME ScanStep PROVE SecureStep
  <2>1. PICK p \in Proc :
          \/ \E j \in Job : (failed[p][j] = "build" \/ felled[p].job = j) /\ Drops(j)
          \/ \E i \in Incident : failed[p][i] = "gate" /\ FilesSome(i)
    BY <1>2 DEF ScanStep
  <2>2. TimelyStep
    BY <2>1, JobFacts DEF TimelyStep, ListTrue
  <2>3. QED
    BY <1>2, <2>2 DEF ScanStep, SecureStep, Spends
<1>3. QED
  BY <1>1, <1>2, FleetArt

LEMMA SecureIsStep == SecureStep => ArtStep
  BY DEF SecureStep, ArtStep, TimelyStep, BlindStep

\* A failed job stays as it failed, unless it is brought back.
LEMMA FailedStays ==
    ASSUME ArtifactTypeOK, NEW k \in Job, status[k] = "FAILED",
           \/ \E p \in Proc : SlotStep(p)
           \/ \E j \in Job : \/ Cancel(j) \/ Archive(j) \/ Expires(j) \/ Drops(j)
                            \/ \E f \in Fix : Blocks(j, f)
           \/ \E i \in Incident : FilesSome(i)
    PROVE  status'[k] = "FAILED" /\ why'[k] = why[k]
<1>1. RowTypes /\ SlotTypes
  BY DEF ArtifactTypeOK
<1>2. ASSUME NEW p \in Proc, SlotStep(p) PROVE status'[k] = "FAILED" /\ why'[k] = why[k]
  <2>1. ASSUME NEW j \in Job, Claims(p, j) PROVE status'[k] = "FAILED" /\ why'[k] = why[k]
    BY <2>1, <1>1 DEF Claims, RowTypes
  <2>2. CASE Clears(p)
    BY <2>2 DEF Clears, rows, jobrow
  <2>3. ASSUME NEW st \in {"PENDING", "FAILED", "DONE"}, NEW b \in BOOLEAN,
               NEW w \in {"none", "build", "gate", "source"}, Ends(p, st, b, w)
        PROVE status'[k] = "FAILED" /\ why'[k] = why[k]
    BY <2>3, EndsEffect
  <2>4. CASE Creates(p) \/ Seeds(p) \/ Works(p) \/ GateFails(p) \/ Lands(p)
    <3>1. \/ UNCHANGED jobrow
          \/ \E st \in {"PENDING", "FAILED", "DONE"}, b \in BOOLEAN,
                w \in {"none", "build", "gate", "source"} : Ends(p, st, b, w)
      BY <2>4 DEF Creates, Seeds, Works, GateFails, Lands
    <3>2. QED
      BY <3>1, <2>3 DEF jobrow
  <2>5. QED
    BY <1>2, <2>1, <2>2, <2>4 DEF SlotStep
<1>3. ASSUME NEW j \in Job, Cancel(j) \/ Archive(j) \/ Expires(j) \/ Drops(j)
      PROVE status'[k] = "FAILED" /\ why'[k] = why[k]
  BY <1>3, <1>1
     DEF Cancel, Archive, Expires, Drops, DropsTree, DropsBranch, Saves, Writes, Live, RowTypes,
         rows, jobrow
<1>4. ASSUME NEW j \in Job, NEW f \in Fix, Blocks(j, f)
      PROVE status'[k] = "FAILED" /\ why'[k] = why[k]
  BY <1>4, <1>1 DEF Blocks, Writes, RowTypes
<1>5. ASSUME NEW i \in Incident, FilesSome(i) PROVE status'[k] = "FAILED" /\ why'[k] = why[k]
  BY <1>5, <1>1, JobFacts DEF FilesSome, Files
<1>6. QED
  BY <1>2, <1>3, <1>4, <1>5

LEMMA RevivesOne ==
    ASSUME ArtifactTypeOK, NEW j \in Job, NEW k \in Job, k # j,
           Retry(j) \/ Unblocks(j) \/ Requeues(j)
    PROVE  status'[k] = status[k] /\ why'[k] = why[k]
<1>1. RowTypes
  BY DEF ArtifactTypeOK
<1>2. Saves(j, "PENDING", FALSE, "none") \/ UNCHANGED jobrow
  BY DEF Retry, Unblocks, Requeues
<1>3. QED
  BY <1>1, <1>2 DEF Saves, Writes, RowTypes, jobrow

LEMMA ListsStep ==
    ASSUME FleetTypeOK, ListTrue, ListsApart, FleetNext, "revive_in_scan" \notin Races
    PROVE  ListTrue' /\ ListsApart'
<1> DEFINE Stay == \A k \in Job : status[k] = "FAILED" => status'[k] = "FAILED" /\ why'[k] = why[k]
           Fewer == \A q \in Proc, k \in Job :
                       /\ failed'[q][k] # "none" => failed'[q][k] = failed[q][k]
                       /\ felled'[q].job = k => felled[q].job = k
<1>0. ArtifactTypeOK /\ FleetTypes /\ FleetShape
  BY DEF FleetTypeOK, FleetTypes, FleetShape
<1>1. Stay /\ Fewer => ListTrue' /\ ListsApart'
  <2>1. SUFFICES ASSUME Stay, Fewer PROVE ListTrue' /\ ListsApart'
    OBVIOUS
  <2>2. ListTrue'
    BY <2>1 DEF ListTrue
  <2>3. \A q \in Proc, k \in Job : Holds(q, k)' => Holds(q, k)
    BY <2>1 DEF Holds
  <2>4. ListsApart'
    BY <2>1, <2>3 DEF ListsApart
  <2>5. QED
    BY <2>2, <2>4
<1>2. ASSUME NEW p \in Proc,
             \/ Boots(p) \/ GoesLive(p) \/ DrainEnds(p) \/ Ages(p) \/ Hangs(p) \/ Beats(p)
             \/ Elects(p) \/ LosesLock(p) \/ Sweeps(p) \/ ScanEnds(p)
      PROVE Stay /\ Fewer
  <2>1. UNCHANGED <<status, why, failed, felled>>
    BY <1>2
       DEF Boots, GoesLive, DrainEnds, Ages, Hangs, Beats, Elects, LosesLock, Sweeps, SweepsBranch,
           SweepsTree, ScanEnds, scans, fvars, avars, rows, jobrow
  <2>2. QED
    BY <2>1
<1>3. ASSUME NEW p \in Proc, Stops(p) \/ Drains(p) \/ Dies(p) \/ ElectionEnds(p)
      PROVE Stay /\ Fewer
  <2>1. UNCHANGED <<status, why>> /\ BreaksOff(p)
    BY <1>3 DEF Stops, Drains, Dies, ElectionEnds, SupervisorStops, rows, jobrow
  <2>2. Fewer
    BY <2>1, <1>0, JobFacts DEF BreaksOff, Unlisted, Unfelled, FleetTypes
  <2>3. QED
    BY <2>1, <2>2
<1>4. ASSUME NEW p \in Proc, Takes(p) \/ Runs(p) PROVE Stay /\ Fewer
  <2>1. SlotStep(p) /\ UNCHANGED <<failed, felled>>
    BY <1>4 DEF Takes, Runs, SlotStep, scans
  <2>2. QED
    BY <2>1, <1>0, FailedStays
<1>5. ASSUME NEW p \in Proc, ScanBegins(p) PROVE ListTrue' /\ ListsApart'
  <2>1. UNCHANGED <<status, why, felled>> /\ failed' = [failed EXCEPT ![p] = FailedRows]
    BY <1>5 DEF ScanBegins, avars, rows, jobrow
  <2>2. \A k \in Job : FailedRows[k] # "none" =>
           /\ status[k] = "FAILED" /\ why[k] = FailedRows[k]
           /\ \A q \in Proc : ~Holds(q, k)
    BY DEF FailedRows, Unscanned, InScan, Holds
  <2>3. \A k \in Job : failed'[p][k] = FailedRows[k]
    BY <2>1, <1>0 DEF FleetTypes
  <2>4. \A q \in Proc : q # p => failed'[q] = failed[q]
    BY <2>1, <1>0 DEF FleetTypes
  <2> HIDE DEF Stay, Fewer
  <2>5. ListTrue'
    BY <2>1, <2>2, <2>3, <2>4 DEF ListTrue
  <2>6. \A q \in Proc, k \in Job :
           Holds(q, k)' => Holds(q, k) \/ (q = p /\ \A r \in Proc : ~Holds(r, k))
    <3>1. ASSUME NEW q \in Proc, NEW k \in Job, q # p, Holds(q, k)' PROVE Holds(q, k)
      BY <3>1, <2>1, <2>4 DEF Holds
    <3>2. ASSUME NEW k \in Job, Holds(p, k)' PROVE Holds(p, k) \/ \A r \in Proc : ~Holds(r, k)
      BY <3>2, <2>1, <2>2, <2>3 DEF Holds
    <3>3. QED
      BY <3>1, <3>2
  <2>7. ListsApart'
    <3>1. \A q, r \in Proc, k \in Job : Holds(q, k)' /\ Holds(r, k)' => q = r
      BY <2>6 DEF ListsApart
    <3>2. \A q \in Proc, k \in Job : felled'[q].job = k => failed'[q][k] = "none"
      BY <2>1, <2>2, <2>3, <2>4 DEF ListsApart, Holds
    <3>3. QED
      BY <3>1, <3>2 DEF ListsApart
  <2>8. QED
    BY <2>5, <2>7
<1>6. ASSUME NEW p \in Proc, Fells(p) PROVE ListTrue' /\ ListsApart'
  <2>1. PICK j \in Job :
          /\ failed[p][j] = "build" /\ felled[p] = Unfelled
          /\ failed' = [failed EXCEPT ![p][j] = "none"]
          /\ felled' = [felled EXCEPT ![p] = [job |-> j, at |-> "branch"]]
          /\ UNCHANGED <<status, why>>
    BY <1>6 DEF Fells, Triages, DropsTree, rows, jobrow
  <2>2. /\ failed'[p][j] = "none" /\ felled'[p].job = j
        /\ \A k \in Job : k # j => failed'[p][k] = failed[p][k]
        /\ \A q \in Proc : q # p => failed'[q] = failed[q] /\ felled'[q] = felled[q]
    BY <2>1, <1>0 DEF FleetTypes
  <2>3. status[j] = "FAILED" /\ why[j] = "build" /\ Holds(p, j)
    BY <2>1 DEF ListTrue, Holds
  <2> HIDE DEF Stay, Fewer
  <2>4. ListTrue'
    BY <2>1, <2>2, <2>3 DEF ListTrue
  <2>5. \A q \in Proc, k \in Job : Holds(q, k)' => Holds(q, k)
    BY <2>2, <2>3 DEF Holds
  <2>6. \A q \in Proc, k \in Job : felled'[q].job = k => failed'[q][k] = "none"
    BY <2>2 DEF ListsApart
  <2>7. QED
    BY <2>4, <2>5, <2>6 DEF ListsApart
<1>7. ASSUME NEW p \in Proc, FellsBranch(p) PROVE Stay /\ Fewer
  <2>1. UNCHANGED <<status, why, failed>> /\ felled' = [felled EXCEPT ![p].at = "row"]
    BY <1>7 DEF FellsBranch, DropsBranch, rows, jobrow
  <2>2. QED
    BY <2>1, <1>0 DEF FleetTypes
<1>8. ASSUME NEW p \in Proc, Restarts(p) PROVE ListTrue' /\ ListsApart'
  <2> DEFINE j == felled[p].job
  <2>1. j \in Job /\ Requeues(j)
    BY <1>8 DEF Restarts, FleetTypeOK, Unfelled
  <2>2. \A k \in Job : k # j => status'[k] = status[k] /\ why'[k] = why[k]
    BY <2>1, <1>0, RevivesOne
  <2>3. UNCHANGED failed /\ felled' = [felled EXCEPT ![p] = Unfelled]
    BY <1>8 DEF Restarts
  <2>4. /\ felled'[p].job = None
        /\ \A q \in Proc : q # p => felled'[q] = felled[q]
    BY <2>3, <1>0 DEF FleetTypes, Unfelled
  <2>5. \A q \in Proc : failed[q][j] = "none" /\ (q # p => felled[q].job # j)
    BY <2>1 DEF ListsApart, Holds
  <2>6. \A q \in Proc, k \in Job : Holds(q, k)' => Holds(q, k) /\ k # j
    BY <2>1, <2>3, <2>4, <2>5, JobFacts DEF Holds
  <2> HIDE DEF Stay, Fewer, j
  <2>7. ListTrue'
    BY <2>1, <2>2, <2>3, <2>4, <2>5, JobFacts DEF ListTrue
  <2>8. \A q \in Proc, k \in Job : felled'[q].job = k => failed'[q][k] = "none"
    BY <2>3, <2>4, JobFacts DEF ListsApart
  <2>9. QED
    BY <2>6, <2>7, <2>8 DEF ListsApart
<1>9. ASSUME NEW p \in Proc, Fails(p) PROVE Stay /\ Fewer
  <2>1. UNCHANGED <<failed, felled>> /\ \E j \in Job, f \in Fix : Blocks(j, f)
    BY <1>9 DEF Fails, scans
  <2>2. QED
    BY <2>1, <1>0, FailedStays
<1>10. ASSUME NEW p \in Proc, FilesWave(p) PROVE Stay /\ Fewer
  <2>1. PICK i \in Incident : FilesSome(i) /\ failed' = [failed EXCEPT ![p][i] = "none"]
    BY <1>10 DEF FilesWave, FilesSome
  <2>2. Stay
    BY <2>1, <1>0, FailedStays
  <2>3. UNCHANGED felled
    BY <1>10 DEF FilesWave
  <2>4. Fewer
    BY <2>1, <2>3, <1>0, JobFacts DEF FleetTypes
  <2>5. QED
    BY <2>2, <2>4
<1>11. ASSUME NEW j \in Job, Retry(j) \/ Unblocks(j) \/ Requeues(j),
              UNCHANGED <<failed, felled>>,
              ~InScan(j)
       PROVE ListTrue' /\ ListsApart'
  <2>1. \A k \in Job : k # j => status'[k] = status[k] /\ why'[k] = why[k]
    BY <1>11, <1>0, RevivesOne
  <2>2. \A q \in Proc : failed[q][j] = "none" /\ felled[q].job # j
    BY <1>11 DEF InScan
  <2>3. ListTrue'
    BY <1>11, <2>1, <2>2 DEF ListTrue
  <2>4. ListsApart'
    BY <1>11 DEF ListsApart, Holds
  <2>5. QED
    BY <2>3, <2>4
<1>12. ASSUME NEW p \in Proc, QueuesBehind(p) PROVE ListTrue' /\ ListsApart'
  <2> DEFINE i == behind[p]
  <2>1. i \in Job /\ Requeues(i) /\ UNCHANGED <<failed, felled>>
    BY <1>12, <1>0, JobFacts DEF QueuesBehind, FleetTypes
  <2>2. status[i] = "FAILED" => ~InScan(i)
    BY <1>12 DEF QueuesBehind, Unscanned
  <2>3. status[i] # "FAILED" => ~InScan(i)
    BY <2>1 DEF InScan, ListTrue
  <2>4. QED
    BY <2>1, <2>2, <2>3, <1>11
<1>13. ASSUME NEW p \in Proc, Wakes(p) PROVE ListTrue' /\ ListsApart'
  <2>1. PICK j \in Job : Unblocks(j) /\ Unscanned(j)
    BY <1>13 DEF Wakes
  <2>2. UNCHANGED <<failed, felled>>
    BY <1>13 DEF Wakes, scans
  <2>3. QED
    BY <2>1, <2>2, <1>11 DEF Unscanned
<1>14. ASSUME NEW p \in Proc, Collects(p) PROVE Stay /\ Fewer
  <2>1. /\ UNCHANGED <<status, why, felled>>
        /\ failed' = [failed EXCEPT ![p] = Unlisted]
    BY <1>14 DEF Collects, rows, jobrow
  <2>2. QED
    BY <2>1, <1>0 DEF FleetTypes, Unlisted
<1>15. ASSUME NEW j \in Job, Operator(j) PROVE ListTrue' /\ ListsApart'
  <2>1. UNCHANGED <<failed, felled>>
    BY <1>15 DEF Operator, scans
  <2>2. CASE Cancel(j) \/ Archive(j) \/ Expires(j)
    <3>1. Stay
      BY <2>2, <1>0, FailedStays
    <3>2. QED
      BY <2>1, <3>1, <1>1
  <2>3. CASE Retry(j) /\ Unscanned(j)
    BY <2>1, <2>3, <1>11 DEF Unscanned
  <2>4. QED
    BY <1>15, <2>2, <2>3 DEF Operator
<1>16. ASSUME NEW j \in Job, Stales(j) PROVE Stay /\ Fewer
  <2>1. UNCHANGED <<status, why, failed, felled>>
    BY <1>16 DEF Stales, scans, avars, rows, jobrow
  <2>2. QED
    BY <2>1
<1> HIDE DEF Stay, Fewer
<1>17. QED
  BY <1>1, <1>2, <1>3, <1>4, <1>5, <1>6, <1>7, <1>8, <1>9, <1>10, <1>12, <1>13, <1>14, <1>15, <1>16
     DEF FleetNext, FleetStep, Remedies

FleetInv ==
    /\ FleetTypeOK
    /\ ListTrue /\ ListsApart
    /\ SlotsApart /\ SweepShape /\ Unfiled /\ ListedEnded /\ NeededUnlisted
    /\ Branches /\ SlotAt /\ Sources

LEMMA FleetInvInit == FleetInit => FleetInv
<1> SUFFICES ASSUME FleetInit PROVE FleetInv
  OBVIOUS
<1>1. FleetTypeOK
  BY FleetInitTyped
<1>2. /\ \A j \in Job : /\ status[j] = IF j \in Fix THEN "NONE" ELSE "PENDING"
                        /\ ~built[j] /\ why[j] = "none"
                        /\ branch[j] = None /\ tree[j] = "none" /\ builds[j] = 0
      /\ \A f \in Fix : source[f] = NoSource
      /\ \A p \in Proc : slot[p] = Idle /\ sweep[p] = NoSweep
  BY DEF FleetInit, ArtifactInit
<1>7. ListTrue /\ ListsApart
  BY JobFacts DEF FleetInit, ListTrue, ListsApart, Holds, Unlisted, Unfelled
<1>3. SlotsApart /\ SweepShape /\ ListedEnded /\ SlotAt
  BY <1>2 DEF SlotsApart, SweepShape, ListedEnded, SlotAt, Idle, NoSweep
<1>4. Unfiled /\ Branches
  BY <1>2, ArtifactAssumption DEF Unfiled, Branches, Job
<1>5. NeededUnlisted /\ Sources
  BY <1>2 DEF NeededUnlisted, Needy, Sources, NoSource
<1>6. QED
  BY <1>1, <1>3, <1>4, <1>5, <1>7 DEF FleetInv

LEMMA FleetInvStep ==
    ASSUME "revive_in_sweep" \notin Races, "revive_in_scan" \notin Races, FleetInv, [FleetNext]_vars
    PROVE  FleetInv'
<1>1. FleetTypeOK'
  BY FleetTypeStep DEF FleetInv
<1>2. SecureStep \/ UNCHANGED avars
  <2>1. CASE FleetNext
    BY <2>1, FleetSecure DEF FleetInv
  <2>2. CASE UNCHANGED vars
    BY <2>2 DEF vars
  <2>3. QED
    BY <2>1, <2>2
<1>6. ListTrue' /\ ListsApart'
  <2>1. CASE FleetNext
    BY <2>1, ListsStep DEF FleetInv
  <2>2. CASE UNCHANGED vars
    <3>1. UNCHANGED <<status, why, failed, felled>>
      BY <2>2 DEF vars, avars, fvars, scans, rows, jobrow
    <3>2. QED
      BY <3>1 DEF FleetInv, ListTrue, ListsApart, Holds
  <2>3. QED
    BY <2>1, <2>2
<1>3. CASE SecureStep
  <2>1. ArtifactTypeOK /\ ArtStep
    BY <1>3, SecureIsStep DEF FleetInv, FleetTypeOK
  <2>2. SlotsApart' /\ SweepShape'
    BY <1>3, <2>1, SlotsApartStep, SweepShapeStep DEF FleetInv
  <2>3. Unfiled' /\ ListedEnded'
    BY <1>3, <2>1, UnfiledStep, ListedEndedStep DEF FleetInv
  <2>4. NeededUnlisted'
    BY <1>3, <2>1, NeededUnlistedStep DEF FleetInv
  <2>5. Branches' /\ SlotAt'
    BY <1>3, <2>1, BranchesStep, SlotAtStep DEF FleetInv
  <2>6. Sources'
    BY <1>3, <2>1, SourcesStep DEF FleetInv
  <2>7. QED
    BY <1>1, <1>6, <2>2, <2>3, <2>4, <2>5, <2>6 DEF FleetInv
<1>4. CASE UNCHANGED avars
  <2>1. UNCHANGED <<status, built, why, closed, branch, tree, builds, source, slot, sweep>>
    BY <1>4 DEF avars, rows, jobrow, links, git
  <2>2. SlotsApart' /\ SweepShape' /\ ListedEnded' /\ SlotAt'
    BY <2>1 DEF FleetInv, SlotsApart, SweepShape, ListedEnded, SlotAt
  <2>3. Unfiled' /\ Branches' /\ Sources' /\ NeededUnlisted'
    BY <2>1 DEF FleetInv, Unfiled, Branches, Sources, NeededUnlisted, Needy
  <2>4. QED
    BY <1>1, <1>6, <2>2, <2>3 DEF FleetInv
<1>5. QED
  BY <1>2, <1>3, <1>4

LEMMA TreesKeptStep ==
    ASSUME FleetInv, SecureStep
    PROVE  \A j \in Job : tree[j] = "here" /\ tree'[j] # "here" /\ status[j] \in Live
              => \E p \in Proc : slot[p].job = j /\ slot[p].at \in {"clear", "gate"}
<1>0. SecureStep
  OBVIOUS
<1>1. /\ RowTypes /\ LinkTypes /\ GitTypes /\ SlotTypes /\ SweepTypes
      /\ SlotAt /\ SweepShape /\ ListedEnded
  BY DEF FleetInv, FleetTypeOK, ArtifactTypeOK
<1> DEFINE Held == \A j \in Job : tree[j] = "here" /\ tree'[j] # "here" /\ status[j] \in Live
              => \E p \in Proc : slot[p].job = j /\ slot[p].at \in {"clear", "gate"}
<1>2. Held
  <2>1. ASSUME NEW p \in Proc, Yields(p) PROVE Held
    <3>1. \A k \in Job : tree[k] = "here" => tree'[k] = "here"
      BY <2>1, <1>1 DEF Yields, rows, git, links, GitTypes
    <3>2. QED
      BY <3>1
  <2>2. ASSUME NEW p \in Proc, Lists(p) PROVE Held
    <3>1. \A k \in Job : tree[k] = "here" => tree'[k] = "here"
      BY <2>2, <1>1 DEF Lists, rows, git, links, GitTypes
    <3>2. QED
      BY <3>1
  <2>3. ASSUME NEW p \in Proc, Sticks(p) PROVE Held
    <3>1. \A k \in Job : tree[k] = "here" => tree'[k] = "here"
      BY <2>3, <1>1 DEF Sticks, rows, git, links, GitTypes
    <3>2. QED
      BY <3>1
  <2>4. ASSUME NEW p \in Proc, NEW j \in Job, Claims(p, j) PROVE Held
    <3>1. \A k \in Job : tree[k] = "here" => tree'[k] = "here"
      BY <2>4, <1>1 DEF Claims, rows, git, links, GitTypes
    <3>2. QED
      BY <3>1
  <2>5. ASSUME NEW p \in Proc, Clears(p) PROVE Held
    <3>1. \A k \in Job : k # slot[p].job => tree'[k] = tree[k]
      BY <2>5, <1>1 DEF Clears, GitTypes
    <3>2. slot[p].at \in {"clear", "gate"}
      BY <2>5 DEF Clears
    <3>3. QED
      BY <3>1, <3>2
  <2>6. ASSUME NEW p \in Proc, Creates(p) PROVE Held
    <3>1. \A k \in Job : k # slot[p].job /\ tree[k] = "here" => tree'[k] = "here"
      BY <2>6, <1>1 DEF Creates, GitTypes
    <3>2. tree[slot[p].job] # "here"
      BY <2>6, <1>1 DEF Creates, SlotAt
    <3>3. QED
      BY <3>1, <3>2
  <2>7. ASSUME NEW p \in Proc, Seeds(p) PROVE Held
    <3>1. \A k \in Job : tree[k] = "here" => tree'[k] = "here"
      BY <2>7, <1>1 DEF Seeds, rows, git, links, GitTypes
    <3>2. QED
      BY <3>1
  <2>8. ASSUME NEW p \in Proc, Works(p) PROVE Held
    <3>1. \A k \in Job : tree[k] = "here" => tree'[k] = "here"
      BY <2>8, <1>1 DEF Works, rows, git, links, GitTypes
    <3>2. QED
      BY <3>1
  <2>9. ASSUME NEW p \in Proc, GateFails(p) PROVE Held
    <3>1. \A k \in Job : tree[k] = "here" => tree'[k] = "here"
      BY <2>9, <1>1 DEF GateFails, rows, git, links, GitTypes
    <3>2. QED
      BY <3>1
  <2>10. ASSUME NEW p \in Proc, Lands(p) PROVE Held
    <3>1. \A k \in Job : k # slot[p].job => tree'[k] = tree[k]
      BY <2>10, <1>1 DEF Lands, GitTypes
    <3>2. slot[p].at \in {"clear", "gate"}
      BY <2>10 DEF Lands
    <3>3. QED
      BY <3>1, <3>2
  <2>11. ASSUME NEW p \in Proc, SweepsBranch(p) PROVE Held
    <3>1. \A k \in Job : tree[k] = "here" => tree'[k] = "here"
      BY <2>11, <1>1 DEF SweepsBranch, rows, git, links, GitTypes
    <3>2. QED
      BY <3>1
  <2>12. ASSUME NEW p \in Proc, SweepsTree(p) PROVE Held
    <3> DEFINE k == Lowest(sweep[p].todo)
    <3>1. k \in sweep[p].todo
      BY <2>12, <1>1, LowestIn DEF SweepsTree, SweepShape, SweepTypes
    <3>2. status[k] \notin Live
      BY <3>1, <1>1 DEF ListedEnded, Live
    <3>3. \A j \in Job : j # k => tree'[j] = tree[j]
      BY <2>12, <1>1 DEF SweepsTree, GitTypes
    <3>4. QED
      BY <3>2, <3>3
  <2>13. ASSUME NEW j \in Job, Cancel(j) PROVE Held
    <3>1. \A k \in Job : tree[k] = "here" => tree'[k] = "here"
      BY <2>13, <1>1 DEF Cancel, rows, git, links, GitTypes
    <3>2. QED
      BY <3>1
  <2>14. ASSUME NEW j \in Job, Retry(j) PROVE Held
    <3>1. \A k \in Job : tree[k] = "here" => tree'[k] = "here"
      BY <2>14, <1>1 DEF Retry, rows, git, links, GitTypes
    <3>2. QED
      BY <3>1
  <2>15. ASSUME NEW j \in Job, Archive(j) PROVE Held
    <3>1. \A k \in Job : k # j => tree'[k] = tree[k]
      BY <2>15, <1>1 DEF Archive, GitTypes
    <3>2. status[j] \notin Live
      BY <2>15 DEF Archive, Live
    <3>3. QED
      BY <3>1, <3>2
  <2>16. ASSUME NEW j \in Job, Expires(j) PROVE Held
    <3>1. \A k \in Job : tree[k] = "here" => tree'[k] = "here"
      BY <2>16, <1>1 DEF Expires, rows, git, links, GitTypes
    <3>2. QED
      BY <3>1
  <2>17. ASSUME NEW j \in Job, Requeues(j) PROVE Held
    <3>1. \A k \in Job : tree[k] = "here" => tree'[k] = "here"
      BY <2>17, <1>1 DEF Requeues, rows, git, links, GitTypes
    <3>2. QED
      BY <3>1
  <2>18. ASSUME NEW j \in Job, Unblocks(j) PROVE Held
    <3>1. \A k \in Job : tree[k] = "here" => tree'[k] = "here"
      BY <2>18, <1>1 DEF Unblocks, rows, git, links, GitTypes
    <3>2. QED
      BY <3>1
  <2>19. ASSUME NEW j \in Job, NEW f \in Fix, Blocks(j, f) PROVE Held
    <3>1. \A k \in Job : tree[k] = "here" => tree'[k] = "here"
      BY <2>19, <1>1 DEF Blocks, rows, git, links, GitTypes
    <3>2. QED
      BY <3>1
  <2>20. ASSUME NEW i \in Incident, FilesSome(i), why[i] = "gate" PROVE Held
    <3>1. UNCHANGED git
      BY <2>20 DEF FilesSome, Files
    <3>2. QED
      BY <3>1 DEF git
  <2>21. ASSUME NEW j \in Job, Drops(j), status[j] = "FAILED", why[j] = "build" PROVE Held
    <3>1. \A k \in Job : k # j => tree'[k] = tree[k]
      BY <2>21, <1>1 DEF Drops, DropsTree, DropsBranch, GitTypes
    <3>2. status[j] \notin Live
      BY <2>21 DEF Live
    <3>3. QED
      BY <3>1, <3>2
  <2>22. QED
    BY <2>1, <2>2, <2>3, <2>4, <2>5, <2>6, <2>7, <2>8, <2>9, <2>10, <2>11, <2>12, <2>13, <2>14,
       <2>15, <2>16, <2>17, <2>18, <2>19, <2>20, <2>21, <1>0
       DEF SecureStep, GuardedStep, TimelyStep, SlotStep, JobStep
<1>3. QED
  BY <1>2

\* The worktree of a pending or running job goes only by the hand of the slot that
\* runs the job: no garbage collection takes it, at startup or in a scan, however
\* old the reading of the job table that it works from and wherever it runs git, and
\* no scan that starts failed jobs over - if nobody brings a job back that a
\* collection or a scan has on its list.
THEOREM TreesKept ==
    ASSUME "revive_in_sweep" \notin Races, "revive_in_scan" \notin Races
    PROVE  FleetSpec => TreeKept
<1> DEFINE Held == \A j \in Job :
              /\ tree[j] = "here" /\ tree'[j] # "here"
              /\ status[j] \in Live
              => \E p \in Proc : slot[p].job = j /\ slot[p].at \in {"clear", "gate"}
<1>1. ASSUME FleetInv, FleetNext PROVE Held
  <2>1. SecureStep \/ UNCHANGED avars
    BY <1>1, FleetSecure DEF FleetInv
  <2>2. CASE SecureStep
    BY <1>1, <2>2, TreesKeptStep
  <2>3. CASE UNCHANGED avars
    BY <2>3 DEF avars, git
  <2>4. QED
    BY <2>1, <2>2, <2>3
<1>2. FleetInv /\ [FleetNext]_vars => [Held]_vars
  BY <1>1
<1>3. FleetInit => FleetInv
  BY FleetInvInit
<1>4. FleetInv /\ [FleetNext]_vars => FleetInv'
  BY FleetInvStep
<1>5. QED
  BY <1>2, <1>3, <1>4, PTL DEF FleetSpec, TreeKept

LEMMA SourcesKeptStep ==
    ASSUME FleetInv, SecureStep
    PROVE  \A f \in Fix : LET i == source[f].job IN
              /\ Needy(f)
              /\ Seedable(f) /\ ~Seedable(f)'
              /\ status[i] # "CANCELLED" /\ ~closed[i] /\ ~closed'[i]
              => \E p \in Proc : slot[p].job = i /\ slot[p].at \in {"create", "gate"}
<1>0. SecureStep
  OBVIOUS
<1>1. /\ RowTypes /\ LinkTypes /\ GitTypes /\ SlotTypes /\ SweepTypes
      /\ SlotAt /\ SweepShape /\ ListedEnded /\ NeededUnlisted /\ Branches /\ Sources
  BY DEF FleetInv, FleetTypeOK, ArtifactTypeOK
<1> DEFINE Held == \A f \in Fix : LET i == source[f].job IN
              /\ Needy(f)
              /\ Seedable(f) /\ ~Seedable(f)'
              /\ status[i] # "CANCELLED" /\ ~closed[i] /\ ~closed'[i]
              => \E p \in Proc : slot[p].job = i /\ slot[p].at \in {"create", "gate"}
<1>2. Held
  <2>1. ASSUME NEW p \in Proc, Yields(p) PROVE Held
    <3>1. UNCHANGED <<branch, source>>
      BY <2>1 DEF Yields, rows, links, git
    <3>2. QED
      BY <3>1 DEF Seedable
  <2>2. ASSUME NEW p \in Proc, Lists(p) PROVE Held
    <3>1. UNCHANGED <<branch, source>>
      BY <2>2 DEF Lists, rows, links, git
    <3>2. QED
      BY <3>1 DEF Seedable
  <2>3. ASSUME NEW p \in Proc, Sticks(p) PROVE Held
    <3>1. UNCHANGED <<branch, source>>
      BY <2>3 DEF Sticks, rows, links, git
    <3>2. QED
      BY <3>1 DEF Seedable
  <2>4. ASSUME NEW p \in Proc, NEW j \in Job, Claims(p, j) PROVE Held
    <3>1. UNCHANGED <<branch, source>>
      BY <2>4 DEF Claims, links, git
    <3>2. QED
      BY <3>1 DEF Seedable
  <2>5. ASSUME NEW p \in Proc, Clears(p) PROVE Held
    <3>1. UNCHANGED <<branch, source>>
      BY <2>5 DEF Clears, rows, links
    <3>2. QED
      BY <3>1 DEF Seedable
  <2>6. ASSUME NEW p \in Proc, Creates(p) PROVE Held
    <3>1. UNCHANGED source
      BY <2>6 DEF Creates, links, rows
    <3>2. \A k \in Job : k # slot[p].job => branch'[k] = branch[k]
      BY <2>6, <1>1 DEF Creates, GitTypes
    <3>3. \A f \in Fix : Needy(f) => source[f].job \in Job
      BY <1>1, JobFacts DEF Needy, Sources
    <3>4. slot[p].at \in {"create", "gate"}
      BY <2>6 DEF Creates
    <3>5. QED
      BY <3>1, <3>2, <3>3, <3>4 DEF Seedable
  <2>7. ASSUME NEW p \in Proc, Seeds(p) PROVE Held
    <3>1. UNCHANGED branch /\ (UNCHANGED source \/ source' = [source EXCEPT ![slot[p].job].captured = TRUE])
      BY <2>7 DEF Seeds, Captures, git
    <3>2. \A f \in Fix : source'[f].job = source[f].job /\ source'[f].sha = source[f].sha
      BY <3>1, <1>1 DEF LinkTypes
    <3>3. QED
      BY <3>1, <3>2 DEF Seedable
  <2>8. ASSUME NEW p \in Proc, Works(p) PROVE Held
    <3>1. UNCHANGED source
      BY <2>8 DEF Works, links, rows
    <3>2. \A k \in Job : k # slot[p].job => branch'[k] = branch[k]
      BY <2>8, <1>1 DEF Works, GitTypes
    <3>3. \A f \in Fix : Needy(f) => source[f].job \in Job
      BY <1>1, JobFacts DEF Needy, Sources
    <3>4. \A f \in Fix : Needy(f) /\ Seedable(f) => source[f].job # slot[p].job
      <4>1. branch[slot[p].job] \in {None, 0}
        BY <2>8, <1>1 DEF Works, SlotAt
      <4>2. \A f \in Fix : Needy(f) => source[f].sha # None /\ source[f].sha # 0
        BY <1>1 DEF Needy, Sources
      <4>3. QED
        BY <4>1, <4>2 DEF Seedable
    <3>5. QED
      BY <3>1, <3>2, <3>3, <3>4 DEF Seedable
  <2>9. ASSUME NEW p \in Proc, GateFails(p) PROVE Held
    <3>1. UNCHANGED <<branch, source>>
      BY <2>9 DEF GateFails, links, git
    <3>2. QED
      BY <3>1 DEF Seedable
  <2>10. ASSUME NEW p \in Proc, Lands(p) PROVE Held
    <3>1. UNCHANGED source
      BY <2>10 DEF Lands, links, rows
    <3>2. \A k \in Job : k # slot[p].job => branch'[k] = branch[k]
      BY <2>10, <1>1 DEF Lands, GitTypes
    <3>3. \A f \in Fix : Needy(f) => source[f].job \in Job
      BY <1>1, JobFacts DEF Needy, Sources
    <3>4. slot[p].at \in {"create", "gate"}
      BY <2>10 DEF Lands
    <3>5. QED
      BY <3>1, <3>2, <3>3, <3>4 DEF Seedable
  <2>11. ASSUME NEW p \in Proc, SweepsBranch(p) PROVE Held
    <3> DEFINE s == Lowest(sweep[p].todo)
    <3>1. UNCHANGED source
      BY <2>11 DEF SweepsBranch, links, rows
    <3>2. \A k \in Job : k # s => branch'[k] = branch[k]
      BY <2>11, <1>1 DEF SweepsBranch, GitTypes
    <3>3. \A f \in Fix : Needy(f) => source[f].job \in Job
      BY <1>1, JobFacts DEF Needy, Sources
    <3>4. s \in sweep[p].todo
      BY <2>11, <1>1, LowestIn DEF SweepsBranch, SweepShape, SweepTypes
    <3>5. s \in Job /\ status[s] \in {"FAILED", "DONE", "CANCELLED"}
      BY <3>4, <1>1 DEF ListedEnded, SweepTypes
    <3>6. status[s] = "DONE" => branch[s] = None
      BY <3>5, <1>1 DEF Branches
    <3>7. \A f \in Fix : Needy(f) /\ Seedable(f) /\ source[f].job = s => status[s] = "CANCELLED" \/ closed[s]
      BY <3>4, <3>5, <3>6, <1>1 DEF NeededUnlisted, Needy, Seedable
    <3> HIDE DEF s
    <3>8. QED
      BY <3>1, <3>2, <3>3, <3>7 DEF Seedable
  <2>12. ASSUME NEW p \in Proc, SweepsTree(p) PROVE Held
    <3>1. UNCHANGED <<branch, source>>
      BY <2>12 DEF SweepsTree, rows, links
    <3>2. QED
      BY <3>1 DEF Seedable
  <2>13. ASSUME NEW j \in Job, Cancel(j) PROVE Held
    <3>1. UNCHANGED <<branch, source>>
      BY <2>13 DEF Cancel, links, git
    <3>2. QED
      BY <3>1 DEF Seedable
  <2>14. ASSUME NEW j \in Job, Retry(j) PROVE Held
    <3>1. UNCHANGED <<branch, source>>
      BY <2>14 DEF Retry, links, git
    <3>2. QED
      BY <3>1 DEF Seedable
  <2>15. ASSUME NEW j \in Job, Archive(j) PROVE Held
    <3>1. UNCHANGED source
      BY <2>15 DEF Archive, links, rows
    <3>2. \A k \in Job : k # j => branch'[k] = branch[k]
      BY <2>15, <1>1 DEF Archive, GitTypes
    <3>3. \A f \in Fix : Needy(f) => source[f].job \in Job
      BY <1>1, JobFacts DEF Needy, Sources
    <3>4. closed'[j]
      BY <2>15, <1>1 DEF Archive, LinkTypes
    <3>5. QED
      BY <3>1, <3>2, <3>3, <3>4 DEF Seedable
  <2>16. ASSUME NEW j \in Job, Expires(j) PROVE Held
    <3>1. UNCHANGED <<branch, source>>
      BY <2>16 DEF Expires, links, git
    <3>2. QED
      BY <3>1 DEF Seedable
  <2>17. ASSUME NEW j \in Job, Requeues(j) PROVE Held
    <3>1. UNCHANGED <<branch, source>>
      BY <2>17 DEF Requeues, links, git
    <3>2. QED
      BY <3>1 DEF Seedable
  <2>18. ASSUME NEW j \in Job, Unblocks(j) PROVE Held
    <3>1. UNCHANGED <<branch, source>>
      BY <2>18 DEF Unblocks, links, git
    <3>2. QED
      BY <3>1 DEF Seedable
  <2>19. ASSUME NEW j \in Job, NEW f \in Fix, Blocks(j, f) PROVE Held
    <3>1. UNCHANGED <<branch, source>>
      BY <2>19 DEF Blocks, links, git
    <3>2. QED
      BY <3>1 DEF Seedable
  <2>20. ASSUME NEW i \in Incident, FilesSome(i), why[i] = "gate" PROVE Held
    <3>1. PICK W \in SUBSET Fix : \E deps \in Orders(W), last \in W : Files(i, W, deps, last)
      BY <2>20 DEF FilesSome
    <3>2. PICK deps \in Orders(W), last \in W : Files(i, W, deps, last)
      BY <3>1
    <3>3. UNCHANGED branch /\ \A f \in Fix \ W : source'[f] = source[f]
      BY <3>2 DEF Files, git
    <3>4. \A f \in W : status[f] \notin Live
      BY <3>2 DEF Files, Live
    <3>5. QED
      BY <3>3, <3>4 DEF Seedable, Needy
  <2>21. ASSUME NEW j \in Job, Drops(j), status[j] = "FAILED", why[j] = "build" PROVE Held
    <3>1. UNCHANGED source
      BY <2>21 DEF Drops, DropsTree, DropsBranch, links, rows
    <3>2. \A k \in Job : k # j => branch'[k] = branch[k]
      BY <2>21, <1>1 DEF Drops, DropsTree, DropsBranch, GitTypes
    <3>3. \A f \in Fix : Needy(f) => source[f].job \in Job
      BY <1>1, JobFacts DEF Needy, Sources
    <3>4. \A f \in Fix : Needy(f) /\ Seedable(f) => source[f].job # j
      BY <2>21, <1>1 DEF Sources, Needy, Seedable
    <3>5. QED
      BY <3>1, <3>2, <3>3, <3>4 DEF Seedable
  <2>22. QED
    BY <2>1, <2>2, <2>3, <2>4, <2>5, <2>6, <2>7, <2>8, <2>9, <2>10, <2>11, <2>12, <2>13, <2>14,
       <2>15, <2>16, <2>17, <2>18, <2>19, <2>20, <2>21, <1>0
       DEF SecureStep, GuardedStep, TimelyStep, SlotStep, JobStep
<1>3. QED
  BY <1>2

\* The commit that a live remediation has yet to take over stays on the branch it
\* was recorded with, whatever becomes of the incident and however old the reading
\* of the job table that a collection or a scan works from, until a person gives the
\* incident up or the incident's own next build replaces it - if nobody brings a job
\* back that a collection or a scan has on its list.
THEOREM SourcesKept ==
    ASSUME "revive_in_sweep" \notin Races, "revive_in_scan" \notin Races
    PROVE  FleetSpec => SourceKept
<1> DEFINE Held == \A f \in Fix : LET i == source[f].job IN
              /\ status[f] \in Live /\ source[f].sha # None /\ ~source[f].captured
              /\ Seedable(f) /\ ~Seedable(f)'
              /\ status[i] # "CANCELLED" /\ ~closed[i] /\ ~closed'[i]
              => \E p \in Proc : slot[p].job = i /\ slot[p].at \in {"create", "gate"}
<1>1. ASSUME FleetInv, FleetNext PROVE Held
  <2>1. SecureStep \/ UNCHANGED avars
    BY <1>1, FleetSecure DEF FleetInv
  <2>2. CASE SecureStep
    BY <1>1, <2>2, SourcesKeptStep DEF Needy
  <2>3. CASE UNCHANGED avars
    BY <2>3 DEF avars, git, rows, links, Seedable
  <2>4. QED
    BY <2>1, <2>2, <2>3
<1>2. FleetInv /\ [FleetNext]_vars => [Held]_vars
  BY <1>1
<1>3. FleetInit => FleetInv
  BY FleetInvInit
<1>4. FleetInv /\ [FleetNext]_vars => FleetInv'
  BY FleetInvStep
<1>5. QED
  BY <1>2, <1>3, <1>4, PTL DEF FleetSpec, SourceKept

=============================================================================
