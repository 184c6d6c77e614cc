---------------------------- MODULE MCJobQueue ----------------------------
(* A small instance of JobQueue: a pipeline of four checkpoints that has   *)
(* one stage of every kind the queue tells apart.                          *)
EXTENDS JobQueue, TLC

CONSTANTS j1, j2, w1, w2

MCJob == {j1, j2}
MCWorker == {w1, w2}

\* Every worker takes every stage.
AllowAll == [w \in {w1, w2} |-> {"QUEUED", "REVIEW", "DEPLOY", "DONE"}]
LeanAllow == [w \in {w1, w2} |-> {"QUEUED", "DEPLOY", "DONE"}]
\* w2 is a deployer: it takes deterministic stages only.
MixedAllow == [w \in {w1, w2} |->
    IF w = w1 THEN {"QUEUED", "DEPLOY", "DONE"} ELSE {"DEPLOY", "DONE"}]

MCStage == {"QUEUED", "REVIEW", "DEPLOY", "DONE"}
MCAgentic == {"QUEUED", "REVIEW"}
MCTarget == [s \in MCStage |->
    CASE s = "QUEUED" -> {"REVIEW"}
      [] s = "REVIEW" -> {"DEPLOY"}
      [] s = "DEPLOY" -> {"DONE"}
      [] OTHER -> {}]

\* A shorter pipeline: one agentic and one deterministic stage.
LeanStage == {"QUEUED", "DEPLOY", "DONE"}
LeanAgentic == {"QUEUED"}
LeanTarget == [s \in LeanStage |->
    CASE s = "QUEUED" -> {"DEPLOY"}
      [] s = "DEPLOY" -> {"DONE"}
      [] OTHER -> {}]
LeanSkill == [a \in {1} |-> LeanAgentic]
MCSolo == {j1}
SoloQueued == [j \in MCSolo |-> "QUEUED"]

Chain == {<<j2, j1>>}
NoPairs == {}

AllQueued == [j \in MCJob |-> "QUEUED"]
SoloReview == [j \in MCSolo |-> "REVIEW"]
AllReview == [j \in MCJob |-> "REVIEW"]

OneAgent == {1}
MCSkill == [a \in OneAgent |-> MCAgentic]
MCProvider == [a \in OneAgent |-> "claude"]
MCCapacity == [a \in OneAgent |-> 1]

WorkerSymmetry == Permutations(MCWorker)
=============================================================================
