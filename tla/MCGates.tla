------------------------------ MODULE MCGates ------------------------------
(***************************************************************************)
(* Gates for TLC: two modules of one workspace member and a frontend       *)
(* module of another, one symbol, and six plans.                           *)
(***************************************************************************)
EXTENDS Gates

CONSTANTS m1, m2, ui, s, versions, ja, jb

MCMember == [m \in Modules |-> IF m = ui THEN "web" ELSE "core"]
MCDefs0  == {<<m1, s>>}

Plan(stories, impact, listed, fresh, u, chains) ==
    [stories |-> stories, impact |-> impact, listed |-> listed, fresh |-> fresh, ui |-> u,
     chains |-> chains]

\* A small plan, a migration with a lot of files, one too big for one
\* job with and without chains, one whose parts disagree, one that breaks the contract.
MCAnswers == {
    Plan({m1}, {m1}, {m1}, {}, "internal", FALSE),
    Plan({m1, m2, versions}, {m1, m2, versions}, {m1, m2, versions}, {m2}, "internal", FALSE),
    Plan({m1, m2, ui}, {m1, m2, ui}, {m1, m2, ui}, {m2, ui}, "surface", FALSE),
    Plan({m1, m2, ui}, {m1, m2, ui}, {m1, m2, ui}, {m2, ui}, "surface", TRUE),
    Plan({m2}, {m1, m2}, {m1, m2}, {m2}, "surface", FALSE),
    Plan({m1}, {m1}, {m2}, {}, "internal", FALSE)}

MCLabelled == [j \in GJobs |-> {m1, ui}]
MCReadOnly == [j \in GJobs |-> IF j = ja THEN {ui} ELSE {}]

\* The second module goes with the first.
MCCompanion == {<<m1, m2>>}

MCScope0   == [j \in GJobs |-> IF j = ja THEN {m1} ELSE {}]

=============================================================================
