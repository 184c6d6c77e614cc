-------------------------- MODULE Releases_proofs --------------------------
(***************************************************************************)
(* Releases for every set of releases, requests and rows: types, one       *)
(* promotion under way, the cutover that only the probe opens, and the     *)
(* release that is current when all is quiet.                              *)
(*                                                                         *)
(* One promotion: without overlapping requests the one that is being       *)
(* served has superseded every live row before it inserts its own.  The    *)
(* cutover: as long as one deploy at a time is on the host, the probe it   *)
(* judges is its own, and the canonical container is absent only between   *)
(* its two docker commands.  What is current: as long as nothing odd       *)
(* happens one promotion at a time is engaged, its row fits the step of    *)
(* whoever carries it, and what runs is current or about to be.            *)
(***************************************************************************)
EXTENDS Releases, TLAPS

\* Whoever carries out or files a promotion does so for a row that exists.
Owned ==
    /\ \A p \in Ids : step[p] # "none" => p \in Rows
    /\ \A r \in Requesters : request[r].at \in {"inserted", "filed"} => request[r].row \in Rows

\* A row whose job is about to be filed belongs to one request and waits for it.
Fresh ==
    /\ \A r \in Requesters : request[r].at = "inserted" =>
          step[request[r].row] = "none" /\ state[request[r].row] # "available"
    /\ \A q, r \in Requesters :
          request[q].at = "inserted" /\ request[r].at = "inserted" /\ request[q].row = request[r].row => q = r

TypeInv == ReleaseTypeOK /\ Owned /\ Fresh

LEMMA RequestRecords ==
    /\ Idle \in Requests
    /\ \A q \in Requests : \A a \in {"superseded", "inserted", "filed"} :
           [q EXCEPT !.at = a] \in Requests
    /\ \A q \in Requests : \A n \in 0..MaxPromotions :
           [q EXCEPT !.at = "inserted", !.row = n] \in Requests
<1>1. Idle \in Requests
  BY ReleaseAssumption DEF Requests, Idle, Images
<1>2. ASSUME NEW q \in Requests, NEW a \in {"superseded", "inserted", "filed"}
      PROVE  [q EXCEPT !.at = a] \in Requests
  BY DEF Requests
<1>3. ASSUME NEW q \in Requests, NEW n \in 0..MaxPromotions
      PROVE  [q EXCEPT !.at = "inserted", !.row = n] \in Requests
  BY DEF Requests
<1> QED
  BY <1>1, <1>2, <1>3

LEMMA ReleaseTypeInit == ReleaseInit => TypeInv
<1> SUFFICES ASSUME ReleaseInit PROVE TypeInv
  OBVIOUS
<1>1. RowTypes
  BY ReleaseAssumption DEF ReleaseInit, RowTypes, Images, States, Final
<1>2. RequestTypes
  BY RequestRecords DEF ReleaseInit, RequestTypes
<1>3. step \in [Ids -> Steps] /\ intent \in [Ids -> States]
  BY DEF ReleaseInit, Steps, States, Live
<1>4. \A p \in Ids : step[p] = "none"
  BY DEF ReleaseInit
<1>5. canonical \in Images /\ probe \in Images /\ recorded \in BOOLEAN
  BY DEF ReleaseInit, Images
<1>6. odd = {} /\ troubles \in 0..MaxTroubles
  BY ReleaseAssumption DEF ReleaseInit
<1>7. Owned /\ Fresh
  BY DEF ReleaseInit, Owned, Fresh, Idle
<1> QED
  BY <1>1, <1>2, <1>3, <1>4, <1>5, <1>6, <1>7 DEF TypeInv, ReleaseTypeOK, StepTypes, HostTypes

LEMMA ReleaseTypeStep == TypeInv /\ [ReleaseNext]_releaseVars => TypeInv'
<1> SUFFICES ASSUME TypeInv, [ReleaseNext]_releaseVars PROVE TypeInv'
  OBVIOUS
<1>0. RowTypes /\ RequestTypes /\ StepTypes /\ HostTypes /\ Owned /\ Fresh /\ [ReleaseNext]_releaseVars
  BY DEF TypeInv, ReleaseTypeOK
<1>1. RowTypes'
  <2>1. ASSUME NEW r \in Requesters, Asked(r) PROVE RowTypes'
    BY <2>1, <1>0, RequestRecords, ReleaseAssumption
       DEF Asked, IsJob, hostState, RowTypes, RequestTypes, StepTypes, Owned, Images, Ids, Rows, States, Live, Final, Initially, rowVars
  <2>2. ASSUME NEW r \in Requesters, Abandons(r) PROVE RowTypes'
    BY <2>2, <1>0, RequestRecords, ReleaseAssumption
       DEF Abandons, hostState, RowTypes, RequestTypes, StepTypes, Owned, Images, Ids, Rows, States, Live, Final, Initially, rowVars
  <2>3. ASSUME NEW r \in Requesters, Inserts(r) PROVE RowTypes'
    <3>1. request[r].kind \in {"promote", "offer"} /\ request[r].version \in Images
      BY <1>0 DEF RequestTypes, Requests
    <3>2. made + 1 \in Ids /\ Initially(request[r].kind) \in States
      BY <2>3, <1>0, <3>1, ReleaseAssumption DEF Inserts, RowTypes, Ids, Initially, States, Live
    <3>3. QED
      BY <2>3, <1>0, <3>1, <3>2, ReleaseAssumption DEF Inserts, RowTypes, Ids
  <2>4. ASSUME NEW r \in Requesters, FilesJob(r) PROVE RowTypes'
    BY <2>4, <1>0, RequestRecords, ReleaseAssumption
       DEF FilesJob, hostState, RowTypes, RequestTypes, StepTypes, Owned, Images, Ids, Rows, States, Live, Final, Initially, rowVars
  <2>5. ASSUME NEW r \in Requesters, Links(r) PROVE RowTypes'
    BY <2>5, <1>0, RequestRecords, ReleaseAssumption
       DEF Links, hostState, RowTypes, RequestTypes, StepTypes, Owned, Images, Ids, Rows, States, Live, Final, Initially, rowVars
  <2>6. ASSUME NEW r \in Requesters, RequestDies(r) PROVE RowTypes'
    BY <2>6, <1>0, RequestRecords, ReleaseAssumption
       DEF RequestDies, hostState, RowTypes, RequestTypes, StepTypes, Owned, Images, Ids, Rows, States, Live, Final, Initially, rowVars
  <2>7. ASSUME NEW p \in Ids, Writes(p) PROVE RowTypes'
    BY <2>7, <1>0, RequestRecords, ReleaseAssumption
       DEF Writes, hostState, RowTypes, RequestTypes, StepTypes, Owned, Images, Ids, Rows, States, Live, Final, Initially, rowVars
  <2>8. ASSUME NEW p \in Ids, Crowns(p) PROVE RowTypes'
    BY <2>8, <1>0, RequestRecords, ReleaseAssumption
       DEF Crowns, hostState, RowTypes, RequestTypes, StepTypes, Owned, Images, Ids, Rows, States, Live, Final, Initially, rowVars
  <2>9. ASSUME NEW p \in Ids, Claims(p) PROVE RowTypes'
    BY <2>9, <1>0, RequestRecords, ReleaseAssumption
       DEF Claims, Validates, Ordinary, hostState, RowTypes, RequestTypes, StepTypes, Owned, Images, Ids, Rows, States, Live, Final, Initially, rowVars
  <2>10. ASSUME NEW p \in Ids, Enters(p) PROVE RowTypes'
    BY <2>10, <1>0, RequestRecords, ReleaseAssumption
       DEF Enters, IsJob, Ordinary, hostState, RowTypes, RequestTypes, StepTypes, Owned, Images, Ids, Rows, States, Live, Final, Initially, rowVars
  <2>11. ASSUME NEW p \in Ids, TimesOut(p) PROVE RowTypes'
    BY <2>11, <1>0, RequestRecords, ReleaseAssumption
       DEF TimesOut, IsJob, hostState, RowTypes, RequestTypes, StepTypes, Owned, Images, Ids, Rows, States, Live, Final, Initially, rowVars
  <2>12. ASSUME NEW p \in Ids, Applies(p) PROVE RowTypes'
    BY <2>12, <1>0, RequestRecords, ReleaseAssumption
       DEF Applies, Validates, hostState, RowTypes, RequestTypes, StepTypes, Owned, Images, Ids, Rows, States, Live, Final, Initially, rowVars
  <2>13. ASSUME NEW p \in Ids, Declines(p) PROVE RowTypes'
    BY <2>13, <1>0, RequestRecords, ReleaseAssumption
       DEF Declines, Validates, hostState, RowTypes, RequestTypes, StepTypes, Owned, Images, Ids, Rows, States, Live, Final, Initially, rowVars
  <2>14. ASSUME NEW p \in Ids, Fetches(p) PROVE RowTypes'
    BY <2>14, <1>0, RequestRecords, ReleaseAssumption
       DEF Fetches, Ordinary, OnHost, hostState, RowTypes, RequestTypes, StepTypes, Owned, Images, Ids, Rows, States, Live, Final, Initially, rowVars
  <2>15. ASSUME NEW p \in Ids, Refuses(p) PROVE RowTypes'
    BY <2>15, <1>0, RequestRecords, ReleaseAssumption
       DEF Refuses, hostState, RowTypes, RequestTypes, StepTypes, Owned, Images, Ids, Rows, States, Live, Final, Initially, rowVars
  <2>16. ASSUME NEW p \in Ids, Cleans(p) PROVE RowTypes'
    BY <2>16, <1>0, RequestRecords, ReleaseAssumption
       DEF Cleans, RowTypes, RequestTypes, StepTypes, Owned, Images, Ids, Rows, States, Live, Final, Initially, rowVars
  <2>17. ASSUME NEW p \in Ids, Probes(p) PROVE RowTypes'
    BY <2>17, <1>0, RequestRecords, ReleaseAssumption
       DEF Probes, RowTypes, RequestTypes, StepTypes, Owned, Images, Ids, Rows, States, Live, Final, Initially, rowVars
  <2>18. ASSUME NEW p \in Ids, Judges(p) PROVE RowTypes'
    BY <2>18, <1>0, RequestRecords, ReleaseAssumption
       DEF Judges, Answers, RowTypes, RequestTypes, StepTypes, Owned, Images, Ids, Rows, States, Live, Final, Initially, rowVars
  <2>19. ASSUME NEW p \in Ids, RemovesOld(p) PROVE RowTypes'
    BY <2>19, <1>0, RequestRecords, ReleaseAssumption
       DEF RemovesOld, RowTypes, RequestTypes, StepTypes, Owned, Images, Ids, Rows, States, Live, Final, Initially, rowVars
  <2>20. ASSUME NEW p \in Ids, RunsNew(p) PROVE RowTypes'
    BY <2>20, <1>0, RequestRecords, ReleaseAssumption
       DEF RunsNew, IsJob, RowTypes, RequestTypes, StepTypes, Owned, Images, Ids, Rows, States, Live, Final, Initially, rowVars
  <2>21. ASSUME NEW p \in Ids, RunFails(p) PROVE RowTypes'
    BY <2>21, <1>0, RequestRecords, ReleaseAssumption
       DEF RunFails, hostState, RowTypes, RequestTypes, StepTypes, Owned, Images, Ids, Rows, States, Live, Final, Initially, rowVars
  <2>22. ASSUME NEW p \in Ids, Records(p) PROVE RowTypes'
    BY <2>22, <1>0, RequestRecords, ReleaseAssumption
       DEF Records, hostState, RowTypes, RequestTypes, StepTypes, Owned, Images, Ids, Rows, States, Live, Final, Initially, rowVars
  <2>23. ASSUME NEW p \in Ids, HeadUnread(p) PROVE RowTypes'
    BY <2>23, <1>0, RequestRecords, ReleaseAssumption
       DEF HeadUnread, hostState, RowTypes, RequestTypes, StepTypes, Owned, Images, Ids, Rows, States, Live, Final, Initially, rowVars
  <2>24. ASSUME NEW p \in Ids, Names(p) PROVE RowTypes'
    BY <2>24, <1>0, RequestRecords, ReleaseAssumption
       DEF Names, Ordinary, hostState, RowTypes, RequestTypes, StepTypes, Owned, Images, Ids, Rows, States, Live, Final, Initially, rowVars
  <2>25. ASSUME NEW p \in Ids, Succeeds(p) PROVE RowTypes'
    BY <2>25, <1>0, RequestRecords, ReleaseAssumption
       DEF Succeeds, Reports, IsJob, Validates, hostState, RowTypes, RequestTypes, StepTypes, Owned, Images, Ids, Rows, States, Live, Final, Initially, rowVars
  <2>26. ASSUME NEW p \in Ids, Fails(p) PROVE RowTypes'
    BY <2>26, <1>0, RequestRecords, ReleaseAssumption
       DEF Fails, Reports, IsJob, Validates, hostState, RowTypes, RequestTypes, StepTypes, Owned, Images, Ids, Rows, States, Live, Final, Initially, rowVars
  <2>27. ASSUME NEW p \in Ids, Dies(p) PROVE RowTypes'
    BY <2>27, <1>0, RequestRecords, ReleaseAssumption
       DEF Dies, Busy, IsJob, hostState, OnHost, Unnamed, RowTypes, RequestTypes, StepTypes, Owned, Images, Ids, Rows, States, Live, Final, Initially, rowVars
  <2>28. ASSUME TipMoves PROVE RowTypes'
    BY <2>28, <1>0, RequestRecords, ReleaseAssumption
       DEF TipMoves, hostState, RowTypes, RequestTypes, StepTypes, Owned, Images, Ids, Rows, States, Live, Final, Initially, rowVars
  <2>29. ASSUME Builds PROVE RowTypes'
    <3>1. made + 1 \in Ids /\ "superseded" \in States /\ Versions \subseteq Images
      BY <2>29, <1>0, ReleaseAssumption DEF Builds, RowTypes, Ids, States, Final, Images
    <3>2. PICK v \in Versions : version' = [version EXCEPT ![made + 1] = v]
      BY <2>29 DEF Builds
    <3>3. /\ made' = made + 1 /\ kind' = [kind EXCEPT ![made + 1] = "build"]
          /\ state' = [state EXCEPT ![made + 1] = "superseded"] /\ UNCHANGED <<linked, current>>
      BY <2>29 DEF Builds
    <3>4. QED
      BY <1>0, <3>1, <3>2, <3>3, ReleaseAssumption DEF RowTypes, Ids
  <2>30. ASSUME Elsewhere PROVE RowTypes'
    BY <2>30, <1>0, RequestRecords, ReleaseAssumption
       DEF Elsewhere, hostState, RowTypes, RequestTypes, StepTypes, Owned, Images, Ids, Rows, States, Live, Final, Initially, rowVars
  <2>31. ASSUME UNCHANGED releaseVars PROVE RowTypes'
    BY <2>31, <1>0, RequestRecords, ReleaseAssumption
       DEF releaseVars, RowTypes, RequestTypes, StepTypes, Owned, Images, Ids, Rows, States, Live, Final, Initially, rowVars
  <2>32. QED
    BY <1>0, <2>1, <2>2, <2>3, <2>4, <2>5, <2>6, <2>7, <2>8, <2>9, <2>10, <2>11, <2>12, <2>13, <2>14, <2>15, <2>16, <2>17, <2>18, <2>19, <2>20, <2>21, <2>22, <2>23, <2>24, <2>25, <2>26, <2>27, <2>28, <2>29, <2>30, <2>31
       DEF ReleaseNext, Carries
<1>2. RequestTypes'
  <2>1. ASSUME NEW r \in Requesters, Asked(r) PROVE RequestTypes'
    <3>1. PICK k \in {"promote", "offer"}, v \in Versions :
             request' = [request EXCEPT ![r] = [at |-> "superseded", kind |-> k, version |-> v, row |-> 0]]
      BY <2>1 DEF Asked
    <3>2. [at |-> "superseded", kind |-> k, version |-> v, row |-> 0] \in Requests
      BY ReleaseAssumption DEF Requests, Images
    <3>3. QED
      BY <1>0, <3>1, <3>2 DEF RequestTypes
  <2>2. ASSUME NEW r \in Requesters, Abandons(r) PROVE RequestTypes'
    BY <2>2, <1>0, RequestRecords, ReleaseAssumption
       DEF Abandons, RowTypes, RequestTypes
  <2>3. ASSUME NEW r \in Requesters, Inserts(r) PROVE RequestTypes'
    <3>1. request[r] \in Requests /\ made + 1 \in 0..MaxPromotions
      BY <2>3, <1>0, ReleaseAssumption DEF Inserts, RequestTypes, RowTypes
    <3>2. [request[r] EXCEPT !.at = "inserted", !.row = made + 1] \in Requests
      BY <3>1, RequestRecords
    <3>3. QED
      BY <2>3, <1>0, <3>1, <3>2, RequestRecords DEF Inserts, RequestTypes
  <2>4. ASSUME NEW r \in Requesters, FilesJob(r) PROVE RequestTypes'
    BY <2>4, <1>0, RequestRecords, ReleaseAssumption
       DEF FilesJob, RowTypes, RequestTypes
  <2>5. ASSUME NEW r \in Requesters, Links(r) PROVE RequestTypes'
    BY <2>5, <1>0, RequestRecords, ReleaseAssumption
       DEF Links, RowTypes, RequestTypes
  <2>6. ASSUME NEW r \in Requesters, RequestDies(r) PROVE RequestTypes'
    BY <2>6, <1>0, RequestRecords, ReleaseAssumption
       DEF RequestDies, RowTypes, RequestTypes
  <2>7. ASSUME NEW p \in Ids, Writes(p) PROVE RequestTypes'
    BY <2>7, <1>0, RequestRecords, ReleaseAssumption
       DEF Writes, RowTypes, RequestTypes
  <2>8. ASSUME NEW p \in Ids, Crowns(p) PROVE RequestTypes'
    BY <2>8, <1>0, RequestRecords, ReleaseAssumption
       DEF Crowns, RowTypes, RequestTypes
  <2>9. ASSUME NEW p \in Ids, Claims(p) PROVE RequestTypes'
    BY <2>9, <1>0, RequestRecords, ReleaseAssumption
       DEF Claims, Ordinary, RowTypes, RequestTypes
  <2>10. ASSUME NEW p \in Ids, Enters(p) PROVE RequestTypes'
    BY <2>10, <1>0, RequestRecords, ReleaseAssumption
       DEF Enters, IsJob, Ordinary, RowTypes, RequestTypes
  <2>11. ASSUME NEW p \in Ids, TimesOut(p) PROVE RequestTypes'
    BY <2>11, <1>0, RequestRecords, ReleaseAssumption
       DEF TimesOut, IsJob, RowTypes, RequestTypes
  <2>12. ASSUME NEW p \in Ids, Applies(p) PROVE RequestTypes'
    BY <2>12, <1>0, RequestRecords, ReleaseAssumption
       DEF Applies, RowTypes, RequestTypes
  <2>13. ASSUME NEW p \in Ids, Declines(p) PROVE RequestTypes'
    BY <2>13, <1>0, RequestRecords, ReleaseAssumption
       DEF Declines, RowTypes, RequestTypes
  <2>14. ASSUME NEW p \in Ids, Fetches(p) PROVE RequestTypes'
    BY <2>14, <1>0, RequestRecords, ReleaseAssumption
       DEF Fetches, Ordinary, RowTypes, RequestTypes
  <2>15. ASSUME NEW p \in Ids, Refuses(p) PROVE RequestTypes'
    BY <2>15, <1>0, RequestRecords, ReleaseAssumption
       DEF Refuses, RowTypes, RequestTypes
  <2>16. ASSUME NEW p \in Ids, Cleans(p) PROVE RequestTypes'
    BY <2>16, <1>0, RequestRecords, ReleaseAssumption
       DEF Cleans, RowTypes, RequestTypes
  <2>17. ASSUME NEW p \in Ids, Probes(p) PROVE RequestTypes'
    BY <2>17, <1>0, RequestRecords, ReleaseAssumption
       DEF Probes, RowTypes, RequestTypes
  <2>18. ASSUME NEW p \in Ids, Judges(p) PROVE RequestTypes'
    BY <2>18, <1>0, RequestRecords, ReleaseAssumption
       DEF Judges, Answers, RowTypes, RequestTypes
  <2>19. ASSUME NEW p \in Ids, RemovesOld(p) PROVE RequestTypes'
    BY <2>19, <1>0, RequestRecords, ReleaseAssumption
       DEF RemovesOld, RowTypes, RequestTypes
  <2>20. ASSUME NEW p \in Ids, RunsNew(p) PROVE RequestTypes'
    BY <2>20, <1>0, RequestRecords, ReleaseAssumption
       DEF RunsNew, IsJob, RowTypes, RequestTypes
  <2>21. ASSUME NEW p \in Ids, RunFails(p) PROVE RequestTypes'
    BY <2>21, <1>0, RequestRecords, ReleaseAssumption
       DEF RunFails, RowTypes, RequestTypes
  <2>22. ASSUME NEW p \in Ids, Records(p) PROVE RequestTypes'
    BY <2>22, <1>0, RequestRecords, ReleaseAssumption
       DEF Records, RowTypes, RequestTypes
  <2>23. ASSUME NEW p \in Ids, HeadUnread(p) PROVE RequestTypes'
    BY <2>23, <1>0, RequestRecords, ReleaseAssumption
       DEF HeadUnread, RowTypes, RequestTypes
  <2>24. ASSUME NEW p \in Ids, Names(p) PROVE RequestTypes'
    BY <2>24, <1>0, RequestRecords, ReleaseAssumption
       DEF Names, Ordinary, RowTypes, RequestTypes
  <2>25. ASSUME NEW p \in Ids, Succeeds(p) PROVE RequestTypes'
    BY <2>25, <1>0, RequestRecords, ReleaseAssumption
       DEF Succeeds, Reports, IsJob, RowTypes, RequestTypes
  <2>26. ASSUME NEW p \in Ids, Fails(p) PROVE RequestTypes'
    BY <2>26, <1>0, RequestRecords, ReleaseAssumption
       DEF Fails, Reports, IsJob, RowTypes, RequestTypes
  <2>27. ASSUME NEW p \in Ids, Dies(p) PROVE RequestTypes'
    BY <2>27, <1>0, RequestRecords, ReleaseAssumption
       DEF Dies, Busy, IsJob, Unnamed, RowTypes, RequestTypes
  <2>28. ASSUME TipMoves PROVE RequestTypes'
    BY <2>28, <1>0, RequestRecords, ReleaseAssumption
       DEF TipMoves, RowTypes, RequestTypes
  <2>29. ASSUME Builds PROVE RequestTypes'
    BY <2>29, <1>0, RequestRecords, ReleaseAssumption
       DEF Builds, Ordinary, RowTypes, RequestTypes
  <2>30. ASSUME Elsewhere PROVE RequestTypes'
    BY <2>30, <1>0, RequestRecords, ReleaseAssumption
       DEF Elsewhere, RowTypes, RequestTypes
  <2>31. ASSUME UNCHANGED releaseVars PROVE RequestTypes'
    BY <2>31, <1>0, RequestRecords, ReleaseAssumption
       DEF releaseVars, RowTypes, RequestTypes
  <2>32. QED
    BY <1>0, <2>1, <2>2, <2>3, <2>4, <2>5, <2>6, <2>7, <2>8, <2>9, <2>10, <2>11, <2>12, <2>13, <2>14, <2>15, <2>16, <2>17, <2>18, <2>19, <2>20, <2>21, <2>22, <2>23, <2>24, <2>25, <2>26, <2>27, <2>28, <2>29, <2>30, <2>31
       DEF ReleaseNext, Carries
<1>3. StepTypes'
  <2>1. ASSUME NEW r \in Requesters, Asked(r) PROVE StepTypes'
    BY <2>1, <1>0, ReleaseAssumption
       DEF Asked, If, IsJob, RowTypes, StepTypes, Owned, Ids, Rows, States, Live, Final, Steps, Busy, OnHost, rowVars
  <2>2. ASSUME NEW r \in Requesters, Abandons(r) PROVE StepTypes'
    BY <2>2, <1>0, ReleaseAssumption
       DEF Abandons, RowTypes, StepTypes, Owned, Ids, Rows, States, Live, Final, Steps, Busy, OnHost, rowVars
  <2>3. ASSUME NEW r \in Requesters, Inserts(r) PROVE StepTypes'
    BY <2>3, <1>0, ReleaseAssumption
       DEF Inserts, RowTypes, StepTypes, Owned, Ids, Rows, States, Live, Final, Steps, Busy, OnHost, rowVars
  <2>4. ASSUME NEW r \in Requesters, FilesJob(r) PROVE StepTypes'
    BY <2>4, <1>0, ReleaseAssumption
       DEF FilesJob, RowTypes, StepTypes, Owned, Ids, Rows, States, Live, Final, Steps, Busy, OnHost, rowVars
  <2>5. ASSUME NEW r \in Requesters, Links(r) PROVE StepTypes'
    BY <2>5, <1>0, ReleaseAssumption
       DEF Links, RowTypes, StepTypes, Owned, Ids, Rows, States, Live, Final, Steps, Busy, OnHost, rowVars
  <2>6. ASSUME NEW r \in Requesters, RequestDies(r) PROVE StepTypes'
    BY <2>6, <1>0, ReleaseAssumption
       DEF RequestDies, RowTypes, StepTypes, Owned, Ids, Rows, States, Live, Final, Steps, Busy, OnHost, rowVars
  <2>7. ASSUME NEW p \in Ids, Writes(p) PROVE StepTypes'
    BY <2>7, <1>0, ReleaseAssumption
       DEF Writes, Goes, If, RowTypes, StepTypes, Owned, Ids, Rows, States, Live, Final, Steps, Busy, OnHost, rowVars
  <2>8. ASSUME NEW p \in Ids, Crowns(p) PROVE StepTypes'
    BY <2>8, <1>0, ReleaseAssumption
       DEF Crowns, Goes, RowTypes, StepTypes, Owned, Ids, Rows, States, Live, Final, Steps, Busy, OnHost, rowVars
  <2>9. ASSUME NEW p \in Ids, Claims(p) PROVE StepTypes'
    <3>1. step[p] = "queued" /\ p \in Rows
      BY <2>9, <1>0 DEF Claims, Owned
    <3>2. \/ step' = [step EXCEPT ![p] = "starting"] /\ intent' = [intent EXCEPT ![p] = "deploying"]
          \/ step' = [step EXCEPT ![p] = "waiting"] /\ UNCHANGED intent
      BY <2>9 DEF Claims, Validates, Goes
    <3>3. "deploying" \in States /\ "starting" \in Steps /\ "waiting" \in Steps
      BY DEF States, Live, Steps, Busy
    <3>4. made' = made
      BY <2>9 DEF Claims, rowVars
    <3>5. QED
      BY <1>0, <3>1, <3>2, <3>3, <3>4 DEF StepTypes, Rows
  <2>10. ASSUME NEW p \in Ids, Enters(p) PROVE StepTypes'
    BY <2>10, <1>0, ReleaseAssumption
       DEF Enters, IsJob, Goes, Ordinary, If, RowTypes, StepTypes, Owned, Ids, Rows, States, Live, Final, Steps, Busy, OnHost, rowVars
  <2>11. ASSUME NEW p \in Ids, TimesOut(p) PROVE StepTypes'
    BY <2>11, <1>0, ReleaseAssumption
       DEF TimesOut, IsJob, Goes, RowTypes, StepTypes, Owned, Ids, Rows, States, Live, Final, Steps, Busy, OnHost, rowVars
  <2>12. ASSUME NEW p \in Ids, Applies(p) PROVE StepTypes'
    BY <2>12, <1>0, ReleaseAssumption
       DEF Applies, Validates, RowTypes, StepTypes, Owned, Ids, Rows, States, Live, Final, Steps, Busy, OnHost, rowVars
  <2>13. ASSUME NEW p \in Ids, Declines(p) PROVE StepTypes'
    BY <2>13, <1>0, ReleaseAssumption
       DEF Declines, Validates, RowTypes, StepTypes, Owned, Ids, Rows, States, Live, Final, Steps, Busy, OnHost, rowVars
  <2>14. ASSUME NEW p \in Ids, Fetches(p) PROVE StepTypes'
    BY <2>14, <1>0, ReleaseAssumption
       DEF Fetches, Ordinary, Goes, If, RowTypes, StepTypes, Owned, Ids, Rows, States, Live, Final, Steps, Busy, OnHost, rowVars
  <2>15. ASSUME NEW p \in Ids, Refuses(p) PROVE StepTypes'
    BY <2>15, <1>0, ReleaseAssumption
       DEF Refuses, Goes, RowTypes, StepTypes, Owned, Ids, Rows, States, Live, Final, Steps, Busy, OnHost, rowVars
  <2>16. ASSUME NEW p \in Ids, Cleans(p) PROVE StepTypes'
    BY <2>16, <1>0, ReleaseAssumption
       DEF Cleans, Goes, RowTypes, StepTypes, Owned, Ids, Rows, States, Live, Final, Steps, Busy, OnHost, rowVars
  <2>17. ASSUME NEW p \in Ids, Probes(p) PROVE StepTypes'
    BY <2>17, <1>0, ReleaseAssumption
       DEF Probes, Goes, RowTypes, StepTypes, Owned, Ids, Rows, States, Live, Final, Steps, Busy, OnHost, rowVars
  <2>18. ASSUME NEW p \in Ids, Judges(p) PROVE StepTypes'
    BY <2>18, <1>0, ReleaseAssumption
       DEF Judges, Answers, Goes, RowTypes, StepTypes, Owned, Ids, Rows, States, Live, Final, Steps, Busy, OnHost, rowVars
  <2>19. ASSUME NEW p \in Ids, RemovesOld(p) PROVE StepTypes'
    BY <2>19, <1>0, ReleaseAssumption
       DEF RemovesOld, Goes, If, RowTypes, StepTypes, Owned, Ids, Rows, States, Live, Final, Steps, Busy, OnHost, rowVars
  <2>20. ASSUME NEW p \in Ids, RunsNew(p) PROVE StepTypes'
    <3>1. PICK x \in {"served", "up", "broken"} : step' = [step EXCEPT ![p] = x] /\ UNCHANGED <<intent, made>>
      BY <2>20 DEF RunsNew, Goes, rowVars
    <3>2. x \in Steps /\ x \notin {"starting", "ending"}
      BY DEF Steps, Busy, Unnamed
    <3>3. QED
      BY <1>0, <3>1, <3>2 DEF StepTypes
  <2>21. ASSUME NEW p \in Ids, RunFails(p) PROVE StepTypes'
    BY <2>21, <1>0, ReleaseAssumption
       DEF RunFails, Goes, RowTypes, StepTypes, Owned, Ids, Rows, States, Live, Final, Steps, Busy, OnHost, rowVars
  <2>22. ASSUME NEW p \in Ids, Records(p) PROVE StepTypes'
    <3>1. step' = [step EXCEPT ![p] = "naming"] /\ UNCHANGED <<intent, made>>
      BY <2>22 DEF Records, Goes, rowVars
    <3>2. "naming" \in Steps
      BY DEF Steps, Busy, Unnamed
    <3>3. QED
      BY <1>0, <3>1, <3>2 DEF StepTypes
  <2>23. ASSUME NEW p \in Ids, HeadUnread(p) PROVE StepTypes'
    BY <2>23, <1>0, ReleaseAssumption
       DEF HeadUnread, Goes, RowTypes, StepTypes, Owned, Ids, Rows, States, Live, Final, Steps, Busy, OnHost, rowVars
  <2>24. ASSUME NEW p \in Ids, Names(p) PROVE StepTypes'
    BY <2>24, <1>0, ReleaseAssumption
       DEF Names, Goes, Ordinary, If, RowTypes, StepTypes, Owned, Ids, Rows, States, Live, Final, Steps, Busy, OnHost, rowVars
  <2>25. ASSUME NEW p \in Ids, Succeeds(p) PROVE StepTypes'
    <3>1. step[p] = "up" /\ p \in Rows
      BY <2>25, <1>0 DEF Succeeds, Reports, Owned
    <3>2. \/ step' = [step EXCEPT ![p] = "ending"] /\ intent' = [intent EXCEPT ![p] = "deployed"]
          \/ step' = [step EXCEPT ![p] = "over"] /\ UNCHANGED intent
      BY <2>25 DEF Succeeds, Reports, Validates, Goes
    <3>3. "deployed" \in States /\ "ending" \in Steps /\ "over" \in Steps
      BY DEF States, Final, Steps, Busy
    <3>4. made' = made
      BY <2>25 DEF Succeeds, Reports, rowVars
    <3>5. QED
      BY <1>0, <3>1, <3>2, <3>3, <3>4 DEF StepTypes, Rows
  <2>26. ASSUME NEW p \in Ids, Fails(p) PROVE StepTypes'
    <3>1. step[p] = "broken" /\ p \in Rows
      BY <2>26, <1>0 DEF Fails, Reports, Owned
    <3>2. \/ step' = [step EXCEPT ![p] = "ending"] /\ intent' = [intent EXCEPT ![p] = "failed"]
          \/ step' = [step EXCEPT ![p] = "over"] /\ UNCHANGED intent
      BY <2>26 DEF Fails, Reports, Validates, Goes
    <3>3. "failed" \in States /\ "ending" \in Steps /\ "over" \in Steps
      BY DEF States, Final, Steps, Busy
    <3>4. made' = made
      BY <2>26 DEF Fails, Reports, rowVars
    <3>5. QED
      BY <1>0, <3>1, <3>2, <3>3, <3>4 DEF StepTypes, Rows
  <2>27. ASSUME NEW p \in Ids, Dies(p) PROVE StepTypes'
    BY <2>27, <1>0, ReleaseAssumption
       DEF Dies, Goes, IsJob, If, RowTypes, StepTypes, Owned, Ids, Rows, States, Live, Final, Steps, Busy, OnHost, rowVars
  <2>28. ASSUME TipMoves PROVE StepTypes'
    BY <2>28, <1>0, ReleaseAssumption
       DEF TipMoves, RowTypes, StepTypes, Owned, Ids, Rows, States, Live, Final, Steps, Busy, OnHost, rowVars
  <2>29. ASSUME Builds PROVE StepTypes'
    BY <2>29, <1>0, ReleaseAssumption
       DEF Builds, Ordinary, RowTypes, StepTypes, Owned, Ids, Rows, States, Live, Final, Steps, Busy, OnHost, rowVars
  <2>30. ASSUME Elsewhere PROVE StepTypes'
    BY <2>30, <1>0, ReleaseAssumption
       DEF Elsewhere, RowTypes, StepTypes, Owned, Ids, Rows, States, Live, Final, Steps, Busy, OnHost, rowVars
  <2>31. ASSUME UNCHANGED releaseVars PROVE StepTypes'
    BY <2>31, <1>0, ReleaseAssumption
       DEF releaseVars, RowTypes, StepTypes, Owned, Ids, Rows, States, Live, Final, Steps, Busy, OnHost, rowVars
  <2>32. QED
    BY <1>0, <2>1, <2>2, <2>3, <2>4, <2>5, <2>6, <2>7, <2>8, <2>9, <2>10, <2>11, <2>12, <2>13, <2>14, <2>15, <2>16, <2>17, <2>18, <2>19, <2>20, <2>21, <2>22, <2>23, <2>24, <2>25, <2>26, <2>27, <2>28, <2>29, <2>30, <2>31
       DEF ReleaseNext, Carries
<1>4. HostTypes'
  <2>1. ASSUME NEW r \in Requesters, Asked(r) PROVE HostTypes'
    BY <2>1, <1>0, ReleaseAssumption
       DEF Asked, Notes, If, IsJob, RowTypes, HostTypes, Images, Oddities, hostState
  <2>2. ASSUME NEW r \in Requesters, Abandons(r) PROVE HostTypes'
    BY <2>2, <1>0, ReleaseAssumption
       DEF Abandons, rowVars, RowTypes, HostTypes, Images, Oddities, hostState
  <2>3. ASSUME NEW r \in Requesters, Inserts(r) PROVE HostTypes'
    BY <2>3, <1>0, ReleaseAssumption
       DEF Inserts, RowTypes, HostTypes, Images, Oddities, hostState
  <2>4. ASSUME NEW r \in Requesters, FilesJob(r) PROVE HostTypes'
    BY <2>4, <1>0, ReleaseAssumption
       DEF FilesJob, rowVars, RowTypes, HostTypes, Images, Oddities, hostState
  <2>5. ASSUME NEW r \in Requesters, Links(r) PROVE HostTypes'
    BY <2>5, <1>0, ReleaseAssumption
       DEF Links, RowTypes, HostTypes, Images, Oddities, hostState
  <2>6. ASSUME NEW r \in Requesters, RequestDies(r) PROVE HostTypes'
    BY <2>6, <1>0, ReleaseAssumption
       DEF RequestDies, Notes, rowVars, RowTypes, HostTypes, Images, Oddities, hostState
  <2>7. ASSUME NEW p \in Ids, Writes(p) PROVE HostTypes'
    BY <2>7, <1>0, ReleaseAssumption
       DEF Writes, Notes, If, RowTypes, HostTypes, Images, Oddities, hostState
  <2>8. ASSUME NEW p \in Ids, Crowns(p) PROVE HostTypes'
    BY <2>8, <1>0, ReleaseAssumption
       DEF Crowns, rowVars, RowTypes, HostTypes, Images, Oddities, hostState
  <2>9. ASSUME NEW p \in Ids, Claims(p) PROVE HostTypes'
    BY <2>9, <1>0, ReleaseAssumption
       DEF Claims, Notes, If, Ordinary, rowVars, RowTypes, HostTypes, Images, Oddities, hostState
  <2>10. ASSUME NEW p \in Ids, Enters(p) PROVE HostTypes'
    BY <2>10, <1>0, ReleaseAssumption
       DEF Enters, IsJob, Ordinary, Notes, If, rowVars, RowTypes, HostTypes, Images, Oddities, hostState
  <2>11. ASSUME NEW p \in Ids, TimesOut(p) PROVE HostTypes'
    BY <2>11, <1>0, ReleaseAssumption
       DEF TimesOut, IsJob, rowVars, RowTypes, HostTypes, Images, Oddities, hostState
  <2>12. ASSUME NEW p \in Ids, Applies(p) PROVE HostTypes'
    BY <2>12, <1>0, ReleaseAssumption
       DEF Applies, rowVars, RowTypes, HostTypes, Images, Oddities, hostState
  <2>13. ASSUME NEW p \in Ids, Declines(p) PROVE HostTypes'
    BY <2>13, <1>0, ReleaseAssumption
       DEF Declines, rowVars, RowTypes, HostTypes, Images, Oddities, hostState
  <2>14. ASSUME NEW p \in Ids, Fetches(p) PROVE HostTypes'
    BY <2>14, <1>0, ReleaseAssumption
       DEF Fetches, Ordinary, Notes, If, rowVars, RowTypes, HostTypes, Images, Oddities, hostState
  <2>15. ASSUME NEW p \in Ids, Refuses(p) PROVE HostTypes'
    BY <2>15, <1>0, ReleaseAssumption
       DEF Refuses, rowVars, RowTypes, HostTypes, Images, Oddities, hostState
  <2>16. ASSUME NEW p \in Ids, Cleans(p) PROVE HostTypes'
    BY <2>16, <1>0, ReleaseAssumption
       DEF Cleans, rowVars, RowTypes, HostTypes, Images, Oddities, hostState
  <2>17. ASSUME NEW p \in Ids, Probes(p) PROVE HostTypes'
    BY <2>17, <1>0, ReleaseAssumption
       DEF Probes, rowVars, RowTypes, HostTypes, Images, Oddities, hostState
  <2>18. ASSUME NEW p \in Ids, Judges(p) PROVE HostTypes'
    BY <2>18, <1>0, ReleaseAssumption
       DEF Judges, Answers, rowVars, RowTypes, HostTypes, Images, Oddities, hostState
  <2>19. ASSUME NEW p \in Ids, RemovesOld(p) PROVE HostTypes'
    BY <2>19, <1>0, ReleaseAssumption
       DEF RemovesOld, Notes, If, rowVars, RowTypes, HostTypes, Images, Oddities, hostState
  <2>20. ASSUME NEW p \in Ids, RunsNew(p) PROVE HostTypes'
    BY <2>20, <1>0, ReleaseAssumption
       DEF RunsNew, IsJob, rowVars, RowTypes, HostTypes, Images, Oddities, hostState
  <2>21. ASSUME NEW p \in Ids, RunFails(p) PROVE HostTypes'
    BY <2>21, <1>0, ReleaseAssumption
       DEF RunFails, Notes, rowVars, RowTypes, HostTypes, Images, Oddities, hostState
  <2>22. ASSUME NEW p \in Ids, Records(p) PROVE HostTypes'
    BY <2>22, <1>0, ReleaseAssumption
       DEF Records, rowVars, RowTypes, HostTypes, Images, Oddities, hostState
  <2>23. ASSUME NEW p \in Ids, HeadUnread(p) PROVE HostTypes'
    BY <2>23, <1>0, ReleaseAssumption
       DEF HeadUnread, Notes, rowVars, RowTypes, HostTypes, Images, Oddities, hostState
  <2>24. ASSUME NEW p \in Ids, Names(p) PROVE HostTypes'
    BY <2>24, <1>0, ReleaseAssumption
       DEF Names, Ordinary, Notes, If, rowVars, RowTypes, HostTypes, Images, Oddities, hostState
  <2>25. ASSUME NEW p \in Ids, Succeeds(p) PROVE HostTypes'
    BY <2>25, <1>0, ReleaseAssumption
       DEF Succeeds, Reports, IsJob, rowVars, RowTypes, HostTypes, Images, Oddities, hostState
  <2>26. ASSUME NEW p \in Ids, Fails(p) PROVE HostTypes'
    BY <2>26, <1>0, ReleaseAssumption
       DEF Fails, Reports, IsJob, rowVars, RowTypes, HostTypes, Images, Oddities, hostState
  <2>27. ASSUME NEW p \in Ids, Dies(p) PROVE HostTypes'
    BY <2>27, <1>0, ReleaseAssumption
       DEF Dies, Busy, IsJob, Notes, If, rowVars, Unnamed, RowTypes, HostTypes, Images, Oddities, hostState
  <2>28. ASSUME TipMoves PROVE HostTypes'
    BY <2>28, <1>0, ReleaseAssumption
       DEF TipMoves, rowVars, RowTypes, HostTypes, Images, Oddities, hostState
  <2>29. ASSUME Builds PROVE HostTypes'
    BY <2>29, <1>0, ReleaseAssumption
       DEF Builds, Ordinary, RowTypes, HostTypes, Images, Oddities, hostState
  <2>30. ASSUME Elsewhere PROVE HostTypes'
    BY <2>30, <1>0, ReleaseAssumption
       DEF Elsewhere, Notes, rowVars, RowTypes, HostTypes, Images, Oddities, hostState
  <2>31. ASSUME UNCHANGED releaseVars PROVE HostTypes'
    BY <2>31, <1>0, ReleaseAssumption
       DEF releaseVars, RowTypes, HostTypes, Images, Oddities, hostState
  <2>32. QED
    BY <1>0, <2>1, <2>2, <2>3, <2>4, <2>5, <2>6, <2>7, <2>8, <2>9, <2>10, <2>11, <2>12, <2>13, <2>14, <2>15, <2>16, <2>17, <2>18, <2>19, <2>20, <2>21, <2>22, <2>23, <2>24, <2>25, <2>26, <2>27, <2>28, <2>29, <2>30, <2>31
       DEF ReleaseNext, Carries
<1>5. Owned'
  <2>1. ASSUME NEW r \in Requesters, Asked(r) PROVE Owned'
    BY <2>1, <1>0, ReleaseAssumption
       DEF Asked, IsJob, hostState, RowTypes, RequestTypes, StepTypes, Owned, Ids, Rows, Idle, rowVars
  <2>2. ASSUME NEW r \in Requesters, Abandons(r) PROVE Owned'
    BY <2>2, <1>0, ReleaseAssumption
       DEF Abandons, hostState, RowTypes, RequestTypes, StepTypes, Owned, Ids, Rows, Idle, rowVars
  <2>3. ASSUME NEW r \in Requesters, Inserts(r) PROVE Owned'
    BY <2>3, <1>0, ReleaseAssumption
       DEF Inserts, hostState, RowTypes, RequestTypes, StepTypes, Owned, Ids, Rows, Idle, rowVars
  <2>4. ASSUME NEW r \in Requesters, FilesJob(r) PROVE Owned'
    BY <2>4, <1>0, ReleaseAssumption
       DEF FilesJob, hostState, RowTypes, RequestTypes, StepTypes, Owned, Ids, Rows, Idle, rowVars
  <2>5. ASSUME NEW r \in Requesters, Links(r) PROVE Owned'
    BY <2>5, <1>0, ReleaseAssumption
       DEF Links, hostState, RowTypes, RequestTypes, StepTypes, Owned, Ids, Rows, Idle, rowVars
  <2>6. ASSUME NEW r \in Requesters, RequestDies(r) PROVE Owned'
    BY <2>6, <1>0, ReleaseAssumption
       DEF RequestDies, hostState, RowTypes, RequestTypes, StepTypes, Owned, Ids, Rows, Idle, rowVars
  <2>7. ASSUME NEW p \in Ids, Writes(p) PROVE Owned'
    BY <2>7, <1>0, ReleaseAssumption
       DEF Writes, Goes, hostState, RowTypes, RequestTypes, StepTypes, Owned, Ids, Rows, Idle, rowVars
  <2>8. ASSUME NEW p \in Ids, Crowns(p) PROVE Owned'
    BY <2>8, <1>0, ReleaseAssumption
       DEF Crowns, Goes, hostState, RowTypes, RequestTypes, StepTypes, Owned, Ids, Rows, Idle, rowVars
  <2>9. ASSUME NEW p \in Ids, Claims(p) PROVE Owned'
    BY <2>9, <1>0, ReleaseAssumption
       DEF Claims, Validates, Goes, Ordinary, hostState, RowTypes, RequestTypes, StepTypes, Owned, Ids, Rows, Idle, rowVars
  <2>10. ASSUME NEW p \in Ids, Enters(p) PROVE Owned'
    BY <2>10, <1>0, ReleaseAssumption
       DEF Enters, IsJob, Goes, Ordinary, hostState, RowTypes, RequestTypes, StepTypes, Owned, Ids, Rows, Idle, rowVars
  <2>11. ASSUME NEW p \in Ids, TimesOut(p) PROVE Owned'
    BY <2>11, <1>0, ReleaseAssumption
       DEF TimesOut, IsJob, Goes, hostState, RowTypes, RequestTypes, StepTypes, Owned, Ids, Rows, Idle, rowVars
  <2>12. ASSUME NEW p \in Ids, Applies(p) PROVE Owned'
    BY <2>12, <1>0, ReleaseAssumption
       DEF Applies, Validates, hostState, RowTypes, RequestTypes, StepTypes, Owned, Ids, Rows, Idle, rowVars
  <2>13. ASSUME NEW p \in Ids, Declines(p) PROVE Owned'
    BY <2>13, <1>0, ReleaseAssumption
       DEF Declines, Validates, hostState, RowTypes, RequestTypes, StepTypes, Owned, Ids, Rows, Idle, rowVars
  <2>14. ASSUME NEW p \in Ids, Fetches(p) PROVE Owned'
    BY <2>14, <1>0, ReleaseAssumption
       DEF Fetches, Ordinary, Goes, hostState, RowTypes, RequestTypes, StepTypes, Owned, Ids, Rows, Idle, rowVars
  <2>15. ASSUME NEW p \in Ids, Refuses(p) PROVE Owned'
    BY <2>15, <1>0, ReleaseAssumption
       DEF Refuses, Goes, hostState, RowTypes, RequestTypes, StepTypes, Owned, Ids, Rows, Idle, rowVars
  <2>16. ASSUME NEW p \in Ids, Cleans(p) PROVE Owned'
    BY <2>16, <1>0, ReleaseAssumption
       DEF Cleans, Goes, RowTypes, RequestTypes, StepTypes, Owned, Ids, Rows, Idle, rowVars
  <2>17. ASSUME NEW p \in Ids, Probes(p) PROVE Owned'
    BY <2>17, <1>0, ReleaseAssumption
       DEF Probes, Goes, RowTypes, RequestTypes, StepTypes, Owned, Ids, Rows, Idle, rowVars
  <2>18. ASSUME NEW p \in Ids, Judges(p) PROVE Owned'
    BY <2>18, <1>0, ReleaseAssumption
       DEF Judges, Answers, Goes, RowTypes, RequestTypes, StepTypes, Owned, Ids, Rows, Idle, rowVars
  <2>19. ASSUME NEW p \in Ids, RemovesOld(p) PROVE Owned'
    BY <2>19, <1>0, ReleaseAssumption
       DEF RemovesOld, Goes, RowTypes, RequestTypes, StepTypes, Owned, Ids, Rows, Idle, rowVars
  <2>20. ASSUME NEW p \in Ids, RunsNew(p) PROVE Owned'
    BY <2>20, <1>0, ReleaseAssumption
       DEF RunsNew, Goes, IsJob, RowTypes, RequestTypes, StepTypes, Owned, Ids, Rows, Idle, rowVars
  <2>21. ASSUME NEW p \in Ids, RunFails(p) PROVE Owned'
    BY <2>21, <1>0, ReleaseAssumption
       DEF RunFails, Goes, hostState, RowTypes, RequestTypes, StepTypes, Owned, Ids, Rows, Idle, rowVars
  <2>22. ASSUME NEW p \in Ids, Records(p) PROVE Owned'
    BY <2>22, <1>0, ReleaseAssumption
       DEF Records, Goes, hostState, RowTypes, RequestTypes, StepTypes, Owned, Ids, Rows, Idle, rowVars
  <2>23. ASSUME NEW p \in Ids, HeadUnread(p) PROVE Owned'
    BY <2>23, <1>0, ReleaseAssumption
       DEF HeadUnread, Goes, hostState, RowTypes, RequestTypes, StepTypes, Owned, Ids, Rows, Idle, rowVars
  <2>24. ASSUME NEW p \in Ids, Names(p) PROVE Owned'
    BY <2>24, <1>0, ReleaseAssumption
       DEF Names, Goes, Ordinary, hostState, RowTypes, RequestTypes, StepTypes, Owned, Ids, Rows, Idle, rowVars
  <2>25. ASSUME NEW p \in Ids, Succeeds(p) PROVE Owned'
    BY <2>25, <1>0, ReleaseAssumption
       DEF Succeeds, Reports, IsJob, Validates, Goes, hostState, RowTypes, RequestTypes, StepTypes, Owned, Ids, Rows, Idle, rowVars
  <2>26. ASSUME NEW p \in Ids, Fails(p) PROVE Owned'
    BY <2>26, <1>0, ReleaseAssumption
       DEF Fails, Reports, IsJob, Validates, Goes, hostState, RowTypes, RequestTypes, StepTypes, Owned, Ids, Rows, Idle, rowVars
  <2>27. ASSUME NEW p \in Ids, Dies(p) PROVE Owned'
    BY <2>27, <1>0 DEF Dies, Busy, OnHost, Unnamed, Goes, Owned, Fresh, StepTypes, Rows, Ids, rowVars
  <2>28. ASSUME TipMoves PROVE Owned'
    BY <2>28, <1>0, ReleaseAssumption
       DEF TipMoves, hostState, RowTypes, RequestTypes, StepTypes, Owned, Ids, Rows, Idle, rowVars
  <2>29. ASSUME Builds PROVE Owned'
    BY <2>29, <1>0, ReleaseAssumption
       DEF Builds, Ordinary, hostState, RowTypes, RequestTypes, StepTypes, Owned, Ids, Rows, Idle, rowVars
  <2>30. ASSUME Elsewhere PROVE Owned'
    BY <2>30, <1>0, ReleaseAssumption
       DEF Elsewhere, hostState, RowTypes, RequestTypes, StepTypes, Owned, Ids, Rows, Idle, rowVars
  <2>31. ASSUME UNCHANGED releaseVars PROVE Owned'
    BY <2>31, <1>0, ReleaseAssumption
       DEF releaseVars, RowTypes, RequestTypes, StepTypes, Owned, Ids, Rows, Idle, rowVars
  <2>32. QED
    BY <1>0, <2>1, <2>2, <2>3, <2>4, <2>5, <2>6, <2>7, <2>8, <2>9, <2>10, <2>11, <2>12, <2>13, <2>14, <2>15, <2>16, <2>17, <2>18, <2>19, <2>20, <2>21, <2>22, <2>23, <2>24, <2>25, <2>26, <2>27, <2>28, <2>29, <2>30, <2>31
       DEF ReleaseNext, Carries
<1>6. Fresh'
  <2>1. ASSUME NEW r \in Requesters, Asked(r) PROVE Fresh'
    BY <2>1, <1>0, ReleaseAssumption
       DEF Asked, IsJob, hostState, RowTypes, RequestTypes, StepTypes, Owned, Fresh, Ids, Rows, Idle, Live, Initially, rowVars
  <2>2. ASSUME NEW r \in Requesters, Abandons(r) PROVE Fresh'
    BY <2>2, <1>0, ReleaseAssumption
       DEF Abandons, hostState, RowTypes, RequestTypes, StepTypes, Owned, Fresh, Ids, Rows, Idle, Live, Initially, rowVars
  <2>3. ASSUME NEW r \in Requesters, Inserts(r) PROVE Fresh'
    <3>1. made + 1 \in Ids /\ made + 1 \notin Rows /\ request[r] \in Requests
      BY <2>3, <1>0, ReleaseAssumption DEF Inserts, RowTypes, RequestTypes, Ids, Rows
    <3>2. step[made + 1] = "none"
      BY <1>0, <3>1 DEF Owned
    <3>3. \A q \in Requesters \ {r} : request'[q] = request[q]
      BY <2>3, <1>0 DEF Inserts, RequestTypes
    <3>4. request'[r].at = "inserted" => request'[r].row = made + 1 /\ request[r].kind # "offer"
      BY <2>3, <1>0, <3>1 DEF Inserts, RequestTypes, Requests, Idle
    <3>5. request[r].kind # "offer" => state'[made + 1] # "available"
      BY <2>3, <1>0, <3>1 DEF Inserts, RowTypes, Requests, Initially
    <3>6. \A p \in Rows : state'[p] = state[p]
      BY <2>3, <1>0, <3>1 DEF Inserts, RowTypes, Ids, Rows
    <3>7. step' = step
      BY <2>3 DEF Inserts
    <3>8. \A q \in Requesters \ {r} : request[q].at = "inserted" => request[q].row # made + 1
      BY <1>0, <3>1 DEF Owned
    <3>9. QED
      BY <1>0, <3>2, <3>3, <3>4, <3>5, <3>6, <3>7, <3>8 DEF Fresh, Owned
  <2>4. ASSUME NEW r \in Requesters, FilesJob(r) PROVE Fresh'
    BY <2>4, <1>0, ReleaseAssumption
       DEF FilesJob, hostState, RowTypes, RequestTypes, StepTypes, Owned, Fresh, Ids, Rows, Idle, Live, Initially, rowVars
  <2>5. ASSUME NEW r \in Requesters, Links(r) PROVE Fresh'
    BY <2>5, <1>0, ReleaseAssumption
       DEF Links, hostState, RowTypes, RequestTypes, StepTypes, Owned, Fresh, Ids, Rows, Idle, Live, Initially, rowVars
  <2>6. ASSUME NEW r \in Requesters, RequestDies(r) PROVE Fresh'
    BY <2>6, <1>0, ReleaseAssumption
       DEF RequestDies, hostState, RowTypes, RequestTypes, StepTypes, Owned, Fresh, Ids, Rows, Idle, Live, Initially, rowVars
  <2>7. ASSUME NEW p \in Ids, Writes(p) PROVE Fresh'
    BY <2>7, <1>0, ReleaseAssumption
       DEF Writes, Goes, hostState, RowTypes, RequestTypes, StepTypes, Owned, Fresh, Ids, Rows, Idle, Live, Initially, rowVars
  <2>8. ASSUME NEW p \in Ids, Crowns(p) PROVE Fresh'
    BY <2>8, <1>0, ReleaseAssumption
       DEF Crowns, Goes, hostState, RowTypes, RequestTypes, StepTypes, Owned, Fresh, Ids, Rows, Idle, Live, Initially, rowVars
  <2>9. ASSUME NEW p \in Ids, Claims(p) PROVE Fresh'
    BY <2>9, <1>0, ReleaseAssumption
       DEF Claims, Validates, Goes, Ordinary, hostState, RowTypes, RequestTypes, StepTypes, Owned, Fresh, Ids, Rows, Idle, Live, Initially, rowVars
  <2>10. ASSUME NEW p \in Ids, Enters(p) PROVE Fresh'
    BY <2>10, <1>0, ReleaseAssumption
       DEF Enters, IsJob, Goes, Ordinary, hostState, RowTypes, RequestTypes, StepTypes, Owned, Fresh, Ids, Rows, Idle, Live, Initially, rowVars
  <2>11. ASSUME NEW p \in Ids, TimesOut(p) PROVE Fresh'
    BY <2>11, <1>0, ReleaseAssumption
       DEF TimesOut, IsJob, Goes, hostState, RowTypes, RequestTypes, StepTypes, Owned, Fresh, Ids, Rows, Idle, Live, Initially, rowVars
  <2>12. ASSUME NEW p \in Ids, Applies(p) PROVE Fresh'
    BY <2>12, <1>0, ReleaseAssumption
       DEF Applies, Validates, hostState, RowTypes, RequestTypes, StepTypes, Owned, Fresh, Ids, Rows, Idle, Live, Initially, rowVars
  <2>13. ASSUME NEW p \in Ids, Declines(p) PROVE Fresh'
    BY <2>13, <1>0, ReleaseAssumption
       DEF Declines, Validates, hostState, RowTypes, RequestTypes, StepTypes, Owned, Fresh, Ids, Rows, Idle, Live, Initially, rowVars
  <2>14. ASSUME NEW p \in Ids, Fetches(p) PROVE Fresh'
    BY <2>14, <1>0, ReleaseAssumption
       DEF Fetches, Ordinary, Goes, hostState, RowTypes, RequestTypes, StepTypes, Owned, Fresh, Ids, Rows, Idle, Live, Initially, rowVars
  <2>15. ASSUME NEW p \in Ids, Refuses(p) PROVE Fresh'
    BY <2>15, <1>0, ReleaseAssumption
       DEF Refuses, Goes, hostState, RowTypes, RequestTypes, StepTypes, Owned, Fresh, Ids, Rows, Idle, Live, Initially, rowVars
  <2>16. ASSUME NEW p \in Ids, Cleans(p) PROVE Fresh'
    BY <2>16, <1>0, ReleaseAssumption
       DEF Cleans, Goes, RowTypes, RequestTypes, StepTypes, Owned, Fresh, Ids, Rows, Idle, Live, Initially, rowVars
  <2>17. ASSUME NEW p \in Ids, Probes(p) PROVE Fresh'
    BY <2>17, <1>0, ReleaseAssumption
       DEF Probes, Goes, RowTypes, RequestTypes, StepTypes, Owned, Fresh, Ids, Rows, Idle, Live, Initially, rowVars
  <2>18. ASSUME NEW p \in Ids, Judges(p) PROVE Fresh'
    BY <2>18, <1>0, ReleaseAssumption
       DEF Judges, Answers, Goes, RowTypes, RequestTypes, StepTypes, Owned, Fresh, Ids, Rows, Idle, Live, Initially, rowVars
  <2>19. ASSUME NEW p \in Ids, RemovesOld(p) PROVE Fresh'
    BY <2>19, <1>0, ReleaseAssumption
       DEF RemovesOld, Goes, RowTypes, RequestTypes, StepTypes, Owned, Fresh, Ids, Rows, Idle, Live, Initially, rowVars
  <2>20. ASSUME NEW p \in Ids, RunsNew(p) PROVE Fresh'
    BY <2>20, <1>0, ReleaseAssumption
       DEF RunsNew, Goes, IsJob, RowTypes, RequestTypes, StepTypes, Owned, Fresh, Ids, Rows, Idle, Live, Initially, rowVars
  <2>21. ASSUME NEW p \in Ids, RunFails(p) PROVE Fresh'
    BY <2>21, <1>0, ReleaseAssumption
       DEF RunFails, Goes, hostState, RowTypes, RequestTypes, StepTypes, Owned, Fresh, Ids, Rows, Idle, Live, Initially, rowVars
  <2>22. ASSUME NEW p \in Ids, Records(p) PROVE Fresh'
    BY <2>22, <1>0, ReleaseAssumption
       DEF Records, Goes, hostState, RowTypes, RequestTypes, StepTypes, Owned, Fresh, Ids, Rows, Idle, Live, Initially, rowVars
  <2>23. ASSUME NEW p \in Ids, HeadUnread(p) PROVE Fresh'
    BY <2>23, <1>0, ReleaseAssumption
       DEF HeadUnread, Goes, hostState, RowTypes, RequestTypes, StepTypes, Owned, Fresh, Ids, Rows, Idle, Live, Initially, rowVars
  <2>24. ASSUME NEW p \in Ids, Names(p) PROVE Fresh'
    BY <2>24, <1>0, ReleaseAssumption
       DEF Names, Goes, Ordinary, hostState, RowTypes, RequestTypes, StepTypes, Owned, Fresh, Ids, Rows, Idle, Live, Initially, rowVars
  <2>25. ASSUME NEW p \in Ids, Succeeds(p) PROVE Fresh'
    BY <2>25, <1>0, ReleaseAssumption
       DEF Succeeds, Reports, IsJob, Validates, Goes, hostState, RowTypes, RequestTypes, StepTypes, Owned, Fresh, Ids, Rows, Idle, Live, Initially, rowVars
  <2>26. ASSUME NEW p \in Ids, Fails(p) PROVE Fresh'
    BY <2>26, <1>0, ReleaseAssumption
       DEF Fails, Reports, IsJob, Validates, Goes, hostState, RowTypes, RequestTypes, StepTypes, Owned, Fresh, Ids, Rows, Idle, Live, Initially, rowVars
  <2>27. ASSUME NEW p \in Ids, Dies(p) PROVE Fresh'
    BY <2>27, <1>0 DEF Dies, Busy, OnHost, Unnamed, Goes, Owned, Fresh, StepTypes, Rows, Ids, rowVars
  <2>28. ASSUME TipMoves PROVE Fresh'
    BY <2>28, <1>0, ReleaseAssumption
       DEF TipMoves, hostState, RowTypes, RequestTypes, StepTypes, Owned, Fresh, Ids, Rows, Idle, Live, Initially, rowVars
  <2>29. ASSUME Builds PROVE Fresh'
    BY <2>29, <1>0, ReleaseAssumption
       DEF Builds, Ordinary, hostState, RowTypes, RequestTypes, StepTypes, Owned, Fresh, Ids, Rows, Idle, Live, Initially, rowVars
  <2>30. ASSUME Elsewhere PROVE Fresh'
    BY <2>30, <1>0, ReleaseAssumption
       DEF Elsewhere, hostState, RowTypes, RequestTypes, StepTypes, Owned, Fresh, Ids, Rows, Idle, Live, Initially, rowVars
  <2>31. ASSUME UNCHANGED releaseVars PROVE Fresh'
    BY <2>31, <1>0, ReleaseAssumption
       DEF releaseVars, RowTypes, RequestTypes, StepTypes, Owned, Fresh, Ids, Rows, Idle, Live, Initially, rowVars
  <2>32. QED
    BY <1>0, <2>1, <2>2, <2>3, <2>4, <2>5, <2>6, <2>7, <2>8, <2>9, <2>10, <2>11, <2>12, <2>13, <2>14, <2>15, <2>16, <2>17, <2>18, <2>19, <2>20, <2>21, <2>22, <2>23, <2>24, <2>25, <2>26, <2>27, <2>28, <2>29, <2>30, <2>31
       DEF ReleaseNext, Carries
<1>7. QED
  BY <1>1, <1>2, <1>3, <1>4, <1>5, <1>6 DEF TypeInv, ReleaseTypeOK

\* The state of promotions and containers has its type in every reachable state.
THEOREM ReleaseTypeCorrect == ReleaseSpec => []ReleaseTypeOK
<1>1. TypeInv => ReleaseTypeOK
  BY DEF TypeInv
<1> QED
  BY <1>1, ReleaseTypeInit, ReleaseTypeStep, PTL DEF ReleaseSpec

-----------------------------------------------------------------------------
\* Requests one after the other; the one being served has cleared the way.
OneByOne ==
    odd \intersect {"overlap", "revived"} = {} =>
        /\ \A q, r \in Requesters : request[q] # Idle /\ request[r] # Idle => q = r
        /\ \A r \in Requesters : request[r].at = "superseded" =>
              \A p \in Rows : state[p] \notin Live

LiveInv == OneByOne /\ OneLive

LEMMA LiveInit == ReleaseInit => LiveInv
  BY ReleaseAssumption DEF ReleaseInit, LiveInv, OneByOne, OneLive, Live, Rows, Idle

LEMMA LiveStep == TypeInv /\ LiveInv /\ [ReleaseNext]_releaseVars => LiveInv'
<1> SUFFICES ASSUME TypeInv, LiveInv, [ReleaseNext]_releaseVars PROVE LiveInv'
  OBVIOUS
<1>0. RowTypes /\ RequestTypes /\ StepTypes /\ HostTypes /\ Owned /\ Fresh /\ OneByOne /\ OneLive /\ [ReleaseNext]_releaseVars
  BY DEF TypeInv, ReleaseTypeOK, LiveInv
<1>1. OneByOne'
  <2>1. ASSUME NEW r \in Requesters, Asked(r) PROVE OneByOne'
    <3>1. \A q \in Requesters \ {r} : request'[q] = request[q]
      BY <2>1, <1>0 DEF Asked, RequestTypes
    <3>2. odd \subseteq odd' /\ ("overlap" \notin odd' => \A q \in Requesters : request[q] = Idle)
      BY <2>1 DEF Asked, Notes, If
    <3>3. "superseded" \notin Live
      BY DEF Live
    <3>4. Rows' = Rows /\ Rows \subseteq Ids
      BY <2>1, <1>0, ReleaseAssumption DEF Asked, RowTypes, Rows, Ids
    <3>5. \A p \in Rows : state'[p] \notin Live
      BY <2>1, <3>3, <3>4 DEF Asked
    <3>6. QED
      BY <1>0, <3>1, <3>2, <3>4, <3>5 DEF OneByOne
  <2>2. ASSUME NEW r \in Requesters, Abandons(r) PROVE OneByOne'
    BY <2>2, <1>0, ReleaseAssumption
       DEF Abandons, hostState, RowTypes, RequestTypes, StepTypes, HostTypes, Owned, OneByOne, Rows, Ids, Requests, Idle, Live, Final, States, rowVars
  <2>3. ASSUME NEW r \in Requesters, Inserts(r) PROVE OneByOne'
    BY <2>3, <1>0, ReleaseAssumption
       DEF Inserts, hostState, RowTypes, RequestTypes, StepTypes, HostTypes, Owned, OneByOne, Rows, Ids, Requests, Idle, Live, Final, States, rowVars
  <2>4. ASSUME NEW r \in Requesters, FilesJob(r) PROVE OneByOne'
    <3>1. request[r] # Idle /\ request'[r].at = "filed"
      BY <2>4, <1>0 DEF FilesJob, RequestTypes, Requests, Idle
    <3>2. \A q \in Requesters \ {r} : request'[q] = request[q]
      BY <2>4, <1>0 DEF FilesJob, RequestTypes
    <3>3. UNCHANGED <<made, state, odd>>
      BY <2>4 DEF FilesJob, rowVars
    <3>4. QED
      BY <1>0, <3>1, <3>2, <3>3 DEF OneByOne, Rows
  <2>5. ASSUME NEW r \in Requesters, Links(r) PROVE OneByOne'
    BY <2>5, <1>0, ReleaseAssumption
       DEF Links, hostState, RowTypes, RequestTypes, StepTypes, HostTypes, Owned, OneByOne, Rows, Ids, Requests, Idle, Live, Final, States, rowVars
  <2>6. ASSUME NEW r \in Requesters, RequestDies(r) PROVE OneByOne'
    BY <2>6, <1>0, ReleaseAssumption
       DEF RequestDies, Notes, hostState, RowTypes, RequestTypes, StepTypes, HostTypes, Owned, OneByOne, Rows, Ids, Requests, Idle, Live, Final, States, rowVars
  <2>7. ASSUME NEW p \in Ids, Writes(p) PROVE OneByOne'
    BY <2>7, <1>0, ReleaseAssumption
       DEF Writes, Notes, If, hostState, RowTypes, RequestTypes, StepTypes, HostTypes, Owned, OneByOne, Rows, Ids, Requests, Idle, Live, Final, States, rowVars
  <2>8. ASSUME NEW p \in Ids, Crowns(p) PROVE OneByOne'
    BY <2>8, <1>0, ReleaseAssumption
       DEF Crowns, hostState, RowTypes, RequestTypes, StepTypes, HostTypes, Owned, OneByOne, Rows, Ids, Requests, Idle, Live, Final, States, rowVars
  <2>9. ASSUME NEW p \in Ids, Claims(p) PROVE OneByOne'
    BY <2>9, <1>0, ReleaseAssumption
       DEF Claims, Validates, Notes, If, Ordinary, hostState, RowTypes, RequestTypes, StepTypes, HostTypes, Owned, OneByOne, Rows, Ids, Requests, Idle, Live, Final, States, rowVars
  <2>10. ASSUME NEW p \in Ids, Enters(p) PROVE OneByOne'
    BY <2>10, <1>0, ReleaseAssumption
       DEF Enters, IsJob, Ordinary, Notes, If, hostState, RowTypes, RequestTypes, StepTypes, HostTypes, Owned, OneByOne, Rows, Ids, Requests, Idle, Live, Final, States, rowVars
  <2>11. ASSUME NEW p \in Ids, TimesOut(p) PROVE OneByOne'
    BY <2>11, <1>0, ReleaseAssumption
       DEF TimesOut, IsJob, hostState, RowTypes, RequestTypes, StepTypes, HostTypes, Owned, OneByOne, Rows, Ids, Requests, Idle, Live, Final, States, rowVars
  <2>12. ASSUME NEW p \in Ids, Applies(p) PROVE OneByOne'
    BY <2>12, <1>0, ReleaseAssumption
       DEF Applies, Validates, hostState, RowTypes, RequestTypes, StepTypes, HostTypes, Owned, OneByOne, Rows, Ids, Requests, Idle, Live, Final, States, rowVars
  <2>13. ASSUME NEW p \in Ids, Declines(p) PROVE OneByOne'
    BY <2>13, <1>0, ReleaseAssumption
       DEF Declines, Validates, hostState, RowTypes, RequestTypes, StepTypes, HostTypes, Owned, OneByOne, Rows, Ids, Requests, Idle, Live, Final, States, rowVars
  <2>14. ASSUME NEW p \in Ids, Fetches(p) PROVE OneByOne'
    BY <2>14, <1>0, ReleaseAssumption
       DEF Fetches, Ordinary, Notes, If, hostState, RowTypes, RequestTypes, StepTypes, HostTypes, Owned, OneByOne, Rows, Ids, Requests, Idle, Live, Final, States, rowVars
  <2>15. ASSUME NEW p \in Ids, Refuses(p) PROVE OneByOne'
    BY <2>15, <1>0, ReleaseAssumption
       DEF Refuses, hostState, RowTypes, RequestTypes, StepTypes, HostTypes, Owned, OneByOne, Rows, Ids, Requests, Idle, Live, Final, States, rowVars
  <2>16. ASSUME NEW p \in Ids, Cleans(p) PROVE OneByOne'
    BY <2>16, <1>0, ReleaseAssumption
       DEF Cleans, RowTypes, RequestTypes, StepTypes, HostTypes, Owned, OneByOne, Rows, Ids, Requests, Idle, Live, Final, States, rowVars
  <2>17. ASSUME NEW p \in Ids, Probes(p) PROVE OneByOne'
    BY <2>17, <1>0, ReleaseAssumption
       DEF Probes, RowTypes, RequestTypes, StepTypes, HostTypes, Owned, OneByOne, Rows, Ids, Requests, Idle, Live, Final, States, rowVars
  <2>18. ASSUME NEW p \in Ids, Judges(p) PROVE OneByOne'
    BY <2>18, <1>0, ReleaseAssumption
       DEF Judges, Answers, RowTypes, RequestTypes, StepTypes, HostTypes, Owned, OneByOne, Rows, Ids, Requests, Idle, Live, Final, States, rowVars
  <2>19. ASSUME NEW p \in Ids, RemovesOld(p) PROVE OneByOne'
    BY <2>19, <1>0, ReleaseAssumption
       DEF RemovesOld, Notes, If, RowTypes, RequestTypes, StepTypes, HostTypes, Owned, OneByOne, Rows, Ids, Requests, Idle, Live, Final, States, rowVars
  <2>20. ASSUME NEW p \in Ids, RunsNew(p) PROVE OneByOne'
    BY <2>20, <1>0, ReleaseAssumption
       DEF RunsNew, IsJob, RowTypes, RequestTypes, StepTypes, HostTypes, Owned, OneByOne, Rows, Ids, Requests, Idle, Live, Final, States, rowVars
  <2>21. ASSUME NEW p \in Ids, RunFails(p) PROVE OneByOne'
    BY <2>21, <1>0, ReleaseAssumption
       DEF RunFails, Notes, hostState, RowTypes, RequestTypes, StepTypes, HostTypes, Owned, OneByOne, Rows, Ids, Requests, Idle, Live, Final, States, rowVars
  <2>22. ASSUME NEW p \in Ids, Records(p) PROVE OneByOne'
    BY <2>22, <1>0, ReleaseAssumption
       DEF Records, hostState, RowTypes, RequestTypes, StepTypes, HostTypes, Owned, OneByOne, Rows, Ids, Requests, Idle, Live, Final, States, rowVars
  <2>23. ASSUME NEW p \in Ids, HeadUnread(p) PROVE OneByOne'
    BY <2>23, <1>0, ReleaseAssumption
       DEF HeadUnread, Notes, hostState, RowTypes, RequestTypes, StepTypes, HostTypes, Owned, OneByOne, Rows, Ids, Requests, Idle, Live, Final, States, rowVars
  <2>24. ASSUME NEW p \in Ids, Names(p) PROVE OneByOne'
    BY <2>24, <1>0, ReleaseAssumption
       DEF Names, Ordinary, Notes, If, hostState, RowTypes, RequestTypes, StepTypes, HostTypes, Owned, OneByOne, Rows, Ids, Requests, Idle, Live, Final, States, rowVars
  <2>25. ASSUME NEW p \in Ids, Succeeds(p) PROVE OneByOne'
    BY <2>25, <1>0, ReleaseAssumption
       DEF Succeeds, Reports, IsJob, Validates, hostState, RowTypes, RequestTypes, StepTypes, HostTypes, Owned, OneByOne, Rows, Ids, Requests, Idle, Live, Final, States, rowVars
  <2>26. ASSUME NEW p \in Ids, Fails(p) PROVE OneByOne'
    BY <2>26, <1>0, ReleaseAssumption
       DEF Fails, Reports, IsJob, Validates, hostState, RowTypes, RequestTypes, StepTypes, HostTypes, Owned, OneByOne, Rows, Ids, Requests, Idle, Live, Final, States, rowVars
  <2>27. ASSUME NEW p \in Ids, Dies(p) PROVE OneByOne'
    BY <2>27, <1>0, ReleaseAssumption
       DEF Dies, Busy, IsJob, Notes, If, hostState, Unnamed, RowTypes, RequestTypes, StepTypes, HostTypes, Owned, OneByOne, Rows, Ids, Requests, Idle, Live, Final, States, rowVars
  <2>28. ASSUME TipMoves PROVE OneByOne'
    BY <2>28, <1>0, ReleaseAssumption
       DEF TipMoves, hostState, RowTypes, RequestTypes, StepTypes, HostTypes, Owned, OneByOne, Rows, Ids, Requests, Idle, Live, Final, States, rowVars
  <2>29. ASSUME Builds PROVE OneByOne'
    BY <2>29, <1>0, ReleaseAssumption
       DEF Builds, Ordinary, hostState, RowTypes, RequestTypes, StepTypes, HostTypes, Owned, OneByOne, Rows, Ids, Requests, Idle, Live, Final, States, rowVars
  <2>30. ASSUME Elsewhere PROVE OneByOne'
    BY <2>30, <1>0, ReleaseAssumption
       DEF Elsewhere, Notes, hostState, RowTypes, RequestTypes, StepTypes, HostTypes, Owned, OneByOne, Rows, Ids, Requests, Idle, Live, Final, States, rowVars
  <2>31. ASSUME UNCHANGED releaseVars PROVE OneByOne'
    BY <2>31, <1>0, ReleaseAssumption
       DEF releaseVars, RowTypes, RequestTypes, StepTypes, HostTypes, Owned, OneByOne, Rows, Ids, Requests, Idle, Live, Final, States, rowVars
  <2>32. QED
    BY <1>0, <2>1, <2>2, <2>3, <2>4, <2>5, <2>6, <2>7, <2>8, <2>9, <2>10, <2>11, <2>12, <2>13, <2>14, <2>15, <2>16, <2>17, <2>18, <2>19, <2>20, <2>21, <2>22, <2>23, <2>24, <2>25, <2>26, <2>27, <2>28, <2>29, <2>30, <2>31
       DEF ReleaseNext, Carries
<1>2. OneLive'
  <2>1. ASSUME NEW r \in Requesters, Asked(r) PROVE OneLive'
    BY <2>1, <1>0, ReleaseAssumption
       DEF Asked, Notes, If, IsJob, hostState, RowTypes, RequestTypes, StepTypes, HostTypes, Owned, OneByOne, OneLive, Rows, Ids, Requests, Idle, Live, Final, States, rowVars
  <2>2. ASSUME NEW r \in Requesters, Abandons(r) PROVE OneLive'
    BY <2>2, <1>0, ReleaseAssumption
       DEF Abandons, hostState, RowTypes, RequestTypes, StepTypes, HostTypes, Owned, OneByOne, OneLive, Rows, Ids, Requests, Idle, Live, Final, States, rowVars
  <2>3. ASSUME NEW r \in Requesters, Inserts(r) PROVE OneLive'
    BY <2>3, <1>0, ReleaseAssumption
       DEF Inserts, hostState, RowTypes, RequestTypes, StepTypes, HostTypes, Owned, OneByOne, OneLive, Rows, Ids, Requests, Idle, Live, Final, States, rowVars
  <2>4. ASSUME NEW r \in Requesters, FilesJob(r) PROVE OneLive'
    BY <2>4, <1>0, ReleaseAssumption
       DEF FilesJob, hostState, RowTypes, RequestTypes, StepTypes, HostTypes, Owned, OneByOne, OneLive, Rows, Ids, Requests, Idle, Live, Final, States, rowVars
  <2>5. ASSUME NEW r \in Requesters, Links(r) PROVE OneLive'
    BY <2>5, <1>0, ReleaseAssumption
       DEF Links, hostState, RowTypes, RequestTypes, StepTypes, HostTypes, Owned, OneByOne, OneLive, Rows, Ids, Requests, Idle, Live, Final, States, rowVars
  <2>6. ASSUME NEW r \in Requesters, RequestDies(r) PROVE OneLive'
    BY <2>6, <1>0, ReleaseAssumption
       DEF RequestDies, Notes, hostState, RowTypes, RequestTypes, StepTypes, HostTypes, Owned, OneByOne, OneLive, Rows, Ids, Requests, Idle, Live, Final, States, rowVars
  <2>7. ASSUME NEW p \in Ids, Writes(p) PROVE OneLive'
    <3>1. state[p] \in Live \/ "revived" \in odd'
      BY <2>7, <1>0 DEF Writes, Notes, If, RowTypes, States
    <3>2. odd \subseteq odd' /\ made' = made
      BY <2>7 DEF Writes, Notes
    <3>3. p \in Rows /\ \A q \in Ids \ {p} : state'[q] = state[q]
      BY <2>7, <1>0 DEF Writes, StepTypes, RowTypes, Rows, Ids
    <3>4. Rows' = Rows /\ Rows \subseteq Ids
      BY <1>0, <3>2, ReleaseAssumption DEF RowTypes, Rows, Ids
    <3>5. ASSUME odd' \intersect {"overlap", "revived"} = {} PROVE OneLive'
      <4>1. \A q, k \in Rows : state[q] \in Live /\ state[k] \in Live => q = k
        BY <1>0, <3>2, <3>5 DEF OneLive
      <4>2. \A q \in Rows : state'[q] \in Live => state[q] \in Live
        BY <3>1, <3>3, <3>4, <3>5
      <4>3. QED
        BY <3>4, <4>1, <4>2 DEF OneLive
    <3>6. QED
      BY <3>5 DEF OneLive
  <2>8. ASSUME NEW p \in Ids, Crowns(p) PROVE OneLive'
    BY <2>8, <1>0, ReleaseAssumption
       DEF Crowns, hostState, RowTypes, RequestTypes, StepTypes, HostTypes, Owned, OneByOne, OneLive, Rows, Ids, Requests, Idle, Live, Final, States, rowVars
  <2>9. ASSUME NEW p \in Ids, Claims(p) PROVE OneLive'
    BY <2>9, <1>0, ReleaseAssumption
       DEF Claims, Validates, Notes, If, Ordinary, hostState, RowTypes, RequestTypes, StepTypes, HostTypes, Owned, OneByOne, OneLive, Rows, Ids, Requests, Idle, Live, Final, States, rowVars
  <2>10. ASSUME NEW p \in Ids, Enters(p) PROVE OneLive'
    BY <2>10, <1>0, ReleaseAssumption
       DEF Enters, IsJob, Ordinary, Notes, If, hostState, RowTypes, RequestTypes, StepTypes, HostTypes, Owned, OneByOne, OneLive, Rows, Ids, Requests, Idle, Live, Final, States, rowVars
  <2>11. ASSUME NEW p \in Ids, TimesOut(p) PROVE OneLive'
    BY <2>11, <1>0, ReleaseAssumption
       DEF TimesOut, IsJob, hostState, RowTypes, RequestTypes, StepTypes, HostTypes, Owned, OneByOne, OneLive, Rows, Ids, Requests, Idle, Live, Final, States, rowVars
  <2>12. ASSUME NEW p \in Ids, Applies(p) PROVE OneLive'
    BY <2>12, <1>0, ReleaseAssumption
       DEF Applies, Validates, hostState, RowTypes, RequestTypes, StepTypes, HostTypes, Owned, OneByOne, OneLive, Rows, Ids, Requests, Idle, Live, Final, States, rowVars
  <2>13. ASSUME NEW p \in Ids, Declines(p) PROVE OneLive'
    BY <2>13, <1>0, ReleaseAssumption
       DEF Declines, Validates, hostState, RowTypes, RequestTypes, StepTypes, HostTypes, Owned, OneByOne, OneLive, Rows, Ids, Requests, Idle, Live, Final, States, rowVars
  <2>14. ASSUME NEW p \in Ids, Fetches(p) PROVE OneLive'
    BY <2>14, <1>0, ReleaseAssumption
       DEF Fetches, Ordinary, Notes, If, hostState, RowTypes, RequestTypes, StepTypes, HostTypes, Owned, OneByOne, OneLive, Rows, Ids, Requests, Idle, Live, Final, States, rowVars
  <2>15. ASSUME NEW p \in Ids, Refuses(p) PROVE OneLive'
    BY <2>15, <1>0, ReleaseAssumption
       DEF Refuses, hostState, RowTypes, RequestTypes, StepTypes, HostTypes, Owned, OneByOne, OneLive, Rows, Ids, Requests, Idle, Live, Final, States, rowVars
  <2>16. ASSUME NEW p \in Ids, Cleans(p) PROVE OneLive'
    BY <2>16, <1>0, ReleaseAssumption
       DEF Cleans, RowTypes, RequestTypes, StepTypes, HostTypes, Owned, OneByOne, OneLive, Rows, Ids, Requests, Idle, Live, Final, States, rowVars
  <2>17. ASSUME NEW p \in Ids, Probes(p) PROVE OneLive'
    BY <2>17, <1>0, ReleaseAssumption
       DEF Probes, RowTypes, RequestTypes, StepTypes, HostTypes, Owned, OneByOne, OneLive, Rows, Ids, Requests, Idle, Live, Final, States, rowVars
  <2>18. ASSUME NEW p \in Ids, Judges(p) PROVE OneLive'
    BY <2>18, <1>0, ReleaseAssumption
       DEF Judges, Answers, RowTypes, RequestTypes, StepTypes, HostTypes, Owned, OneByOne, OneLive, Rows, Ids, Requests, Idle, Live, Final, States, rowVars
  <2>19. ASSUME NEW p \in Ids, RemovesOld(p) PROVE OneLive'
    BY <2>19, <1>0, ReleaseAssumption
       DEF RemovesOld, Notes, If, RowTypes, RequestTypes, StepTypes, HostTypes, Owned, OneByOne, OneLive, Rows, Ids, Requests, Idle, Live, Final, States, rowVars
  <2>20. ASSUME NEW p \in Ids, RunsNew(p) PROVE OneLive'
    BY <2>20, <1>0, ReleaseAssumption
       DEF RunsNew, IsJob, RowTypes, RequestTypes, StepTypes, HostTypes, Owned, OneByOne, OneLive, Rows, Ids, Requests, Idle, Live, Final, States, rowVars
  <2>21. ASSUME NEW p \in Ids, RunFails(p) PROVE OneLive'
    BY <2>21, <1>0, ReleaseAssumption
       DEF RunFails, Notes, hostState, RowTypes, RequestTypes, StepTypes, HostTypes, Owned, OneByOne, OneLive, Rows, Ids, Requests, Idle, Live, Final, States, rowVars
  <2>22. ASSUME NEW p \in Ids, Records(p) PROVE OneLive'
    BY <2>22, <1>0, ReleaseAssumption
       DEF Records, hostState, RowTypes, RequestTypes, StepTypes, HostTypes, Owned, OneByOne, OneLive, Rows, Ids, Requests, Idle, Live, Final, States, rowVars
  <2>23. ASSUME NEW p \in Ids, HeadUnread(p) PROVE OneLive'
    BY <2>23, <1>0, ReleaseAssumption
       DEF HeadUnread, Notes, hostState, RowTypes, RequestTypes, StepTypes, HostTypes, Owned, OneByOne, OneLive, Rows, Ids, Requests, Idle, Live, Final, States, rowVars
  <2>24. ASSUME NEW p \in Ids, Names(p) PROVE OneLive'
    BY <2>24, <1>0, ReleaseAssumption
       DEF Names, Ordinary, Notes, If, hostState, RowTypes, RequestTypes, StepTypes, HostTypes, Owned, OneByOne, OneLive, Rows, Ids, Requests, Idle, Live, Final, States, rowVars
  <2>25. ASSUME NEW p \in Ids, Succeeds(p) PROVE OneLive'
    BY <2>25, <1>0, ReleaseAssumption
       DEF Succeeds, Reports, IsJob, Validates, hostState, RowTypes, RequestTypes, StepTypes, HostTypes, Owned, OneByOne, OneLive, Rows, Ids, Requests, Idle, Live, Final, States, rowVars
  <2>26. ASSUME NEW p \in Ids, Fails(p) PROVE OneLive'
    BY <2>26, <1>0, ReleaseAssumption
       DEF Fails, Reports, IsJob, Validates, hostState, RowTypes, RequestTypes, StepTypes, HostTypes, Owned, OneByOne, OneLive, Rows, Ids, Requests, Idle, Live, Final, States, rowVars
  <2>27. ASSUME NEW p \in Ids, Dies(p) PROVE OneLive'
    BY <2>27, <1>0, ReleaseAssumption
       DEF Dies, Busy, IsJob, Notes, If, hostState, Unnamed, RowTypes, RequestTypes, StepTypes, HostTypes, Owned, OneByOne, OneLive, Rows, Ids, Requests, Idle, Live, Final, States, rowVars
  <2>28. ASSUME TipMoves PROVE OneLive'
    BY <2>28, <1>0, ReleaseAssumption
       DEF TipMoves, hostState, RowTypes, RequestTypes, StepTypes, HostTypes, Owned, OneByOne, OneLive, Rows, Ids, Requests, Idle, Live, Final, States, rowVars
  <2>29. ASSUME Builds PROVE OneLive'
    BY <2>29, <1>0, ReleaseAssumption
       DEF Builds, Ordinary, hostState, RowTypes, RequestTypes, StepTypes, HostTypes, Owned, OneByOne, OneLive, Rows, Ids, Requests, Idle, Live, Final, States, rowVars
  <2>30. ASSUME Elsewhere PROVE OneLive'
    BY <2>30, <1>0, ReleaseAssumption
       DEF Elsewhere, Notes, hostState, RowTypes, RequestTypes, StepTypes, HostTypes, Owned, OneByOne, OneLive, Rows, Ids, Requests, Idle, Live, Final, States, rowVars
  <2>31. ASSUME UNCHANGED releaseVars PROVE OneLive'
    BY <2>31, <1>0, ReleaseAssumption
       DEF releaseVars, RowTypes, RequestTypes, StepTypes, HostTypes, Owned, OneByOne, OneLive, Rows, Ids, Requests, Idle, Live, Final, States, rowVars
  <2>32. QED
    BY <1>0, <2>1, <2>2, <2>3, <2>4, <2>5, <2>6, <2>7, <2>8, <2>9, <2>10, <2>11, <2>12, <2>13, <2>14, <2>15, <2>16, <2>17, <2>18, <2>19, <2>20, <2>21, <2>22, <2>23, <2>24, <2>25, <2>26, <2>27, <2>28, <2>29, <2>30, <2>31
       DEF ReleaseNext, Carries
<1>3. QED
  BY <1>1, <1>2 DEF LiveInv

\* Unless requests overlap or a final row is written over, an environment has
\* one promotion under way.
THEOREM ReleaseOneLive == ReleaseSpec => []OneLive
<1>1. LiveInv => OneLive
  BY DEF LiveInv
<1> QED
  BY <1>1, ReleaseTypeInit, ReleaseTypeStep, LiveInit, LiveStep, PTL DEF ReleaseSpec

-----------------------------------------------------------------------------
\* One deploy on the host, and the probe and the canonical name are its own.
Alone == \A p, q \in Ids : step[p] \in OnHost /\ step[q] \in OnHost => p = q

Gated(p) ==
    /\ step[p] \in OnHost => version[p] \in Signed \/ Ordinary(p)
    /\ step[p] = "judging" => probe = version[p]
    /\ step[p] \in {"healthy", "bare"} => version[p] \in Healthy
    /\ step[p] = "bare" => canonical = 0

\* What runs was healthy, and signed or built here.
Known == canonical # 0 => canonical \in Healthy /\ Vouched(canonical)

\* Nothing says that a release is served.
Unclaimed(p) ==
    /\ step[p] \notin Unnamed \union {"up", "crowning"} /\ state[p] # "deployed"
    /\ step[p] = "ending" => intent[p] # "deployed"

Absent ==
    canonical = 0 /\ "dead" \notin odd =>
        \/ ~recorded /\ \A p \in Rows : Unclaimed(p)
        \/ \E p \in Rows : step[p] = "bare"

Starting == \A p \in Ids : step[p] = "starting" => intent[p] = "deploying"

GateInv ==
    /\ Starting
    /\ "clash" \notin odd =>
        /\ Alone
        /\ \A p \in Ids : Gated(p)
        /\ Known
        /\ Absent

LEMMA GateSuffices == GateInv => CutoverGated
  BY DEF GateInv, Absent, Unclaimed, Unnamed, Known, CutoverGated

LEMMA GateInit == ReleaseInit => GateInv
  BY ReleaseAssumption DEF ReleaseInit, GateInv, Alone, Gated, Known, Absent, Unclaimed, Unnamed, Starting, OnHost, Rows

\* Who is not on the host and does not go there leaves it to the one that is.
LEMMA AloneStays ==
    ASSUME StepTypes, Alone, NEW p \in Ids, NEW x, step' = [step EXCEPT ![p] = x],
           x \in OnHost => step[p] \in OnHost
    PROVE  Alone'
<1>1. \A q \in Ids : step'[q] \in OnHost => step[q] \in OnHost
  BY DEF StepTypes
<1>2. QED
  BY <1>1 DEF Alone

LEMMA GateStep == TypeInv /\ GateInv /\ [ReleaseNext]_releaseVars => GateInv'
<1> SUFFICES ASSUME TypeInv, GateInv, [ReleaseNext]_releaseVars PROVE GateInv'
  OBVIOUS
<1>0. RowTypes /\ RequestTypes /\ StepTypes /\ HostTypes /\ Owned /\ Fresh /\ Starting /\ [ReleaseNext]_releaseVars
  BY DEF TypeInv, ReleaseTypeOK, GateInv
<1>1. Starting'
  <2>1. ASSUME NEW r \in Requesters, Asked(r) PROVE Starting'
    BY <2>1, <1>0
       DEF Asked, If, IsJob, hostState, StepTypes, HostTypes, Starting, rowVars
  <2>2. ASSUME NEW r \in Requesters, Abandons(r) PROVE Starting'
    BY <2>2, <1>0
       DEF Abandons, hostState, StepTypes, HostTypes, Starting, rowVars
  <2>3. ASSUME NEW r \in Requesters, Inserts(r) PROVE Starting'
    BY <2>3, <1>0
       DEF Inserts, hostState, StepTypes, HostTypes, Starting, rowVars
  <2>4. ASSUME NEW r \in Requesters, FilesJob(r) PROVE Starting'
    BY <2>4, <1>0
       DEF FilesJob, hostState, StepTypes, HostTypes, Starting, rowVars
  <2>5. ASSUME NEW r \in Requesters, Links(r) PROVE Starting'
    BY <2>5, <1>0
       DEF Links, hostState, StepTypes, HostTypes, Starting, rowVars
  <2>6. ASSUME NEW r \in Requesters, RequestDies(r) PROVE Starting'
    BY <2>6, <1>0
       DEF RequestDies, hostState, StepTypes, HostTypes, Starting, rowVars
  <2>7. ASSUME NEW p \in Ids, Writes(p) PROVE Starting'
    BY <2>7, <1>0
       DEF Writes, Goes, If, hostState, StepTypes, HostTypes, Starting, rowVars
  <2>8. ASSUME NEW p \in Ids, Crowns(p) PROVE Starting'
    BY <2>8, <1>0
       DEF Crowns, Goes, hostState, StepTypes, HostTypes, Starting, rowVars
  <2>9. ASSUME NEW p \in Ids, Claims(p) PROVE Starting'
    BY <2>9, <1>0
       DEF Claims, Validates, Goes, If, Ordinary, hostState, StepTypes, HostTypes, Starting, rowVars
  <2>10. ASSUME NEW p \in Ids, Enters(p) PROVE Starting'
    BY <2>10, <1>0
       DEF Enters, IsJob, Goes, Ordinary, If, hostState, StepTypes, HostTypes, Starting, rowVars
  <2>11. ASSUME NEW p \in Ids, TimesOut(p) PROVE Starting'
    BY <2>11, <1>0
       DEF TimesOut, IsJob, Goes, hostState, StepTypes, HostTypes, Starting, rowVars
  <2>12. ASSUME NEW p \in Ids, Applies(p) PROVE Starting'
    BY <2>12, <1>0
       DEF Applies, Validates, hostState, StepTypes, HostTypes, Starting, rowVars
  <2>13. ASSUME NEW p \in Ids, Declines(p) PROVE Starting'
    BY <2>13, <1>0
       DEF Declines, Validates, hostState, StepTypes, HostTypes, Starting, rowVars
  <2>14. ASSUME NEW p \in Ids, Fetches(p) PROVE Starting'
    BY <2>14, <1>0
       DEF Fetches, Ordinary, Goes, If, hostState, StepTypes, HostTypes, Starting, rowVars
  <2>15. ASSUME NEW p \in Ids, Refuses(p) PROVE Starting'
    BY <2>15, <1>0
       DEF Refuses, Goes, hostState, StepTypes, HostTypes, Starting, rowVars
  <2>16. ASSUME NEW p \in Ids, Cleans(p) PROVE Starting'
    BY <2>16, <1>0
       DEF Cleans, Goes, StepTypes, HostTypes, Starting, rowVars
  <2>17. ASSUME NEW p \in Ids, Probes(p) PROVE Starting'
    BY <2>17, <1>0
       DEF Probes, Goes, StepTypes, HostTypes, Starting, rowVars
  <2>18. ASSUME NEW p \in Ids, Judges(p) PROVE Starting'
    BY <2>18, <1>0
       DEF Judges, Answers, Goes, StepTypes, HostTypes, Starting, rowVars
  <2>19. ASSUME NEW p \in Ids, RemovesOld(p) PROVE Starting'
    BY <2>19, <1>0
       DEF RemovesOld, Goes, If, StepTypes, HostTypes, Starting, rowVars
  <2>20. ASSUME NEW p \in Ids, RunsNew(p) PROVE Starting'
    BY <2>20, <1>0
       DEF RunsNew, Goes, IsJob, StepTypes, HostTypes, Starting, rowVars
  <2>21. ASSUME NEW p \in Ids, RunFails(p) PROVE Starting'
    BY <2>21, <1>0
       DEF RunFails, Goes, hostState, StepTypes, HostTypes, Starting, rowVars
  <2>22. ASSUME NEW p \in Ids, Records(p) PROVE Starting'
    BY <2>22, <1>0
       DEF Records, Goes, hostState, StepTypes, HostTypes, Starting, rowVars
  <2>23. ASSUME NEW p \in Ids, HeadUnread(p) PROVE Starting'
    BY <2>23, <1>0
       DEF HeadUnread, Goes, hostState, StepTypes, HostTypes, Starting, rowVars
  <2>24. ASSUME NEW p \in Ids, Names(p) PROVE Starting'
    BY <2>24, <1>0
       DEF Names, Goes, Ordinary, If, hostState, StepTypes, HostTypes, Starting, rowVars
  <2>25. ASSUME NEW p \in Ids, Succeeds(p) PROVE Starting'
    BY <2>25, <1>0
       DEF Succeeds, Reports, IsJob, Validates, Goes, hostState, StepTypes, HostTypes, Starting, rowVars
  <2>26. ASSUME NEW p \in Ids, Fails(p) PROVE Starting'
    BY <2>26, <1>0
       DEF Fails, Reports, IsJob, Validates, Goes, hostState, StepTypes, HostTypes, Starting, rowVars
  <2>27. ASSUME NEW p \in Ids, Dies(p) PROVE Starting'
    BY <2>27, <1>0
       DEF Dies, Busy, Goes, IsJob, If, hostState, Unnamed, StepTypes, HostTypes, Starting, rowVars
  <2>28. ASSUME TipMoves PROVE Starting'
    BY <2>28, <1>0
       DEF TipMoves, hostState, StepTypes, HostTypes, Starting, rowVars
  <2>29. ASSUME Builds PROVE Starting'
    BY <2>29, <1>0
       DEF Builds, Ordinary, hostState, StepTypes, HostTypes, Starting, rowVars
  <2>30. ASSUME Elsewhere PROVE Starting'
    BY <2>30, <1>0
       DEF Elsewhere, hostState, StepTypes, HostTypes, Starting, rowVars
  <2>31. ASSUME UNCHANGED releaseVars PROVE Starting'
    BY <2>31, <1>0
       DEF releaseVars, StepTypes, HostTypes, Starting, rowVars
  <2>32. QED
    BY <1>0, <2>1, <2>2, <2>3, <2>4, <2>5, <2>6, <2>7, <2>8, <2>9, <2>10, <2>11, <2>12, <2>13, <2>14, <2>15, <2>16, <2>17, <2>18, <2>19, <2>20, <2>21, <2>22, <2>23, <2>24, <2>25, <2>26, <2>27, <2>28, <2>29, <2>30, <2>31
       DEF ReleaseNext, Carries
<1>2. ASSUME "clash" \notin odd'
      PROVE  (/\ Alone
              /\ \A p \in Ids : Gated(p)
              /\ Known
              /\ Absent)'
  <2>0. "clash" \notin odd
  <3>1. ASSUME NEW r \in Requesters, Asked(r) PROVE "clash" \notin odd
    BY <3>1, <1>0, <1>2
       DEF Asked, Notes, IsJob, hostState, StepTypes, HostTypes
  <3>2. ASSUME NEW r \in Requesters, Abandons(r) PROVE "clash" \notin odd
    BY <3>2, <1>0, <1>2
       DEF Abandons, rowVars, hostState, StepTypes, HostTypes
  <3>3. ASSUME NEW r \in Requesters, Inserts(r) PROVE "clash" \notin odd
    BY <3>3, <1>0, <1>2
       DEF Inserts, hostState, StepTypes, HostTypes
  <3>4. ASSUME NEW r \in Requesters, FilesJob(r) PROVE "clash" \notin odd
    BY <3>4, <1>0, <1>2
       DEF FilesJob, rowVars, hostState, StepTypes, HostTypes
  <3>5. ASSUME NEW r \in Requesters, Links(r) PROVE "clash" \notin odd
    BY <3>5, <1>0, <1>2
       DEF Links, hostState, StepTypes, HostTypes
  <3>6. ASSUME NEW r \in Requesters, RequestDies(r) PROVE "clash" \notin odd
    BY <3>6, <1>0, <1>2
       DEF RequestDies, Notes, rowVars, hostState, StepTypes, HostTypes
  <3>7. ASSUME NEW p \in Ids, Writes(p) PROVE "clash" \notin odd
    BY <3>7, <1>0, <1>2
       DEF Writes, Notes, hostState, StepTypes, HostTypes
  <3>8. ASSUME NEW p \in Ids, Crowns(p) PROVE "clash" \notin odd
    BY <3>8, <1>0, <1>2
       DEF Crowns, rowVars, hostState, StepTypes, HostTypes
  <3>9. ASSUME NEW p \in Ids, Claims(p) PROVE "clash" \notin odd
    BY <3>9, <1>0, <1>2
       DEF Claims, Notes, Ordinary, rowVars, hostState, StepTypes, HostTypes
  <3>10. ASSUME NEW p \in Ids, Enters(p) PROVE "clash" \notin odd
    BY <3>10, <1>0, <1>2
       DEF Enters, IsJob, Ordinary, Notes, rowVars, hostState, StepTypes, HostTypes
  <3>11. ASSUME NEW p \in Ids, TimesOut(p) PROVE "clash" \notin odd
    BY <3>11, <1>0, <1>2
       DEF TimesOut, IsJob, rowVars, hostState, StepTypes, HostTypes
  <3>12. ASSUME NEW p \in Ids, Applies(p) PROVE "clash" \notin odd
    BY <3>12, <1>0, <1>2
       DEF Applies, rowVars, hostState, StepTypes, HostTypes
  <3>13. ASSUME NEW p \in Ids, Declines(p) PROVE "clash" \notin odd
    BY <3>13, <1>0, <1>2
       DEF Declines, rowVars, hostState, StepTypes, HostTypes
  <3>14. ASSUME NEW p \in Ids, Fetches(p) PROVE "clash" \notin odd
    BY <3>14, <1>0, <1>2
       DEF Fetches, Ordinary, Notes, rowVars, hostState, StepTypes, HostTypes
  <3>15. ASSUME NEW p \in Ids, Refuses(p) PROVE "clash" \notin odd
    BY <3>15, <1>0, <1>2
       DEF Refuses, rowVars, hostState, StepTypes, HostTypes
  <3>16. ASSUME NEW p \in Ids, Cleans(p) PROVE "clash" \notin odd
    BY <3>16, <1>0, <1>2
       DEF Cleans, rowVars, StepTypes, HostTypes
  <3>17. ASSUME NEW p \in Ids, Probes(p) PROVE "clash" \notin odd
    BY <3>17, <1>0, <1>2
       DEF Probes, rowVars, StepTypes, HostTypes
  <3>18. ASSUME NEW p \in Ids, Judges(p) PROVE "clash" \notin odd
    BY <3>18, <1>0, <1>2
       DEF Judges, Answers, rowVars, StepTypes, HostTypes
  <3>19. ASSUME NEW p \in Ids, RemovesOld(p) PROVE "clash" \notin odd
    BY <3>19, <1>0, <1>2
       DEF RemovesOld, Notes, rowVars, StepTypes, HostTypes
  <3>20. ASSUME NEW p \in Ids, RunsNew(p) PROVE "clash" \notin odd
    BY <3>20, <1>0, <1>2
       DEF RunsNew, IsJob, rowVars, StepTypes, HostTypes
  <3>21. ASSUME NEW p \in Ids, RunFails(p) PROVE "clash" \notin odd
    BY <3>21, <1>0, <1>2
       DEF RunFails, Notes, rowVars, hostState, StepTypes, HostTypes
  <3>22. ASSUME NEW p \in Ids, Records(p) PROVE "clash" \notin odd
    BY <3>22, <1>0, <1>2
       DEF Records, rowVars, hostState, StepTypes, HostTypes
  <3>23. ASSUME NEW p \in Ids, HeadUnread(p) PROVE "clash" \notin odd
    BY <3>23, <1>0, <1>2
       DEF HeadUnread, Notes, rowVars, hostState, StepTypes, HostTypes
  <3>24. ASSUME NEW p \in Ids, Names(p) PROVE "clash" \notin odd
    BY <3>24, <1>0, <1>2
       DEF Names, Ordinary, Notes, rowVars, hostState, StepTypes, HostTypes
  <3>25. ASSUME NEW p \in Ids, Succeeds(p) PROVE "clash" \notin odd
    BY <3>25, <1>0, <1>2
       DEF Succeeds, Reports, IsJob, rowVars, hostState, StepTypes, HostTypes
  <3>26. ASSUME NEW p \in Ids, Fails(p) PROVE "clash" \notin odd
    BY <3>26, <1>0, <1>2
       DEF Fails, Reports, IsJob, rowVars, hostState, StepTypes, HostTypes
  <3>27. ASSUME NEW p \in Ids, Dies(p) PROVE "clash" \notin odd
    BY <3>27, <1>0, <1>2
       DEF Dies, Busy, IsJob, Notes, rowVars, hostState, Unnamed, StepTypes, HostTypes
  <3>28. ASSUME TipMoves PROVE "clash" \notin odd
    BY <3>28, <1>0, <1>2
       DEF TipMoves, rowVars, hostState, StepTypes, HostTypes
  <3>29. ASSUME Builds PROVE "clash" \notin odd
    BY <3>29, <1>0, <1>2
       DEF Builds, Ordinary, hostState, StepTypes, HostTypes
  <3>30. ASSUME Elsewhere PROVE "clash" \notin odd
    BY <3>30, <1>0, <1>2
       DEF Elsewhere, Notes, rowVars, hostState, StepTypes, HostTypes
  <3>31. ASSUME UNCHANGED releaseVars PROVE "clash" \notin odd
    BY <3>31, <1>0, <1>2
       DEF releaseVars, StepTypes, HostTypes
  <3>32. QED
    BY <1>0, <3>1, <3>2, <3>3, <3>4, <3>5, <3>6, <3>7, <3>8, <3>9, <3>10, <3>11, <3>12, <3>13, <3>14, <3>15, <3>16, <3>17, <3>18, <3>19, <3>20, <3>21, <3>22, <3>23, <3>24, <3>25, <3>26, <3>27, <3>28, <3>29, <3>30, <3>31
       DEF ReleaseNext, Carries
  <2>a. Alone /\ (\A k \in Ids : Gated(k)) /\ Absent
        /\ Known
    BY <2>0 DEF TypeInv, GateInv
  <2>1. Alone'
  <3>1. ASSUME NEW r \in Requesters, Asked(r) PROVE Alone'
    BY <3>1, <1>0, <1>2, <2>a
       DEF Asked, Notes, If, IsJob, hostState, RowTypes, RequestTypes, StepTypes, HostTypes, Owned, Alone, OnHost, Rows, Ids, rowVars
  <3>2. ASSUME NEW r \in Requesters, Abandons(r) PROVE Alone'
    BY <3>2, <1>0, <1>2, <2>a
       DEF Abandons, hostState, RowTypes, RequestTypes, StepTypes, HostTypes, Owned, Alone, OnHost, Rows, Ids, rowVars
  <3>3. ASSUME NEW r \in Requesters, Inserts(r) PROVE Alone'
    BY <3>3, <1>0, <1>2, <2>a
       DEF Inserts, hostState, RowTypes, RequestTypes, StepTypes, HostTypes, Owned, Alone, OnHost, Rows, Ids, rowVars
  <3>4. ASSUME NEW r \in Requesters, FilesJob(r) PROVE Alone'
    BY <3>4, <1>0, <1>2, <2>a
       DEF FilesJob, hostState, RowTypes, RequestTypes, StepTypes, HostTypes, Owned, Alone, OnHost, Rows, Ids, rowVars
  <3>5. ASSUME NEW r \in Requesters, Links(r) PROVE Alone'
    BY <3>5, <1>0, <1>2, <2>a
       DEF Links, hostState, RowTypes, RequestTypes, StepTypes, HostTypes, Owned, Alone, OnHost, Rows, Ids, rowVars
  <3>6. ASSUME NEW r \in Requesters, RequestDies(r) PROVE Alone'
    BY <3>6, <1>0, <1>2, <2>a
       DEF RequestDies, Notes, hostState, RowTypes, RequestTypes, StepTypes, HostTypes, Owned, Alone, OnHost, Rows, Ids, rowVars
  <3>7. ASSUME NEW p \in Ids, Writes(p) PROVE Alone'
    BY <3>7, <1>0, <1>2, <2>a
       DEF Writes, Goes, Notes, If, hostState, RowTypes, RequestTypes, StepTypes, HostTypes, Owned, Alone, OnHost, Rows, Ids, rowVars
  <3>8. ASSUME NEW p \in Ids, Crowns(p) PROVE Alone'
    BY <3>8, <1>0, <1>2, <2>a
       DEF Crowns, Goes, hostState, RowTypes, RequestTypes, StepTypes, HostTypes, Owned, Alone, OnHost, Rows, Ids, rowVars
  <3>9. ASSUME NEW p \in Ids, Claims(p) PROVE Alone'
    <4>1. PICK x \in {"starting", "waiting"} : step' = [step EXCEPT ![p] = x]
      BY <3>9 DEF Claims, Validates, Goes
    <4>2. x \in OnHost => step[p] \in OnHost
      BY <3>9 DEF Claims, OnHost
    <4>3. QED
      BY <4>1, <4>2, <1>0, <2>a, AloneStays
  <3>10. ASSUME NEW p \in Ids, Enters(p) PROVE Alone'
    <4>1. PICK x \in {"fetching", "over", "up"} : step' = [step EXCEPT ![p] = x]
      BY <3>10 DEF Enters, Goes
    <4>2. x \in OnHost => step[p] \in OnHost
      BY <3>10 DEF Enters, OnHost
    <4>3. QED
      BY <4>1, <4>2, <1>0, <2>a, AloneStays
  <3>11. ASSUME NEW p \in Ids, TimesOut(p) PROVE Alone'
    BY <3>11, <1>0, <1>2, <2>a
       DEF TimesOut, IsJob, Goes, hostState, RowTypes, RequestTypes, StepTypes, HostTypes, Owned, Alone, OnHost, Rows, Ids, rowVars
  <3>12. ASSUME NEW p \in Ids, Applies(p) PROVE Alone'
    BY <3>12, <1>0, <1>2, <2>a
       DEF Applies, Validates, hostState, RowTypes, RequestTypes, StepTypes, HostTypes, Owned, Alone, OnHost, Rows, Ids, rowVars
  <3>13. ASSUME NEW p \in Ids, Declines(p) PROVE Alone'
    BY <3>13, <1>0, <1>2, <2>a
       DEF Declines, Validates, hostState, RowTypes, RequestTypes, StepTypes, HostTypes, Owned, Alone, OnHost, Rows, Ids, rowVars
  <3>14. ASSUME NEW p \in Ids, Fetches(p) PROVE Alone'
    BY <3>14, <1>0, <1>2, <2>a
       DEF Fetches, Ordinary, Goes, Notes, If, hostState, RowTypes, RequestTypes, StepTypes, HostTypes, Owned, Alone, OnHost, Rows, Ids, rowVars
  <3>15. ASSUME NEW p \in Ids, Refuses(p) PROVE Alone'
    BY <3>15, <1>0, <1>2, <2>a
       DEF Refuses, Goes, hostState, RowTypes, RequestTypes, StepTypes, HostTypes, Owned, Alone, OnHost, Rows, Ids, rowVars
  <3>16. ASSUME NEW p \in Ids, Cleans(p) PROVE Alone'
    BY <3>16, <1>0, <1>2, <2>a
       DEF Cleans, Goes, RowTypes, RequestTypes, StepTypes, HostTypes, Owned, Alone, OnHost, Rows, Ids, rowVars
  <3>17. ASSUME NEW p \in Ids, Probes(p) PROVE Alone'
    <4>1. PICK x \in {"judging", "broken"} : step' = [step EXCEPT ![p] = x]
      BY <3>17 DEF Probes, Goes
    <4>2. x \in OnHost => step[p] \in OnHost
      BY <3>17 DEF Probes, OnHost
    <4>3. QED
      BY <4>1, <4>2, <1>0, <2>a, AloneStays
  <3>18. ASSUME NEW p \in Ids, Judges(p) PROVE Alone'
    BY <3>18, <1>0, <1>2, <2>a
       DEF Judges, Answers, Goes, RowTypes, RequestTypes, StepTypes, HostTypes, Owned, Alone, OnHost, Rows, Ids, rowVars
  <3>19. ASSUME NEW p \in Ids, RemovesOld(p) PROVE Alone'
    BY <3>19, <1>0, <1>2, <2>a
       DEF RemovesOld, Goes, Notes, If, RowTypes, RequestTypes, StepTypes, HostTypes, Owned, Alone, OnHost, Rows, Ids, rowVars
  <3>20. ASSUME NEW p \in Ids, RunsNew(p) PROVE Alone'
    <4>1. PICK x \in {"served", "up", "broken"} : step' = [step EXCEPT ![p] = x]
      BY <3>20 DEF RunsNew, Goes
    <4>2. x \in OnHost => step[p] \in OnHost
      BY <3>20 DEF RunsNew, OnHost
    <4>3. QED
      BY <4>1, <4>2, <1>0, <2>a, AloneStays
  <3>21. ASSUME NEW p \in Ids, RunFails(p) PROVE Alone'
    BY <3>21, <1>0, <1>2, <2>a
       DEF RunFails, Goes, Notes, hostState, RowTypes, RequestTypes, StepTypes, HostTypes, Owned, Alone, OnHost, Rows, Ids, rowVars
  <3>22. ASSUME NEW p \in Ids, Records(p) PROVE Alone'
    <4>1. PICK x \in {"naming"} : step' = [step EXCEPT ![p] = x]
      BY <3>22 DEF Records, Goes
    <4>2. x \in OnHost => step[p] \in OnHost
      BY <3>22 DEF Records, OnHost
    <4>3. QED
      BY <4>1, <4>2, <1>0, <2>a, AloneStays
  <3>23. ASSUME NEW p \in Ids, HeadUnread(p) PROVE Alone'
    <4>1. PICK x \in {"broken"} : step' = [step EXCEPT ![p] = x]
      BY <3>23 DEF HeadUnread, Goes
    <4>2. x \in OnHost => step[p] \in OnHost
      BY <3>23 DEF HeadUnread, OnHost
    <4>3. QED
      BY <4>1, <4>2, <1>0, <2>a, AloneStays
  <3>24. ASSUME NEW p \in Ids, Names(p) PROVE Alone'
    <4>1. PICK x \in {"over", "up"} : step' = [step EXCEPT ![p] = x]
      BY <3>24 DEF Names, Goes
    <4>2. x \in OnHost => step[p] \in OnHost
      BY <3>24 DEF Names, OnHost
    <4>3. QED
      BY <4>1, <4>2, <1>0, <2>a, AloneStays
  <3>25. ASSUME NEW p \in Ids, Succeeds(p) PROVE Alone'
    <4>1. PICK x \in {"ending", "over"} : step' = [step EXCEPT ![p] = x]
      BY <3>25 DEF Succeeds, Reports, Validates, Goes
    <4>2. x \in OnHost => step[p] \in OnHost
      BY <3>25 DEF Succeeds, Reports, OnHost
    <4>3. QED
      BY <4>1, <4>2, <1>0, <2>a, AloneStays
  <3>26. ASSUME NEW p \in Ids, Fails(p) PROVE Alone'
    <4>1. PICK x \in {"ending", "over"} : step' = [step EXCEPT ![p] = x]
      BY <3>26 DEF Fails, Reports, Validates, Goes
    <4>2. x \in OnHost => step[p] \in OnHost
      BY <3>26 DEF Fails, Reports, OnHost
    <4>3. QED
      BY <4>1, <4>2, <1>0, <2>a, AloneStays
  <3>27. ASSUME NEW p \in Ids, Dies(p) PROVE Alone'
    <4>1. PICK x \in {"queued", "over"} : step' = [step EXCEPT ![p] = x]
      BY <3>27 DEF Dies, Goes
    <4>2. x \in OnHost => step[p] \in OnHost
      BY <3>27 DEF Dies, OnHost
    <4>3. QED
      BY <4>1, <4>2, <1>0, <2>a, AloneStays
  <3>28. ASSUME TipMoves PROVE Alone'
    BY <3>28, <1>0, <1>2, <2>a
       DEF TipMoves, hostState, RowTypes, RequestTypes, StepTypes, HostTypes, Owned, Alone, OnHost, Rows, Ids, rowVars
  <3>29. ASSUME Builds PROVE Alone'
    BY <3>29, <1>0, <1>2, <2>a
       DEF Builds, Ordinary, hostState, RowTypes, RequestTypes, StepTypes, HostTypes, Owned, Alone, OnHost, Rows, Ids, rowVars
  <3>30. ASSUME Elsewhere PROVE Alone'
    BY <3>30, <1>0, <1>2, <2>a
       DEF Elsewhere, Notes, hostState, RowTypes, RequestTypes, StepTypes, HostTypes, Owned, Alone, OnHost, Rows, Ids, rowVars
  <3>31. ASSUME UNCHANGED releaseVars PROVE Alone'
    BY <3>31, <1>0, <1>2, <2>a
       DEF releaseVars, RowTypes, RequestTypes, StepTypes, HostTypes, Owned, Alone, OnHost, Rows, Ids, rowVars
  <3>32. QED
    BY <1>0, <3>1, <3>2, <3>3, <3>4, <3>5, <3>6, <3>7, <3>8, <3>9, <3>10, <3>11, <3>12, <3>13, <3>14, <3>15, <3>16, <3>17, <3>18, <3>19, <3>20, <3>21, <3>22, <3>23, <3>24, <3>25, <3>26, <3>27, <3>28, <3>29, <3>30, <3>31
       DEF ReleaseNext, Carries
  <2>2. ASSUME NEW k \in Ids PROVE Gated(k)'
  <3>1. ASSUME NEW r \in Requesters, Asked(r) PROVE Gated(k)'
    BY <3>1, <1>0, <2>a, ReleaseAssumption
       DEF Asked, IsJob, RowTypes, RequestTypes, StepTypes, HostTypes, Owned, Alone, Gated, Ordinary, OnHost, Rows, Ids, rowVars, hostState
  <3>2. ASSUME NEW r \in Requesters, Abandons(r) PROVE Gated(k)'
    BY <3>2, <1>0, <2>a, ReleaseAssumption
       DEF Abandons, RowTypes, RequestTypes, StepTypes, HostTypes, Owned, Alone, Gated, Ordinary, OnHost, Rows, Ids, rowVars, hostState
  <3>3. ASSUME NEW r \in Requesters, Inserts(r) PROVE Gated(k)'
    BY <3>3, <1>0, <2>a, ReleaseAssumption
       DEF Inserts, RowTypes, RequestTypes, StepTypes, HostTypes, Owned, Alone, Gated, Ordinary, OnHost, Rows, Ids, rowVars, hostState
  <3>4. ASSUME NEW r \in Requesters, FilesJob(r) PROVE Gated(k)'
    BY <3>4, <1>0, <2>a, ReleaseAssumption
       DEF FilesJob, RowTypes, RequestTypes, StepTypes, HostTypes, Owned, Alone, Gated, Ordinary, OnHost, Rows, Ids, rowVars, hostState
  <3>5. ASSUME NEW r \in Requesters, Links(r) PROVE Gated(k)'
    BY <3>5, <1>0, <2>a, ReleaseAssumption
       DEF Links, RowTypes, RequestTypes, StepTypes, HostTypes, Owned, Alone, Gated, Ordinary, OnHost, Rows, Ids, rowVars, hostState
  <3>6. ASSUME NEW r \in Requesters, RequestDies(r) PROVE Gated(k)'
    BY <3>6, <1>0, <2>a, ReleaseAssumption
       DEF RequestDies, RowTypes, RequestTypes, StepTypes, HostTypes, Owned, Alone, Gated, Ordinary, OnHost, Rows, Ids, rowVars, hostState
  <3>7. ASSUME NEW p \in Ids, Writes(p) PROVE Gated(k)'
    BY <3>7, <1>0, <2>a, ReleaseAssumption
       DEF Writes, Goes, RowTypes, RequestTypes, StepTypes, HostTypes, Owned, Alone, Gated, Ordinary, OnHost, Rows, Ids, rowVars, hostState
  <3>8. ASSUME NEW p \in Ids, Crowns(p) PROVE Gated(k)'
    BY <3>8, <1>0, <2>a, ReleaseAssumption
       DEF Crowns, Goes, RowTypes, RequestTypes, StepTypes, HostTypes, Owned, Alone, Gated, Ordinary, OnHost, Rows, Ids, rowVars, hostState
  <3>9. ASSUME NEW p \in Ids, Claims(p) PROVE Gated(k)'
    BY <3>9, <1>0, <2>a, ReleaseAssumption
       DEF Claims, Validates, Goes, RowTypes, RequestTypes, StepTypes, HostTypes, Owned, Alone, Gated, Ordinary, OnHost, Rows, Ids, rowVars, hostState
  <3>10. ASSUME NEW p \in Ids, Enters(p) PROVE Gated(k)'
    BY <3>10, <1>0, <2>a, ReleaseAssumption
       DEF Enters, IsJob, Goes, RowTypes, RequestTypes, StepTypes, HostTypes, Owned, Alone, Gated, Ordinary, OnHost, Rows, Ids, rowVars, hostState
  <3>11. ASSUME NEW p \in Ids, TimesOut(p) PROVE Gated(k)'
    BY <3>11, <1>0, <2>a, ReleaseAssumption
       DEF TimesOut, IsJob, Goes, RowTypes, RequestTypes, StepTypes, HostTypes, Owned, Alone, Gated, Ordinary, OnHost, Rows, Ids, rowVars, hostState
  <3>12. ASSUME NEW p \in Ids, Applies(p) PROVE Gated(k)'
    BY <3>12, <1>0, <2>a, ReleaseAssumption
       DEF Applies, Validates, RowTypes, RequestTypes, StepTypes, HostTypes, Owned, Alone, Gated, Ordinary, OnHost, Rows, Ids, rowVars, hostState
  <3>13. ASSUME NEW p \in Ids, Declines(p) PROVE Gated(k)'
    BY <3>13, <1>0, <2>a, ReleaseAssumption
       DEF Declines, Validates, RowTypes, RequestTypes, StepTypes, HostTypes, Owned, Alone, Gated, Ordinary, OnHost, Rows, Ids, rowVars, hostState
  <3>14. ASSUME NEW p \in Ids, Fetches(p) PROVE Gated(k)'
    BY <3>14, <1>0, <2>a, ReleaseAssumption
       DEF Fetches, Goes, RowTypes, RequestTypes, StepTypes, HostTypes, Owned, Alone, Gated, Ordinary, OnHost, Rows, Ids, rowVars, hostState
  <3>15. ASSUME NEW p \in Ids, Refuses(p) PROVE Gated(k)'
    BY <3>15, <1>0, <2>a, ReleaseAssumption
       DEF Refuses, Goes, RowTypes, RequestTypes, StepTypes, HostTypes, Owned, Alone, Gated, Ordinary, OnHost, Rows, Ids, rowVars, hostState
  <3>16. ASSUME NEW p \in Ids, Cleans(p) PROVE Gated(k)'
    BY <3>16, <1>0, <2>a, ReleaseAssumption
       DEF Cleans, Goes, RowTypes, RequestTypes, StepTypes, HostTypes, Owned, Alone, Gated, Ordinary, OnHost, Rows, Ids, rowVars, hostState
  <3>17. ASSUME NEW p \in Ids, Probes(p) PROVE Gated(k)'
    BY <3>17, <1>0, <2>a, ReleaseAssumption
       DEF Probes, Goes, RowTypes, RequestTypes, StepTypes, HostTypes, Owned, Alone, Gated, Ordinary, OnHost, Rows, Ids, rowVars, hostState
  <3>18. ASSUME NEW p \in Ids, Judges(p) PROVE Gated(k)'
    BY <3>18, <1>0, <2>a, ReleaseAssumption
       DEF Judges, Answers, Goes, RowTypes, RequestTypes, StepTypes, HostTypes, Owned, Alone, Gated, Ordinary, OnHost, Rows, Ids, rowVars, hostState
  <3>19. ASSUME NEW p \in Ids, RemovesOld(p) PROVE Gated(k)'
    BY <3>19, <1>0, <2>a, ReleaseAssumption
       DEF RemovesOld, Goes, RowTypes, RequestTypes, StepTypes, HostTypes, Owned, Alone, Gated, Ordinary, OnHost, Rows, Ids, rowVars, hostState
  <3>20. ASSUME NEW p \in Ids, RunsNew(p) PROVE Gated(k)'
    BY <3>20, <1>0, <2>a, ReleaseAssumption
       DEF RunsNew, Goes, IsJob, RowTypes, RequestTypes, StepTypes, HostTypes, Owned, Alone, Gated, Ordinary, OnHost, Rows, Ids, rowVars, hostState
  <3>21. ASSUME NEW p \in Ids, RunFails(p) PROVE Gated(k)'
    BY <3>21, <1>0, <2>a, ReleaseAssumption
       DEF RunFails, Goes, RowTypes, RequestTypes, StepTypes, HostTypes, Owned, Alone, Gated, Ordinary, OnHost, Rows, Ids, rowVars, hostState
  <3>22. ASSUME NEW p \in Ids, Records(p) PROVE Gated(k)'
    BY <3>22, <1>0, <2>a, ReleaseAssumption
       DEF Records, Goes, RowTypes, RequestTypes, StepTypes, HostTypes, Owned, Alone, Gated, Ordinary, OnHost, Rows, Ids, rowVars, hostState
  <3>23. ASSUME NEW p \in Ids, HeadUnread(p) PROVE Gated(k)'
    BY <3>23, <1>0, <2>a, ReleaseAssumption
       DEF HeadUnread, Goes, RowTypes, RequestTypes, StepTypes, HostTypes, Owned, Alone, Gated, Ordinary, OnHost, Rows, Ids, rowVars, hostState
  <3>24. ASSUME NEW p \in Ids, Names(p) PROVE Gated(k)'
    BY <3>24, <1>0, <2>a, ReleaseAssumption
       DEF Names, Goes, RowTypes, RequestTypes, StepTypes, HostTypes, Owned, Alone, Gated, Ordinary, OnHost, Rows, Ids, rowVars, hostState
  <3>25. ASSUME NEW p \in Ids, Succeeds(p) PROVE Gated(k)'
    BY <3>25, <1>0, <2>a, ReleaseAssumption
       DEF Succeeds, Reports, IsJob, Validates, Goes, RowTypes, RequestTypes, StepTypes, HostTypes, Owned, Alone, Gated, Ordinary, OnHost, Rows, Ids, rowVars, hostState
  <3>26. ASSUME NEW p \in Ids, Fails(p) PROVE Gated(k)'
    BY <3>26, <1>0, <2>a, ReleaseAssumption
       DEF Fails, Reports, IsJob, Validates, Goes, RowTypes, RequestTypes, StepTypes, HostTypes, Owned, Alone, Gated, Ordinary, OnHost, Rows, Ids, rowVars, hostState
  <3>27. ASSUME NEW p \in Ids, Dies(p) PROVE Gated(k)'
    BY <3>27, <1>0, <2>a, ReleaseAssumption
       DEF Dies, Busy, Goes, IsJob, Unnamed, RowTypes, RequestTypes, StepTypes, HostTypes, Owned, Alone, Gated, Ordinary, OnHost, Rows, Ids, rowVars, hostState
  <3>28. ASSUME TipMoves PROVE Gated(k)'
    BY <3>28, <1>0, <2>a, ReleaseAssumption
       DEF TipMoves, RowTypes, RequestTypes, StepTypes, HostTypes, Owned, Alone, Gated, Ordinary, OnHost, Rows, Ids, rowVars, hostState
  <3>29. ASSUME Builds PROVE Gated(k)'
    BY <3>29, <1>0, <2>a, ReleaseAssumption
       DEF Builds, RowTypes, RequestTypes, StepTypes, HostTypes, Owned, Alone, Gated, Ordinary, OnHost, Rows, Ids, rowVars, hostState
  <3>30. ASSUME Elsewhere PROVE Gated(k)'
    BY <3>30, <1>0, <2>a, ReleaseAssumption
       DEF Elsewhere, RowTypes, RequestTypes, StepTypes, HostTypes, Owned, Alone, Gated, Ordinary, OnHost, Rows, Ids, rowVars, hostState
  <3>31. ASSUME UNCHANGED releaseVars PROVE Gated(k)'
    BY <3>31, <1>0, <2>a, ReleaseAssumption
       DEF releaseVars, RowTypes, RequestTypes, StepTypes, HostTypes, Owned, Alone, Gated, Ordinary, OnHost, Rows, Ids, rowVars, hostState
  <3>32. QED
    BY <1>0, <3>1, <3>2, <3>3, <3>4, <3>5, <3>6, <3>7, <3>8, <3>9, <3>10, <3>11, <3>12, <3>13, <3>14, <3>15, <3>16, <3>17, <3>18, <3>19, <3>20, <3>21, <3>22, <3>23, <3>24, <3>25, <3>26, <3>27, <3>28, <3>29, <3>30, <3>31
       DEF ReleaseNext, Carries
  <2>3. Known'
  <3>1. ASSUME NEW r \in Requesters, Asked(r) PROVE Known'
    BY <3>1, <1>0, <2>a, ReleaseAssumption
       DEF Asked, IsJob, RowTypes, StepTypes, HostTypes, Owned, Gated, Known, Vouched, Ordinary, Rows, Ids, OnHost, rowVars, hostState
  <3>2. ASSUME NEW r \in Requesters, Abandons(r) PROVE Known'
    BY <3>2, <1>0, <2>a, ReleaseAssumption
       DEF Abandons, RowTypes, StepTypes, HostTypes, Owned, Gated, Known, Vouched, Ordinary, Rows, Ids, OnHost, rowVars, hostState
  <3>3. ASSUME NEW r \in Requesters, Inserts(r) PROVE Known'
    BY <3>3, <1>0, <2>a, ReleaseAssumption
       DEF Inserts, RowTypes, StepTypes, HostTypes, Owned, Gated, Known, Vouched, Ordinary, Rows, Ids, OnHost, rowVars, hostState
  <3>4. ASSUME NEW r \in Requesters, FilesJob(r) PROVE Known'
    BY <3>4, <1>0, <2>a, ReleaseAssumption
       DEF FilesJob, RowTypes, StepTypes, HostTypes, Owned, Gated, Known, Vouched, Ordinary, Rows, Ids, OnHost, rowVars, hostState
  <3>5. ASSUME NEW r \in Requesters, Links(r) PROVE Known'
    BY <3>5, <1>0, <2>a, ReleaseAssumption
       DEF Links, RowTypes, StepTypes, HostTypes, Owned, Gated, Known, Vouched, Ordinary, Rows, Ids, OnHost, rowVars, hostState
  <3>6. ASSUME NEW r \in Requesters, RequestDies(r) PROVE Known'
    BY <3>6, <1>0, <2>a, ReleaseAssumption
       DEF RequestDies, RowTypes, StepTypes, HostTypes, Owned, Gated, Known, Vouched, Ordinary, Rows, Ids, OnHost, rowVars, hostState
  <3>7. ASSUME NEW p \in Ids, Writes(p) PROVE Known'
    BY <3>7, <1>0, <2>a, ReleaseAssumption
       DEF Writes, RowTypes, StepTypes, HostTypes, Owned, Gated, Known, Vouched, Ordinary, Rows, Ids, OnHost, rowVars, hostState
  <3>8. ASSUME NEW p \in Ids, Crowns(p) PROVE Known'
    BY <3>8, <1>0, <2>a, ReleaseAssumption
       DEF Crowns, RowTypes, StepTypes, HostTypes, Owned, Gated, Known, Vouched, Ordinary, Rows, Ids, OnHost, rowVars, hostState
  <3>9. ASSUME NEW p \in Ids, Claims(p) PROVE Known'
    BY <3>9, <1>0, <2>a, ReleaseAssumption
       DEF Claims, RowTypes, StepTypes, HostTypes, Owned, Gated, Known, Vouched, Ordinary, Rows, Ids, OnHost, rowVars, hostState
  <3>10. ASSUME NEW p \in Ids, Enters(p) PROVE Known'
    BY <3>10, <1>0, <2>a, ReleaseAssumption
       DEF Enters, IsJob, RowTypes, StepTypes, HostTypes, Owned, Gated, Known, Vouched, Ordinary, Rows, Ids, OnHost, rowVars, hostState
  <3>11. ASSUME NEW p \in Ids, TimesOut(p) PROVE Known'
    BY <3>11, <1>0, <2>a, ReleaseAssumption
       DEF TimesOut, IsJob, RowTypes, StepTypes, HostTypes, Owned, Gated, Known, Vouched, Ordinary, Rows, Ids, OnHost, rowVars, hostState
  <3>12. ASSUME NEW p \in Ids, Applies(p) PROVE Known'
    BY <3>12, <1>0, <2>a, ReleaseAssumption
       DEF Applies, RowTypes, StepTypes, HostTypes, Owned, Gated, Known, Vouched, Ordinary, Rows, Ids, OnHost, rowVars, hostState
  <3>13. ASSUME NEW p \in Ids, Declines(p) PROVE Known'
    BY <3>13, <1>0, <2>a, ReleaseAssumption
       DEF Declines, RowTypes, StepTypes, HostTypes, Owned, Gated, Known, Vouched, Ordinary, Rows, Ids, OnHost, rowVars, hostState
  <3>14. ASSUME NEW p \in Ids, Fetches(p) PROVE Known'
    BY <3>14, <1>0, <2>a, ReleaseAssumption
       DEF Fetches, RowTypes, StepTypes, HostTypes, Owned, Gated, Known, Vouched, Ordinary, Rows, Ids, OnHost, rowVars, hostState
  <3>15. ASSUME NEW p \in Ids, Refuses(p) PROVE Known'
    BY <3>15, <1>0, <2>a, ReleaseAssumption
       DEF Refuses, RowTypes, StepTypes, HostTypes, Owned, Gated, Known, Vouched, Ordinary, Rows, Ids, OnHost, rowVars, hostState
  <3>16. ASSUME NEW p \in Ids, Cleans(p) PROVE Known'
    BY <3>16, <1>0, <2>a, ReleaseAssumption
       DEF Cleans, RowTypes, StepTypes, HostTypes, Owned, Gated, Known, Vouched, Ordinary, Rows, Ids, OnHost, rowVars, hostState
  <3>17. ASSUME NEW p \in Ids, Probes(p) PROVE Known'
    BY <3>17, <1>0, <2>a, ReleaseAssumption
       DEF Probes, RowTypes, StepTypes, HostTypes, Owned, Gated, Known, Vouched, Ordinary, Rows, Ids, OnHost, rowVars, hostState
  <3>18. ASSUME NEW p \in Ids, Judges(p) PROVE Known'
    BY <3>18, <1>0, <2>a, ReleaseAssumption
       DEF Judges, Answers, RowTypes, StepTypes, HostTypes, Owned, Gated, Known, Vouched, Ordinary, Rows, Ids, OnHost, rowVars, hostState
  <3>19. ASSUME NEW p \in Ids, RemovesOld(p) PROVE Known'
    BY <3>19, <1>0, <2>a, ReleaseAssumption
       DEF RemovesOld, RowTypes, StepTypes, HostTypes, Owned, Gated, Known, Vouched, Ordinary, Rows, Ids, OnHost, rowVars, hostState
  <3>20. ASSUME NEW p \in Ids, RunsNew(p) PROVE Known'
    BY <3>20, <1>0, <2>a, ReleaseAssumption
       DEF RunsNew, IsJob, RowTypes, StepTypes, HostTypes, Owned, Gated, Known, Vouched, Ordinary, Rows, Ids, OnHost, rowVars, hostState
  <3>21. ASSUME NEW p \in Ids, RunFails(p) PROVE Known'
    BY <3>21, <1>0, <2>a, ReleaseAssumption
       DEF RunFails, RowTypes, StepTypes, HostTypes, Owned, Gated, Known, Vouched, Ordinary, Rows, Ids, OnHost, rowVars, hostState
  <3>22. ASSUME NEW p \in Ids, Records(p) PROVE Known'
    BY <3>22, <1>0, <2>a, ReleaseAssumption
       DEF Records, RowTypes, StepTypes, HostTypes, Owned, Gated, Known, Vouched, Ordinary, Rows, Ids, OnHost, rowVars, hostState
  <3>23. ASSUME NEW p \in Ids, HeadUnread(p) PROVE Known'
    BY <3>23, <1>0, <2>a, ReleaseAssumption
       DEF HeadUnread, RowTypes, StepTypes, HostTypes, Owned, Gated, Known, Vouched, Ordinary, Rows, Ids, OnHost, rowVars, hostState
  <3>24. ASSUME NEW p \in Ids, Names(p) PROVE Known'
    BY <3>24, <1>0, <2>a, ReleaseAssumption
       DEF Names, RowTypes, StepTypes, HostTypes, Owned, Gated, Known, Vouched, Ordinary, Rows, Ids, OnHost, rowVars, hostState
  <3>25. ASSUME NEW p \in Ids, Succeeds(p) PROVE Known'
    BY <3>25, <1>0, <2>a, ReleaseAssumption
       DEF Succeeds, Reports, IsJob, RowTypes, StepTypes, HostTypes, Owned, Gated, Known, Vouched, Ordinary, Rows, Ids, OnHost, rowVars, hostState
  <3>26. ASSUME NEW p \in Ids, Fails(p) PROVE Known'
    BY <3>26, <1>0, <2>a, ReleaseAssumption
       DEF Fails, Reports, IsJob, RowTypes, StepTypes, HostTypes, Owned, Gated, Known, Vouched, Ordinary, Rows, Ids, OnHost, rowVars, hostState
  <3>27. ASSUME NEW p \in Ids, Dies(p) PROVE Known'
    BY <3>27, <1>0, <2>a, ReleaseAssumption
       DEF Dies, Busy, IsJob, Unnamed, RowTypes, StepTypes, HostTypes, Owned, Gated, Known, Vouched, Ordinary, Rows, Ids, OnHost, rowVars, hostState
  <3>28. ASSUME TipMoves PROVE Known'
    BY <3>28, <1>0, <2>a, ReleaseAssumption
       DEF TipMoves, RowTypes, StepTypes, HostTypes, Owned, Gated, Known, Vouched, Ordinary, Rows, Ids, OnHost, rowVars, hostState
  <3>29. ASSUME Builds PROVE Known'
    <4>1. made' = made + 1 /\ made + 1 \in Ids /\ UNCHANGED canonical
      BY <3>29, <1>0, ReleaseAssumption DEF Builds, RowTypes, Ids, hostState
    <4>2. \A q \in Rows : q \in Rows' /\ version'[q] = version[q] /\ kind'[q] = kind[q]
      BY <3>29, <1>0, <4>1, ReleaseAssumption DEF Builds, RowTypes, Ids, Rows
    <4>3. Vouched(canonical) => Vouched(canonical)'
      BY <4>1, <4>2 DEF Vouched, Ordinary
    <4>4. QED
      BY <2>a, <4>1, <4>3 DEF Known
  <3>30. ASSUME Elsewhere PROVE Known'
    BY <3>30, <1>0, <2>a, ReleaseAssumption
       DEF Elsewhere, RowTypes, StepTypes, HostTypes, Owned, Gated, Known, Vouched, Ordinary, Rows, Ids, OnHost, rowVars, hostState
  <3>31. ASSUME UNCHANGED releaseVars PROVE Known'
    BY <3>31, <1>0, <2>a, ReleaseAssumption
       DEF releaseVars, RowTypes, StepTypes, HostTypes, Owned, Gated, Known, Vouched, Ordinary, Rows, Ids, OnHost, rowVars, hostState
  <3>32. QED
    BY <1>0, <3>1, <3>2, <3>3, <3>4, <3>5, <3>6, <3>7, <3>8, <3>9, <3>10, <3>11, <3>12, <3>13, <3>14, <3>15, <3>16, <3>17, <3>18, <3>19, <3>20, <3>21, <3>22, <3>23, <3>24, <3>25, <3>26, <3>27, <3>28, <3>29, <3>30, <3>31
       DEF ReleaseNext, Carries
  <2>4. Absent'
  <3>1. ASSUME NEW r \in Requesters, Asked(r) PROVE Absent'
    BY <3>1, <1>0, <2>a, ReleaseAssumption
       DEF Asked, Notes, If, IsJob, RowTypes, RequestTypes, StepTypes, HostTypes, Owned, Fresh, Starting, Absent, Unclaimed, Unnamed, Gated, OnHost, Rows, Ids, rowVars, hostState
  <3>2. ASSUME NEW r \in Requesters, Abandons(r) PROVE Absent'
    BY <3>2, <1>0, <2>a, ReleaseAssumption
       DEF Abandons, RowTypes, RequestTypes, StepTypes, HostTypes, Owned, Fresh, Starting, Absent, Unclaimed, Unnamed, Gated, OnHost, Rows, Ids, rowVars, hostState
  <3>3. ASSUME NEW r \in Requesters, Inserts(r) PROVE Absent'
    BY <3>3, <1>0, <2>a, ReleaseAssumption
       DEF Inserts, Initially, RowTypes, RequestTypes, StepTypes, HostTypes, Owned, Fresh, Starting, Absent, Unclaimed, Unnamed, Gated, OnHost, Rows, Ids, rowVars, hostState
  <3>4. ASSUME NEW r \in Requesters, FilesJob(r) PROVE Absent'
    BY <3>4, <1>0, <2>a, ReleaseAssumption
       DEF FilesJob, RowTypes, RequestTypes, StepTypes, HostTypes, Owned, Fresh, Starting, Absent, Unclaimed, Unnamed, Gated, OnHost, Rows, Ids, rowVars, hostState
  <3>5. ASSUME NEW r \in Requesters, Links(r) PROVE Absent'
    BY <3>5, <1>0, <2>a, ReleaseAssumption
       DEF Links, RowTypes, RequestTypes, StepTypes, HostTypes, Owned, Fresh, Starting, Absent, Unclaimed, Unnamed, Gated, OnHost, Rows, Ids, rowVars, hostState
  <3>6. ASSUME NEW r \in Requesters, RequestDies(r) PROVE Absent'
    BY <3>6, <1>0, <2>a, ReleaseAssumption
       DEF RequestDies, Notes, RowTypes, RequestTypes, StepTypes, HostTypes, Owned, Fresh, Starting, Absent, Unclaimed, Unnamed, Gated, OnHost, Rows, Ids, rowVars, hostState
  <3>7. ASSUME NEW p \in Ids, Writes(p) PROVE Absent'
    BY <3>7, <1>0, <2>a, ReleaseAssumption
       DEF Writes, Goes, Notes, If, RowTypes, RequestTypes, StepTypes, HostTypes, Owned, Fresh, Starting, Absent, Unclaimed, Unnamed, Gated, OnHost, Rows, Ids, rowVars, hostState
  <3>8. ASSUME NEW p \in Ids, Crowns(p) PROVE Absent'
    BY <3>8, <1>0, <2>a, ReleaseAssumption
       DEF Crowns, Goes, RowTypes, RequestTypes, StepTypes, HostTypes, Owned, Fresh, Starting, Absent, Unclaimed, Unnamed, Gated, OnHost, Rows, Ids, rowVars, hostState
  <3>9. ASSUME NEW p \in Ids, Claims(p) PROVE Absent'
    <4>1. step[p] = "queued"
      BY <3>9 DEF Claims
    <4>2. \/ step' = [step EXCEPT ![p] = "starting"] /\ intent' = [intent EXCEPT ![p] = "deploying"]
          \/ step' = [step EXCEPT ![p] = "waiting"] /\ UNCHANGED intent
      BY <3>9 DEF Claims, Validates, Goes
    <4>3. UNCHANGED <<rowVars, hostState, recorded>> /\ odd \subseteq odd'
      BY <3>9 DEF Claims, Notes
    <4>4. Rows \subseteq Ids /\ Rows' = Rows
      BY <1>0, <4>3, ReleaseAssumption DEF RowTypes, Rows, Ids, rowVars
    <4>5. \A q \in Rows : Unclaimed(q) => Unclaimed(q)'
      BY <1>0, <4>1, <4>2, <4>3, <4>4 DEF Unclaimed, Unnamed, StepTypes, rowVars
    <4>6. \A q \in Rows : step[q] = "bare" => step'[q] = "bare"
      BY <1>0, <4>1, <4>2, <4>4 DEF StepTypes
    <4>7. QED
      BY <2>a, <4>3, <4>4, <4>5, <4>6 DEF Absent, hostState
  <3>10. ASSUME NEW p \in Ids, Enters(p) PROVE Absent'
    BY <3>10, <1>0, <2>a, ReleaseAssumption
       DEF Enters, IsJob, Goes, Ordinary, Notes, If, RowTypes, RequestTypes, StepTypes, HostTypes, Owned, Fresh, Starting, Absent, Unclaimed, Unnamed, Gated, OnHost, Rows, Ids, rowVars, hostState
  <3>11. ASSUME NEW p \in Ids, TimesOut(p) PROVE Absent'
    BY <3>11, <1>0, <2>a, ReleaseAssumption
       DEF TimesOut, IsJob, Goes, RowTypes, RequestTypes, StepTypes, HostTypes, Owned, Fresh, Starting, Absent, Unclaimed, Unnamed, Gated, OnHost, Rows, Ids, rowVars, hostState
  <3>12. ASSUME NEW p \in Ids, Applies(p) PROVE Absent'
    BY <3>12, <1>0, <2>a, ReleaseAssumption
       DEF Applies, Validates, RowTypes, RequestTypes, StepTypes, HostTypes, Owned, Fresh, Starting, Absent, Unclaimed, Unnamed, Gated, OnHost, Rows, Ids, rowVars, hostState
  <3>13. ASSUME NEW p \in Ids, Declines(p) PROVE Absent'
    BY <3>13, <1>0, <2>a, ReleaseAssumption
       DEF Declines, Validates, RowTypes, RequestTypes, StepTypes, HostTypes, Owned, Fresh, Starting, Absent, Unclaimed, Unnamed, Gated, OnHost, Rows, Ids, rowVars, hostState
  <3>14. ASSUME NEW p \in Ids, Fetches(p) PROVE Absent'
    BY <3>14, <1>0, <2>a, ReleaseAssumption
       DEF Fetches, Ordinary, Goes, Notes, If, RowTypes, RequestTypes, StepTypes, HostTypes, Owned, Fresh, Starting, Absent, Unclaimed, Unnamed, Gated, OnHost, Rows, Ids, rowVars, hostState
  <3>15. ASSUME NEW p \in Ids, Refuses(p) PROVE Absent'
    BY <3>15, <1>0, <2>a, ReleaseAssumption
       DEF Refuses, Goes, RowTypes, RequestTypes, StepTypes, HostTypes, Owned, Fresh, Starting, Absent, Unclaimed, Unnamed, Gated, OnHost, Rows, Ids, rowVars, hostState
  <3>16. ASSUME NEW p \in Ids, Cleans(p) PROVE Absent'
    BY <3>16, <1>0, <2>a, ReleaseAssumption
       DEF Cleans, Goes, RowTypes, RequestTypes, StepTypes, HostTypes, Owned, Fresh, Starting, Absent, Unclaimed, Unnamed, Gated, OnHost, Rows, Ids, rowVars, hostState
  <3>17. ASSUME NEW p \in Ids, Probes(p) PROVE Absent'
    BY <3>17, <1>0, <2>a, ReleaseAssumption
       DEF Probes, Goes, RowTypes, RequestTypes, StepTypes, HostTypes, Owned, Fresh, Starting, Absent, Unclaimed, Unnamed, Gated, OnHost, Rows, Ids, rowVars, hostState
  <3>18. ASSUME NEW p \in Ids, Judges(p) PROVE Absent'
    <4>1. step[p] = "judging" /\ p \in Rows
      BY <3>18, <1>0 DEF Judges, Owned
    <4>2. PICK x \in {"healthy", "broken"} : step' = [step EXCEPT ![p] = x] /\ UNCHANGED intent
      BY <3>18 DEF Judges, Goes
    <4>3. UNCHANGED <<rowVars, canonical, recorded, odd>>
      BY <3>18 DEF Judges
    <4>4. Rows \subseteq Ids /\ Rows' = Rows
      BY <1>0, <4>3, ReleaseAssumption DEF RowTypes, Rows, Ids, rowVars
    <4>5. \A q \in Rows : Unclaimed(q) => Unclaimed(q)'
      BY <1>0, <4>1, <4>2, <4>3, <4>4 DEF Unclaimed, Unnamed, StepTypes, rowVars
    <4>6. \A q \in Rows : step[q] = "bare" => step'[q] = "bare"
      BY <1>0, <4>1, <4>2, <4>4 DEF StepTypes
    <4>7. QED
      BY <2>a, <4>3, <4>4, <4>5, <4>6 DEF Absent
  <3>19. ASSUME NEW p \in Ids, RemovesOld(p) PROVE Absent'
    BY <3>19, <1>0, <2>a, ReleaseAssumption
       DEF RemovesOld, Goes, Notes, If, RowTypes, RequestTypes, StepTypes, HostTypes, Owned, Fresh, Starting, Absent, Unclaimed, Unnamed, Gated, OnHost, Rows, Ids, rowVars, hostState
  <3>20. ASSUME NEW p \in Ids, RunsNew(p) PROVE Absent'
    BY <3>20, <1>0, <2>a, ReleaseAssumption
       DEF RunsNew, Goes, IsJob, RowTypes, RequestTypes, StepTypes, HostTypes, Owned, Fresh, Starting, Absent, Unclaimed, Unnamed, Gated, OnHost, Rows, Ids, rowVars, hostState
  <3>21. ASSUME NEW p \in Ids, RunFails(p) PROVE Absent'
    BY <3>21, <1>0, <2>a, ReleaseAssumption
       DEF RunFails, Goes, Notes, RowTypes, RequestTypes, StepTypes, HostTypes, Owned, Fresh, Starting, Absent, Unclaimed, Unnamed, Gated, OnHost, Rows, Ids, rowVars, hostState
  <3>22. ASSUME NEW p \in Ids, Records(p) PROVE Absent'
    BY <3>22, <1>0, <2>a, ReleaseAssumption
       DEF Records, Goes, RowTypes, RequestTypes, StepTypes, HostTypes, Owned, Fresh, Starting, Absent, Unclaimed, Unnamed, Gated, OnHost, Rows, Ids, rowVars, hostState
  <3>23. ASSUME NEW p \in Ids, HeadUnread(p) PROVE Absent'
    BY <3>23, <1>0, <2>a, ReleaseAssumption
       DEF HeadUnread, Goes, Notes, RowTypes, RequestTypes, StepTypes, HostTypes, Owned, Fresh, Starting, Absent, Unclaimed, Unnamed, Gated, OnHost, Rows, Ids, rowVars, hostState
  <3>24. ASSUME NEW p \in Ids, Names(p) PROVE Absent'
    BY <3>24, <1>0, <2>a, ReleaseAssumption
       DEF Names, Goes, Ordinary, Notes, If, RowTypes, RequestTypes, StepTypes, HostTypes, Owned, Fresh, Starting, Absent, Unclaimed, Unnamed, Gated, OnHost, Rows, Ids, rowVars, hostState
  <3>25. ASSUME NEW p \in Ids, Succeeds(p) PROVE Absent'
    <4>1. step[p] = "up" /\ p \in Rows
      BY <3>25, <1>0 DEF Succeeds, Reports, Owned
    <4>2. \/ step' = [step EXCEPT ![p] = "ending"]
          \/ step' = [step EXCEPT ![p] = "over"]
      BY <3>25 DEF Succeeds, Reports, Validates, Goes
    <4>3. UNCHANGED <<rowVars, hostState, recorded, odd>>
      BY <3>25 DEF Succeeds, Reports
    <4>4. Rows \subseteq Ids /\ Rows' = Rows
      BY <1>0, <4>3, ReleaseAssumption DEF RowTypes, Rows, Ids, rowVars
    <4>5. ~Unclaimed(p)
      BY <4>1 DEF Unclaimed
    <4>6. \A q \in Rows : step[q] = "bare" => step'[q] = "bare"
      BY <1>0, <4>1, <4>2, <4>4 DEF StepTypes
    <4>7. QED
      BY <2>a, <4>1, <4>3, <4>4, <4>5, <4>6 DEF Absent, hostState
  <3>26. ASSUME NEW p \in Ids, Fails(p) PROVE Absent'
    <4>1. step[p] = "broken" /\ p \in Rows
      BY <3>26, <1>0 DEF Fails, Reports, Owned
    <4>2. \/ step' = [step EXCEPT ![p] = "ending"] /\ intent' = [intent EXCEPT ![p] = "failed"]
          \/ step' = [step EXCEPT ![p] = "over"] /\ UNCHANGED intent
      BY <3>26 DEF Fails, Reports, Validates, Goes
    <4>3. UNCHANGED <<rowVars, hostState, recorded, odd>>
      BY <3>26 DEF Fails, Reports
    <4>4. Rows \subseteq Ids /\ Rows' = Rows
      BY <1>0, <4>3, ReleaseAssumption DEF RowTypes, Rows, Ids, rowVars
    <4>5. \A q \in Rows : Unclaimed(q) => Unclaimed(q)'
      BY <1>0, <4>1, <4>2, <4>3, <4>4 DEF Unclaimed, Unnamed, StepTypes, rowVars
    <4>6. \A q \in Rows : step[q] = "bare" => step'[q] = "bare"
      BY <1>0, <4>1, <4>2, <4>4 DEF StepTypes
    <4>7. QED
      BY <2>a, <4>3, <4>4, <4>5, <4>6 DEF Absent, hostState
  <3>27. ASSUME NEW p \in Ids, Dies(p) PROVE Absent'
    BY <3>27, <1>0, <2>a, ReleaseAssumption
       DEF Dies, Busy, Goes, IsJob, Notes, If, RowTypes, RequestTypes, StepTypes, HostTypes, Owned, Fresh, Starting, Absent, Unclaimed, Unnamed, Gated, OnHost, Rows, Ids, rowVars, hostState
  <3>28. ASSUME TipMoves PROVE Absent'
    BY <3>28, <1>0, <2>a, ReleaseAssumption
       DEF TipMoves, RowTypes, RequestTypes, StepTypes, HostTypes, Owned, Fresh, Starting, Absent, Unclaimed, Unnamed, Gated, OnHost, Rows, Ids, rowVars, hostState
  <3>29. ASSUME Builds PROVE Absent'
    BY <3>29, <1>0, <2>a, ReleaseAssumption
       DEF Builds, Ordinary, RowTypes, RequestTypes, StepTypes, HostTypes, Owned, Fresh, Starting, Absent, Unclaimed, Unnamed, Gated, OnHost, Rows, Ids, rowVars, hostState
  <3>30. ASSUME Elsewhere PROVE Absent'
    BY <3>30, <1>0, <2>a, ReleaseAssumption
       DEF Elsewhere, Notes, RowTypes, RequestTypes, StepTypes, HostTypes, Owned, Fresh, Starting, Absent, Unclaimed, Unnamed, Gated, OnHost, Rows, Ids, rowVars, hostState
  <3>31. ASSUME UNCHANGED releaseVars PROVE Absent'
    BY <3>31, <1>0, <2>a, ReleaseAssumption
       DEF releaseVars, RowTypes, RequestTypes, StepTypes, HostTypes, Owned, Fresh, Starting, Absent, Unclaimed, Unnamed, Gated, OnHost, Rows, Ids, rowVars, hostState
  <3>32. QED
    BY <1>0, <3>1, <3>2, <3>3, <3>4, <3>5, <3>6, <3>7, <3>8, <3>9, <3>10, <3>11, <3>12, <3>13, <3>14, <3>15, <3>16, <3>17, <3>18, <3>19, <3>20, <3>21, <3>22, <3>23, <3>24, <3>25, <3>26, <3>27, <3>28, <3>29, <3>30, <3>31
       DEF ReleaseNext, Carries
  <2>5. QED
    BY <2>1, <2>2, <2>3, <2>4
<1>3. QED
  BY <1>1, <1>2 DEF GateInv

\* With one deploy at a time on the host, only a signed release that was
\* healthy replaces the canonical container.
THEOREM ReleaseCutover == ReleaseSpec => []CutoverGated
  BY ReleaseTypeInit, ReleaseTypeStep, GateInit, GateStep, GateSuffices, PTL DEF ReleaseSpec

-----------------------------------------------------------------------------
\* The step of a job or an operator and the state of its row, as long as
\* nothing odd has happened.
Follows(p) ==
    /\ step[p] = "over" => state[p] \in Final
    /\ step[p] = "queued" => IsJob(p) /\ state[p] = "dispatched"
    /\ step[p] = "starting" => state[p] = Initially(kind[p])
    /\ step[p] \in {"waiting", "fetching", "up", "broken"} \union OnHost \union Unnamed => state[p] = "deploying"
    /\ step[p] = "ending" =>
          /\ intent[p] # "deploying"
          /\ state[p] = IF intent[p] = "declined" THEN "available" ELSE "deploying"
    /\ step[p] = "crowning" => state[p] = "deployed"
    /\ IsJob(p) /\ step[p] \notin {"none", "queued"} => p \in linked
    /\ state[p] = "available" => ~IsJob(p)

\* An ordinary deploy job has no row that follows it.
Rowless(p) ==
    /\ Default
    /\ state[p] = "superseded"
    /\ step[p] \notin {"starting", "up", "ending", "crowning"}

Fits(p) == IF Ordinary(p) THEN Rowless(p) ELSE Follows(p)

\* A promotion that the next request would overtake.
Engaged(p) == state[p] \in Live \/ step[p] = "crowning"

OneEngaged == \A p, q \in Rows : Engaged(p) /\ Engaged(q) => p = q

\* A request that is being served has nothing beside it.
Cleared ==
    /\ \A q, r \in Requesters : request[q] # Idle /\ request[r] # Idle => q = r
    /\ \A r \in Requesters :
          /\ request[r].at = "superseded" => \A p \in Rows : ~Engaged(p)
          /\ request[r].at = "inserted" => kind[request[r].row] = "promote" /\ state[request[r].row] = "dispatched"

\* What runs is what is current, or what is about to be; nobody replaces it
\* before that.
Served ==
    /\ \A p \in Rows : Through(p) => canonical = version[p] /\ \A q \in Rows : step[q] # "bare"
    /\ canonical = current \/ \E p \in Rows : step[p] = "bare" \/ Through(p)

Ledger == odd = {} => (\A p \in Ids : Fits(p)) /\ OneEngaged /\ Cleared /\ Served

LEMMA LedgerSuffices == TypeInv /\ Ledger => CurrentIsServed
  BY ReleaseAssumption
     DEF TypeInv, ReleaseTypeOK, RowTypes, Ledger, CurrentIsServed, Quiet, Fits, Follows, Rowless, Final, Unnamed, Served, Through, OnHost, Rows, Ids

LEMMA LedgerInit == ReleaseInit => Ledger
  BY ReleaseAssumption
     DEF ReleaseInit, Ledger, Fits, Follows, Ordinary, IsJob, Unnamed, OneEngaged, Engaged, Cleared, Served, Through, Rows, Ids, Idle, OnHost, Live

LEMMA LedgerStep == TypeInv /\ GateInv /\ Ledger /\ [ReleaseNext]_releaseVars => Ledger'
<1> SUFFICES ASSUME TypeInv, GateInv, Ledger, [ReleaseNext]_releaseVars, odd' = {}
             PROVE  ((\A p \in Ids : Fits(p)) /\ OneEngaged /\ Cleared /\ Served)'
  BY DEF Ledger
<1>0. RowTypes /\ RequestTypes /\ StepTypes /\ HostTypes /\ Owned /\ Fresh /\ Starting /\ [ReleaseNext]_releaseVars
  BY DEF TypeInv, ReleaseTypeOK, GateInv
<1>1. odd = {}
  <2>1. ASSUME NEW r \in Requesters, Asked(r) PROVE odd = {}
    BY <2>1, <1>0
       DEF Asked, Notes, IsJob, hostState, HostTypes
  <2>2. ASSUME NEW r \in Requesters, Abandons(r) PROVE odd = {}
    BY <2>2, <1>0
       DEF Abandons, rowVars, hostState, HostTypes
  <2>3. ASSUME NEW r \in Requesters, Inserts(r) PROVE odd = {}
    BY <2>3, <1>0
       DEF Inserts, hostState, HostTypes
  <2>4. ASSUME NEW r \in Requesters, FilesJob(r) PROVE odd = {}
    BY <2>4, <1>0
       DEF FilesJob, rowVars, hostState, HostTypes
  <2>5. ASSUME NEW r \in Requesters, Links(r) PROVE odd = {}
    BY <2>5, <1>0
       DEF Links, hostState, HostTypes
  <2>6. ASSUME NEW r \in Requesters, RequestDies(r) PROVE odd = {}
    BY <2>6, <1>0
       DEF RequestDies, Notes, rowVars, hostState, HostTypes
  <2>7. ASSUME NEW p \in Ids, Writes(p) PROVE odd = {}
    BY <2>7, <1>0
       DEF Writes, Notes, hostState, HostTypes
  <2>8. ASSUME NEW p \in Ids, Crowns(p) PROVE odd = {}
    BY <2>8, <1>0
       DEF Crowns, rowVars, hostState, HostTypes
  <2>9. ASSUME NEW p \in Ids, Claims(p) PROVE odd = {}
    BY <2>9, <1>0
       DEF Claims, Notes, Ordinary, rowVars, hostState, HostTypes
  <2>10. ASSUME NEW p \in Ids, Enters(p) PROVE odd = {}
    BY <2>10, <1>0
       DEF Enters, IsJob, Ordinary, Notes, rowVars, hostState, HostTypes
  <2>11. ASSUME NEW p \in Ids, TimesOut(p) PROVE odd = {}
    BY <2>11, <1>0
       DEF TimesOut, IsJob, rowVars, hostState, HostTypes
  <2>12. ASSUME NEW p \in Ids, Applies(p) PROVE odd = {}
    BY <2>12, <1>0
       DEF Applies, rowVars, hostState, HostTypes
  <2>13. ASSUME NEW p \in Ids, Declines(p) PROVE odd = {}
    BY <2>13, <1>0
       DEF Declines, rowVars, hostState, HostTypes
  <2>14. ASSUME NEW p \in Ids, Fetches(p) PROVE odd = {}
    BY <2>14, <1>0
       DEF Fetches, Ordinary, Notes, rowVars, hostState, HostTypes
  <2>15. ASSUME NEW p \in Ids, Refuses(p) PROVE odd = {}
    BY <2>15, <1>0
       DEF Refuses, rowVars, hostState, HostTypes
  <2>16. ASSUME NEW p \in Ids, Cleans(p) PROVE odd = {}
    BY <2>16, <1>0
       DEF Cleans, rowVars, HostTypes
  <2>17. ASSUME NEW p \in Ids, Probes(p) PROVE odd = {}
    BY <2>17, <1>0
       DEF Probes, rowVars, HostTypes
  <2>18. ASSUME NEW p \in Ids, Judges(p) PROVE odd = {}
    BY <2>18, <1>0
       DEF Judges, Answers, rowVars, HostTypes
  <2>19. ASSUME NEW p \in Ids, RemovesOld(p) PROVE odd = {}
    BY <2>19, <1>0
       DEF RemovesOld, Notes, rowVars, HostTypes
  <2>20. ASSUME NEW p \in Ids, RunsNew(p) PROVE odd = {}
    BY <2>20, <1>0
       DEF RunsNew, IsJob, rowVars, HostTypes
  <2>21. ASSUME NEW p \in Ids, RunFails(p) PROVE odd = {}
    BY <2>21, <1>0
       DEF RunFails, Notes, rowVars, hostState, HostTypes
  <2>22. ASSUME NEW p \in Ids, Records(p) PROVE odd = {}
    BY <2>22, <1>0
       DEF Records, rowVars, hostState, HostTypes
  <2>23. ASSUME NEW p \in Ids, HeadUnread(p) PROVE odd = {}
    BY <2>23, <1>0
       DEF HeadUnread, Notes, rowVars, hostState, HostTypes
  <2>24. ASSUME NEW p \in Ids, Names(p) PROVE odd = {}
    BY <2>24, <1>0
       DEF Names, Ordinary, Notes, rowVars, hostState, HostTypes
  <2>25. ASSUME NEW p \in Ids, Succeeds(p) PROVE odd = {}
    BY <2>25, <1>0
       DEF Succeeds, Reports, IsJob, rowVars, hostState, HostTypes
  <2>26. ASSUME NEW p \in Ids, Fails(p) PROVE odd = {}
    BY <2>26, <1>0
       DEF Fails, Reports, IsJob, rowVars, hostState, HostTypes
  <2>27. ASSUME NEW p \in Ids, Dies(p) PROVE odd = {}
    BY <2>27, <1>0
       DEF Dies, Busy, IsJob, Notes, rowVars, hostState, Unnamed, HostTypes
  <2>28. ASSUME TipMoves PROVE odd = {}
    BY <2>28, <1>0
       DEF TipMoves, rowVars, hostState, HostTypes
  <2>29. ASSUME Builds PROVE odd = {}
    BY <2>29, <1>0
       DEF Builds, Ordinary, hostState, HostTypes
  <2>30. ASSUME Elsewhere PROVE odd = {}
    BY <2>30, <1>0
       DEF Elsewhere, Notes, rowVars, hostState, HostTypes
  <2>31. ASSUME UNCHANGED releaseVars PROVE odd = {}
    BY <2>31, <1>0
       DEF releaseVars, HostTypes
  <2>32. QED
    BY <1>0, <2>1, <2>2, <2>3, <2>4, <2>5, <2>6, <2>7, <2>8, <2>9, <2>10, <2>11, <2>12, <2>13, <2>14, <2>15, <2>16, <2>17, <2>18, <2>19, <2>20, <2>21, <2>22, <2>23, <2>24, <2>25, <2>26, <2>27, <2>28, <2>29, <2>30, <2>31
       DEF ReleaseNext, Carries
<1>2. (\A p \in Ids : Fits(p)) /\ OneEngaged /\ Cleared /\ Served
  BY <1>1 DEF Ledger
<1>3. Alone /\ \A p \in Ids : Gated(p)
  BY <1>1 DEF GateInv
<1>4. ASSUME NEW k \in Ids PROVE Fits(k)'
  <2>1. ASSUME NEW r \in Requesters, Asked(r) PROVE Fits(k)'
    <3>1. \A q \in Requesters : request[q] = Idle
      BY <2>1 DEF Asked, Notes, If
    <3>2. \A p \in Rows : state[p] \in Live => ~IsJob(p) /\ step[p] = "none"
      BY <2>1 DEF Asked, Notes, If
    <3>3. \A p \in Rows : step[p] # "crowning"
      BY <2>1 DEF Asked, Notes, If
    <3>4. Rows' = Rows /\ UNCHANGED <<kind, linked, step, intent>>
      BY <2>1 DEF Asked, Rows
    <3>5. \A p \in Ids : state'[p] = IF p \in Rows /\ state[p] \in Live THEN "superseded" ELSE state[p]
      BY <2>1, <1>0 DEF Asked, RowTypes
    <3>6. QED
      BY <1>2, <3>2, <3>4, <3>5 DEF Fits, Follows, Rowless, Ordinary, Unnamed, IsJob, Live, Final, Initially, OnHost
  <2>2. ASSUME NEW r \in Requesters, Abandons(r) PROVE Fits(k)'
    BY <2>2, <1>0, <1>2, ReleaseAssumption
       DEF Abandons, Idle, hostState, RowTypes, RequestTypes, StepTypes, HostTypes, Owned, Fresh, Starting, Fits, Follows, Rowless, Unnamed, Ordinary, Cleared, Engaged, OnHost, Rows, Ids, Live, Final, States, Initially, IsJob, rowVars
  <2>3. ASSUME NEW r \in Requesters, Inserts(r) PROVE Fits(k)'
    <3>1. made + 1 \in Ids /\ made + 1 \notin Rows
      BY <2>3, <1>0, ReleaseAssumption DEF Inserts, RowTypes, Ids, Rows
    <3>2. request[r].kind \in {"promote", "offer"}
      BY <1>0 DEF RequestTypes, Requests
    <3>3. step[made + 1] = "none"
      BY <1>0, <3>1 DEF Owned
    <3>4. UNCHANGED <<step, intent, linked>>
      BY <2>3 DEF Inserts
    <3>5. CASE k = made + 1
      <4>1. kind'[k] = request[r].kind /\ state'[k] = Initially(request[r].kind)
        BY <2>3, <1>0, <3>1, <3>5 DEF Inserts, RowTypes
      <4>2. QED
        BY <3>2, <3>3, <3>4, <3>5, <4>1 DEF Fits, Follows, Rowless, Ordinary, Unnamed, IsJob, Initially, OnHost
    <3>6. CASE k # made + 1
      <4>1. kind'[k] = kind[k] /\ state'[k] = state[k]
        BY <2>3, <1>0, <3>1, <3>6 DEF Inserts, RowTypes
      <4>2. QED
        BY <1>2, <3>4, <4>1 DEF Fits, Follows, Rowless, Ordinary, Unnamed, IsJob
    <3>7. QED
      BY <3>5, <3>6
  <2>4. ASSUME NEW r \in Requesters, FilesJob(r) PROVE Fits(k)'
    BY <2>4, <1>0, <1>2, ReleaseAssumption
       DEF FilesJob, hostState, RowTypes, RequestTypes, StepTypes, HostTypes, Owned, Fresh, Starting, Fits, Follows, Rowless, Unnamed, Ordinary, Cleared, Engaged, OnHost, Rows, Ids, Live, Final, States, Initially, IsJob, rowVars
  <2>5. ASSUME NEW r \in Requesters, Links(r) PROVE Fits(k)'
    BY <2>5, <1>0, <1>2, ReleaseAssumption
       DEF Links, Idle, hostState, RowTypes, RequestTypes, StepTypes, HostTypes, Owned, Fresh, Starting, Fits, Follows, Rowless, Unnamed, Ordinary, Cleared, Engaged, OnHost, Rows, Ids, Live, Final, States, Initially, IsJob, rowVars
  <2>6. ASSUME NEW r \in Requesters, RequestDies(r) PROVE Fits(k)'
    BY <2>6 DEF RequestDies, Notes
  <2>7. ASSUME NEW p \in Ids, Writes(p) PROVE Fits(k)'
    BY <2>7, <1>0, <1>2, ReleaseAssumption
       DEF Writes, Goes, hostState, RowTypes, RequestTypes, StepTypes, HostTypes, Owned, Fresh, Starting, Fits, Follows, Rowless, Unnamed, Ordinary, Cleared, Engaged, OnHost, Rows, Ids, Live, Final, States, Initially, IsJob, rowVars
  <2>8. ASSUME NEW p \in Ids, Crowns(p) PROVE Fits(k)'
    BY <2>8, <1>0, <1>2, ReleaseAssumption
       DEF Crowns, Goes, hostState, RowTypes, RequestTypes, StepTypes, HostTypes, Owned, Fresh, Starting, Fits, Follows, Rowless, Unnamed, Ordinary, Cleared, Engaged, OnHost, Rows, Ids, Live, Final, States, Initially, IsJob, rowVars
  <2>9. ASSUME NEW p \in Ids, Claims(p) PROVE Fits(k)'
    <3>1. step[p] = "queued" /\ Fits(p) /\ p \in Ids
      BY <2>9, <1>2 DEF Claims
    <3>2. UNCHANGED <<rowVars, current, request, hostState>> /\ Rows' = Rows
      BY <2>9 DEF Claims, rowVars, Rows
    <3>3. CASE Ordinary(p)
      <4>1. step' = [step EXCEPT ![p] = "waiting"] /\ UNCHANGED intent
        BY <2>9, <3>1, <3>3 DEF Claims, Goes, Fits, Follows, Rowless, Ordinary, Unnamed, Rowless
      <4>2. QED
        BY <1>0, <1>2, <3>1, <3>2, <3>3, <4>1 DEF StepTypes, Fits, Follows, Rowless, Ordinary, IsJob, OnHost, Unnamed, rowVars
    <3>4. CASE ~Ordinary(p)
      <4>1. IsJob(p) /\ state[p] = "dispatched" /\ p \in linked
        BY <2>9, <3>1, <3>4 DEF Claims, Fits, Follows, Notes, If
      <4>2. step' = [step EXCEPT ![p] = "starting"] /\ intent' = [intent EXCEPT ![p] = "deploying"]
        BY <2>9, <4>1 DEF Claims, Validates
      <4>3. kind[p] = "promote" /\ kind' = kind /\ state' = state /\ linked' = linked
        BY <1>0, <3>1, <3>2, <3>4, <4>1 DEF RowTypes, IsJob, Ordinary, rowVars
      <4>4. CASE k = p
        BY <1>0, <3>1, <4>1, <4>2, <4>3, <4>4
           DEF StepTypes, Fits, Follows, Ordinary, IsJob, Initially, OnHost, Unnamed
      <4>5. CASE k # p
        BY <1>0, <1>2, <3>1, <4>2, <4>3, <4>5
           DEF StepTypes, Fits, Follows, Rowless, Ordinary, IsJob
      <4>6. QED
        BY <4>4, <4>5
    <3>5. QED
      BY <3>3, <3>4
  <2>10. ASSUME NEW p \in Ids, Enters(p) PROVE Fits(k)'
    BY <2>10, <1>0, <1>2, ReleaseAssumption
       DEF Enters, Goes, hostState, RowTypes, RequestTypes, StepTypes, HostTypes, Owned, Fresh, Starting, Fits, Follows, Rowless, Unnamed, Ordinary, Cleared, Engaged, OnHost, Rows, Ids, Live, Final, States, Initially, IsJob, rowVars
  <2>11. ASSUME NEW p \in Ids, TimesOut(p) PROVE Fits(k)'
    BY <2>11, <1>0, <1>2, ReleaseAssumption
       DEF TimesOut, Goes, hostState, RowTypes, RequestTypes, StepTypes, HostTypes, Owned, Fresh, Starting, Fits, Follows, Rowless, Unnamed, Ordinary, Cleared, Engaged, OnHost, Rows, Ids, Live, Final, States, Initially, IsJob, rowVars
  <2>12. ASSUME NEW p \in Ids, Applies(p) PROVE Fits(k)'
    <3>1. step[p] = "none" /\ state[p] = "available" /\ ~IsJob(p)
      BY <2>12, <1>2 DEF Applies, Fits, Follows, Rowless, Ordinary, Unnamed
    <3>2. step' = [step EXCEPT ![p] = "starting"] /\ intent' = [intent EXCEPT ![p] = "deploying"]
      BY <2>12 DEF Applies, Validates
    <3>3. UNCHANGED rowVars /\ kind[p] = "offer"
      BY <2>12, <3>1 DEF Applies, IsJob
    <3>4. QED
      BY <1>0, <1>2, <3>1, <3>2, <3>3 DEF StepTypes, Fits, Follows, Rowless, Ordinary, Unnamed, IsJob, Initially, OnHost, rowVars
  <2>13. ASSUME NEW p \in Ids, Declines(p) PROVE Fits(k)'
    <3>1. step[p] = "none" /\ state[p] = "available" /\ ~IsJob(p)
      BY <2>13, <1>2 DEF Declines, Fits, Follows, Rowless, Ordinary, Unnamed
    <3>2. step' = [step EXCEPT ![p] = "ending"] /\ intent' = [intent EXCEPT ![p] = "declined"]
      BY <2>13 DEF Declines, Validates
    <3>3. UNCHANGED rowVars
      BY <2>13 DEF Declines
    <3>4. QED
      BY <1>0, <1>2, <3>1, <3>2, <3>3 DEF StepTypes, Fits, Follows, Rowless, Ordinary, Unnamed, IsJob, Initially, OnHost, rowVars
  <2>14. ASSUME NEW p \in Ids, Fetches(p) PROVE Fits(k)'
    BY <2>14, <1>0, <1>2, ReleaseAssumption
       DEF Fetches, Goes, hostState, RowTypes, RequestTypes, StepTypes, HostTypes, Owned, Fresh, Starting, Fits, Follows, Rowless, Unnamed, Ordinary, Cleared, Engaged, OnHost, Rows, Ids, Live, Final, States, Initially, IsJob, rowVars
  <2>15. ASSUME NEW p \in Ids, Refuses(p) PROVE Fits(k)'
    BY <2>15, <1>0, <1>2, ReleaseAssumption
       DEF Refuses, Goes, hostState, RowTypes, RequestTypes, StepTypes, HostTypes, Owned, Fresh, Starting, Fits, Follows, Rowless, Unnamed, Ordinary, Cleared, Engaged, OnHost, Rows, Ids, Live, Final, States, Initially, IsJob, rowVars
  <2>16. ASSUME NEW p \in Ids, Cleans(p) PROVE Fits(k)'
    BY <2>16, <1>0, <1>2, ReleaseAssumption
       DEF Cleans, Goes, RowTypes, RequestTypes, StepTypes, HostTypes, Owned, Fresh, Starting, Fits, Follows, Rowless, Unnamed, Ordinary, Cleared, Engaged, OnHost, Rows, Ids, Live, Final, States, Initially, IsJob, rowVars
  <2>17. ASSUME NEW p \in Ids, Probes(p) PROVE Fits(k)'
    BY <2>17, <1>0, <1>2, ReleaseAssumption
       DEF Probes, Goes, RowTypes, RequestTypes, StepTypes, HostTypes, Owned, Fresh, Starting, Fits, Follows, Rowless, Unnamed, Ordinary, Cleared, Engaged, OnHost, Rows, Ids, Live, Final, States, Initially, IsJob, rowVars
  <2>18. ASSUME NEW p \in Ids, Judges(p) PROVE Fits(k)'
    BY <2>18, <1>0, <1>2, ReleaseAssumption
       DEF Judges, Answers, Goes, RowTypes, RequestTypes, StepTypes, HostTypes, Owned, Fresh, Starting, Fits, Follows, Rowless, Unnamed, Ordinary, Cleared, Engaged, OnHost, Rows, Ids, Live, Final, States, Initially, IsJob, rowVars
  <2>19. ASSUME NEW p \in Ids, RemovesOld(p) PROVE Fits(k)'
    BY <2>19, <1>0, <1>2, ReleaseAssumption
       DEF RemovesOld, Goes, RowTypes, RequestTypes, StepTypes, HostTypes, Owned, Fresh, Starting, Fits, Follows, Rowless, Unnamed, Ordinary, Cleared, Engaged, OnHost, Rows, Ids, Live, Final, States, Initially, IsJob, rowVars
  <2>20. ASSUME NEW p \in Ids, RunsNew(p) PROVE Fits(k)'
    BY <2>20, <1>0, <1>2, ReleaseAssumption
       DEF RunsNew, Goes, RowTypes, RequestTypes, StepTypes, HostTypes, Owned, Fresh, Starting, Fits, Follows, Rowless, Unnamed, Ordinary, Cleared, Engaged, OnHost, Rows, Ids, Live, Final, States, Initially, IsJob, rowVars
  <2>21. ASSUME NEW p \in Ids, RunFails(p) PROVE Fits(k)'
    BY <2>21 DEF RunFails, Notes
  <2>22. ASSUME NEW p \in Ids, Records(p) PROVE Fits(k)'
    BY <2>22, <1>0, <1>2, ReleaseAssumption
       DEF Records, Goes, hostState, RowTypes, RequestTypes, StepTypes, HostTypes, Owned, Fresh, Starting, Fits, Follows, Rowless, Unnamed, Ordinary, Cleared, Engaged, OnHost, Rows, Ids, Live, Final, States, Initially, IsJob, rowVars
  <2>23. ASSUME NEW p \in Ids, HeadUnread(p) PROVE Fits(k)'
    BY <2>23 DEF HeadUnread, Notes
  <2>24. ASSUME NEW p \in Ids, Names(p) PROVE Fits(k)'
    BY <2>24, <1>0, <1>2, ReleaseAssumption
       DEF Names, Goes, hostState, RowTypes, RequestTypes, StepTypes, HostTypes, Owned, Fresh, Starting, Fits, Follows, Rowless, Unnamed, Ordinary, Cleared, Engaged, OnHost, Rows, Ids, Live, Final, States, Initially, IsJob, rowVars
  <2>25. ASSUME NEW p \in Ids, Succeeds(p) PROVE Fits(k)'
    BY <2>25, <1>0, <1>2, ReleaseAssumption
       DEF Succeeds, Reports, Legal, Validates, Goes, hostState, RowTypes, RequestTypes, StepTypes, HostTypes, Owned, Fresh, Starting, Fits, Follows, Rowless, Unnamed, Ordinary, Cleared, Engaged, OnHost, Rows, Ids, Live, Final, States, Initially, IsJob, rowVars
  <2>26. ASSUME NEW p \in Ids, Fails(p) PROVE Fits(k)'
    BY <2>26, <1>0, <1>2, ReleaseAssumption
       DEF Fails, Reports, Legal, Validates, Goes, hostState, RowTypes, RequestTypes, StepTypes, HostTypes, Owned, Fresh, Starting, Fits, Follows, Rowless, Unnamed, Ordinary, Cleared, Engaged, OnHost, Rows, Ids, Live, Final, States, Initially, IsJob, rowVars
  <2>27. ASSUME NEW p \in Ids, Dies(p) PROVE Fits(k)'
    BY <2>27 DEF Dies, Notes
  <2>28. ASSUME TipMoves PROVE Fits(k)'
    BY <2>28, <1>0, <1>2, ReleaseAssumption
       DEF TipMoves, hostState, RowTypes, RequestTypes, StepTypes, HostTypes, Owned, Fresh, Starting, Fits, Follows, Rowless, Unnamed, Ordinary, Cleared, Engaged, OnHost, Rows, Ids, Live, Final, States, Initially, IsJob, rowVars
  <2>29. ASSUME Builds PROVE Fits(k)'
    BY <2>29, <1>0, <1>2, ReleaseAssumption
       DEF Builds, hostState, RowTypes, RequestTypes, StepTypes, HostTypes, Owned, Fresh, Starting, Fits, Follows, Rowless, Unnamed, Ordinary, Cleared, Engaged, OnHost, Rows, Ids, Live, Final, States, Initially, IsJob, rowVars
  <2>30. ASSUME Elsewhere PROVE Fits(k)'
    BY <2>30 DEF Elsewhere, Notes
  <2>31. ASSUME UNCHANGED releaseVars PROVE Fits(k)'
    BY <2>31, <1>0, <1>2, ReleaseAssumption
       DEF releaseVars, RowTypes, RequestTypes, StepTypes, HostTypes, Owned, Fresh, Starting, Fits, Follows, Rowless, Unnamed, Ordinary, Cleared, Engaged, OnHost, Rows, Ids, Live, Final, States, Initially, IsJob, rowVars
  <2>32. QED
    BY <1>0, <2>1, <2>2, <2>3, <2>4, <2>5, <2>6, <2>7, <2>8, <2>9, <2>10, <2>11, <2>12, <2>13, <2>14, <2>15, <2>16, <2>17, <2>18, <2>19, <2>20, <2>21, <2>22, <2>23, <2>24, <2>25, <2>26, <2>27, <2>28, <2>29, <2>30, <2>31
       DEF ReleaseNext, Carries
<1>5. OneEngaged'
  <2>1. ASSUME NEW r \in Requesters, Asked(r) PROVE OneEngaged'
    BY <2>1, <1>0, <1>2, ReleaseAssumption
       DEF Asked, Idle, hostState, RowTypes, RequestTypes, StepTypes, HostTypes, Owned, Fits, Follows, Rowless, Unnamed, Ordinary, OneEngaged, Cleared, Engaged, OnHost, Rows, Ids, Live, Final, States, IsJob, rowVars
  <2>2. ASSUME NEW r \in Requesters, Abandons(r) PROVE OneEngaged'
    BY <2>2, <1>0, <1>2, ReleaseAssumption
       DEF Abandons, Idle, hostState, RowTypes, RequestTypes, StepTypes, HostTypes, Owned, Fits, Follows, Rowless, Unnamed, Ordinary, OneEngaged, Cleared, Engaged, OnHost, Rows, Ids, Live, Final, States, IsJob, rowVars
  <2>3. ASSUME NEW r \in Requesters, Inserts(r) PROVE OneEngaged'
    BY <2>3, <1>0, <1>2, ReleaseAssumption
       DEF Inserts, Idle, hostState, RowTypes, RequestTypes, StepTypes, HostTypes, Owned, Fits, Follows, Rowless, Unnamed, Ordinary, OneEngaged, Cleared, Engaged, OnHost, Rows, Ids, Live, Final, States, IsJob, rowVars
  <2>4. ASSUME NEW r \in Requesters, FilesJob(r) PROVE OneEngaged'
    BY <2>4, <1>0, <1>2, ReleaseAssumption
       DEF FilesJob, hostState, RowTypes, RequestTypes, StepTypes, HostTypes, Owned, Fits, Follows, Rowless, Unnamed, Ordinary, OneEngaged, Cleared, Engaged, OnHost, Rows, Ids, Live, Final, States, IsJob, rowVars
  <2>5. ASSUME NEW r \in Requesters, Links(r) PROVE OneEngaged'
    BY <2>5, <1>0, <1>2, ReleaseAssumption
       DEF Links, Idle, hostState, RowTypes, RequestTypes, StepTypes, HostTypes, Owned, Fits, Follows, Rowless, Unnamed, Ordinary, OneEngaged, Cleared, Engaged, OnHost, Rows, Ids, Live, Final, States, IsJob, rowVars
  <2>6. ASSUME NEW r \in Requesters, RequestDies(r) PROVE OneEngaged'
    BY <2>6 DEF RequestDies, Notes
  <2>7. ASSUME NEW p \in Ids, Writes(p) PROVE OneEngaged'
    <3>0. Rows \subseteq Ids
      BY <1>0, ReleaseAssumption DEF RowTypes, Rows, Ids
    <3>1. p \in Rows /\ step[p] \in {"starting", "ending"} /\ Fits(p)
      BY <2>7, <1>0, <1>2 DEF Writes, Owned
    <3>2. Rows' = Rows /\ UNCHANGED <<kind, linked, request, intent, version, canonical, current>>
      BY <2>7 DEF Writes, Goes, Rows, hostState
    <3>3. state'[p] = intent[p] /\ \A q \in Ids \ {p} : state'[q] = state[q] /\ step'[q] = step[q]
      BY <2>7, <1>0 DEF Writes, Goes, RowTypes, StepTypes
    <3>4. \/ step[p] = "starting" /\ intent[p] = "deploying" /\ step'[p] \in {"fetching", "waiting"}
          \/ step[p] = "ending" /\ intent[p] = "deployed" /\ step'[p] = "crowning"
          \/ step[p] = "ending" /\ intent[p] \in {"declined", "failed"} /\ step'[p] = "over"
      BY <2>7, <1>0, <3>1 DEF Writes, Goes, StepTypes, Starting, Fits, Follows, Rowless, Ordinary, Unnamed
    <3>5. \A q \in Rows : Engaged(q)' => Engaged(q)
      BY <3>0, <3>1, <3>3, <3>4 DEF Engaged, Fits, Follows, Rowless, Ordinary, Unnamed, Live, Initially
    <3>6. QED
      BY <1>2, <3>2, <3>5 DEF OneEngaged
  <2>8. ASSUME NEW p \in Ids, Crowns(p) PROVE OneEngaged'
    BY <2>8, <1>0, <1>2, ReleaseAssumption
       DEF Crowns, Goes, hostState, RowTypes, RequestTypes, StepTypes, HostTypes, Owned, Fits, Follows, Rowless, Unnamed, Ordinary, OneEngaged, Cleared, Engaged, OnHost, Rows, Ids, Live, Final, States, IsJob, rowVars
  <2>9. ASSUME NEW p \in Ids, Claims(p) PROVE OneEngaged'
    BY <2>9, <1>0, <1>2, ReleaseAssumption
       DEF Claims, Validates, Goes, hostState, Legal, RowTypes, RequestTypes, StepTypes, HostTypes, Owned, Fits, Follows, Rowless, Unnamed, Ordinary, OneEngaged, Cleared, Engaged, OnHost, Rows, Ids, Live, Final, States, IsJob, rowVars
  <2>10. ASSUME NEW p \in Ids, Enters(p) PROVE OneEngaged'
    BY <2>10, <1>0, <1>2, ReleaseAssumption
       DEF Enters, Goes, hostState, RowTypes, RequestTypes, StepTypes, HostTypes, Owned, Fits, Follows, Rowless, Unnamed, Ordinary, OneEngaged, Cleared, Engaged, OnHost, Rows, Ids, Live, Final, States, IsJob, rowVars
  <2>11. ASSUME NEW p \in Ids, TimesOut(p) PROVE OneEngaged'
    BY <2>11, <1>0, <1>2, ReleaseAssumption
       DEF TimesOut, Goes, hostState, RowTypes, RequestTypes, StepTypes, HostTypes, Owned, Fits, Follows, Rowless, Unnamed, Ordinary, OneEngaged, Cleared, Engaged, OnHost, Rows, Ids, Live, Final, States, IsJob, rowVars
  <2>12. ASSUME NEW p \in Ids, Applies(p) PROVE OneEngaged'
    BY <2>12, <1>0, <1>2, ReleaseAssumption
       DEF Applies, Newest, Validates, hostState, Legal, RowTypes, RequestTypes, StepTypes, HostTypes, Owned, Fits, Follows, Rowless, Unnamed, Ordinary, OneEngaged, Cleared, Engaged, OnHost, Rows, Ids, Live, Final, States, IsJob, rowVars
  <2>13. ASSUME NEW p \in Ids, Declines(p) PROVE OneEngaged'
    BY <2>13, <1>0, <1>2, ReleaseAssumption
       DEF Declines, Newest, Validates, hostState, Legal, RowTypes, RequestTypes, StepTypes, HostTypes, Owned, Fits, Follows, Rowless, Unnamed, Ordinary, OneEngaged, Cleared, Engaged, OnHost, Rows, Ids, Live, Final, States, IsJob, rowVars
  <2>14. ASSUME NEW p \in Ids, Fetches(p) PROVE OneEngaged'
    BY <2>14, <1>0, <1>2, ReleaseAssumption
       DEF Fetches, Goes, hostState, RowTypes, RequestTypes, StepTypes, HostTypes, Owned, Fits, Follows, Rowless, Unnamed, Ordinary, OneEngaged, Cleared, Engaged, OnHost, Rows, Ids, Live, Final, States, IsJob, rowVars
  <2>15. ASSUME NEW p \in Ids, Refuses(p) PROVE OneEngaged'
    BY <2>15, <1>0, <1>2, ReleaseAssumption
       DEF Refuses, Goes, hostState, RowTypes, RequestTypes, StepTypes, HostTypes, Owned, Fits, Follows, Rowless, Unnamed, Ordinary, OneEngaged, Cleared, Engaged, OnHost, Rows, Ids, Live, Final, States, IsJob, rowVars
  <2>16. ASSUME NEW p \in Ids, Cleans(p) PROVE OneEngaged'
    BY <2>16, <1>0, <1>2, ReleaseAssumption
       DEF Cleans, Goes, RowTypes, RequestTypes, StepTypes, HostTypes, Owned, Fits, Follows, Rowless, Unnamed, Ordinary, OneEngaged, Cleared, Engaged, OnHost, Rows, Ids, Live, Final, States, IsJob, rowVars
  <2>17. ASSUME NEW p \in Ids, Probes(p) PROVE OneEngaged'
    BY <2>17, <1>0, <1>2, ReleaseAssumption
       DEF Probes, Goes, RowTypes, RequestTypes, StepTypes, HostTypes, Owned, Fits, Follows, Rowless, Unnamed, Ordinary, OneEngaged, Cleared, Engaged, OnHost, Rows, Ids, Live, Final, States, IsJob, rowVars
  <2>18. ASSUME NEW p \in Ids, Judges(p) PROVE OneEngaged'
    <3>0. Rows \subseteq Ids
      BY <1>0, ReleaseAssumption DEF RowTypes, Rows, Ids
    <3>1. step[p] = "judging" /\ \A q \in Ids : step'[q] = "crowning" => step[q] = "crowning"
      BY <2>18, <1>0 DEF Judges, Goes, StepTypes
    <3>2. UNCHANGED <<made, state>>
      BY <2>18 DEF Judges, rowVars
    <3>3. QED
      BY <1>2, <3>0, <3>1, <3>2 DEF OneEngaged, Engaged, Rows
  <2>19. ASSUME NEW p \in Ids, RemovesOld(p) PROVE OneEngaged'
    BY <2>19, <1>0, <1>2, ReleaseAssumption
       DEF RemovesOld, Goes, RowTypes, RequestTypes, StepTypes, HostTypes, Owned, Fits, Follows, Rowless, Unnamed, Ordinary, OneEngaged, Cleared, Engaged, OnHost, Rows, Ids, Live, Final, States, IsJob, rowVars
  <2>20. ASSUME NEW p \in Ids, RunsNew(p) PROVE OneEngaged'
    BY <2>20, <1>0, <1>2, ReleaseAssumption
       DEF RunsNew, Goes, RowTypes, RequestTypes, StepTypes, HostTypes, Owned, Fits, Follows, Rowless, Unnamed, Ordinary, OneEngaged, Cleared, Engaged, OnHost, Rows, Ids, Live, Final, States, IsJob, rowVars
  <2>21. ASSUME NEW p \in Ids, RunFails(p) PROVE OneEngaged'
    BY <2>21 DEF RunFails, Notes
  <2>22. ASSUME NEW p \in Ids, Records(p) PROVE OneEngaged'
    BY <2>22, <1>0, <1>2, ReleaseAssumption
       DEF Records, Goes, hostState, RowTypes, RequestTypes, StepTypes, HostTypes, Owned, Fits, Follows, Rowless, Unnamed, Ordinary, OneEngaged, Cleared, Engaged, OnHost, Rows, Ids, Live, Final, States, IsJob, rowVars
  <2>23. ASSUME NEW p \in Ids, HeadUnread(p) PROVE OneEngaged'
    BY <2>23 DEF HeadUnread, Notes
  <2>24. ASSUME NEW p \in Ids, Names(p) PROVE OneEngaged'
    BY <2>24, <1>0, <1>2, ReleaseAssumption
       DEF Names, Goes, hostState, RowTypes, RequestTypes, StepTypes, HostTypes, Owned, Fits, Follows, Rowless, Unnamed, Ordinary, OneEngaged, Cleared, Engaged, OnHost, Rows, Ids, Live, Final, States, IsJob, rowVars
  <2>25. ASSUME NEW p \in Ids, Succeeds(p) PROVE OneEngaged'
    BY <2>25, <1>0, <1>2, ReleaseAssumption
       DEF Succeeds, Reports, Legal, Validates, Goes, hostState, RowTypes, RequestTypes, StepTypes, HostTypes, Owned, Fits, Follows, Rowless, Unnamed, Ordinary, OneEngaged, Cleared, Engaged, OnHost, Rows, Ids, Live, Final, States, IsJob, rowVars
  <2>26. ASSUME NEW p \in Ids, Fails(p) PROVE OneEngaged'
    BY <2>26, <1>0, <1>2, ReleaseAssumption
       DEF Fails, Reports, Legal, Validates, Goes, hostState, RowTypes, RequestTypes, StepTypes, HostTypes, Owned, Fits, Follows, Rowless, Unnamed, Ordinary, OneEngaged, Cleared, Engaged, OnHost, Rows, Ids, Live, Final, States, IsJob, rowVars
  <2>27. ASSUME NEW p \in Ids, Dies(p) PROVE OneEngaged'
    BY <2>27 DEF Dies, Notes
  <2>28. ASSUME TipMoves PROVE OneEngaged'
    BY <2>28, <1>0, <1>2, ReleaseAssumption
       DEF TipMoves, hostState, RowTypes, RequestTypes, StepTypes, HostTypes, Owned, Fits, Follows, Rowless, Unnamed, Ordinary, OneEngaged, Cleared, Engaged, OnHost, Rows, Ids, Live, Final, States, IsJob, rowVars
  <2>29. ASSUME Builds PROVE OneEngaged'
    BY <2>29, <1>0, <1>2, ReleaseAssumption
       DEF Builds, hostState, RowTypes, RequestTypes, StepTypes, HostTypes, Owned, Fits, Follows, Rowless, Unnamed, Ordinary, OneEngaged, Cleared, Engaged, OnHost, Rows, Ids, Live, Final, States, IsJob, rowVars
  <2>30. ASSUME Elsewhere PROVE OneEngaged'
    BY <2>30 DEF Elsewhere, Notes
  <2>31. ASSUME UNCHANGED releaseVars PROVE OneEngaged'
    BY <2>31, <1>0, <1>2, ReleaseAssumption
       DEF releaseVars, RowTypes, RequestTypes, StepTypes, HostTypes, Owned, Fits, Follows, Rowless, Unnamed, Ordinary, OneEngaged, Cleared, Engaged, OnHost, Rows, Ids, Live, Final, States, IsJob, rowVars
  <2>32. QED
    BY <1>0, <2>1, <2>2, <2>3, <2>4, <2>5, <2>6, <2>7, <2>8, <2>9, <2>10, <2>11, <2>12, <2>13, <2>14, <2>15, <2>16, <2>17, <2>18, <2>19, <2>20, <2>21, <2>22, <2>23, <2>24, <2>25, <2>26, <2>27, <2>28, <2>29, <2>30, <2>31
       DEF ReleaseNext, Carries
<1>6. Cleared'
  <2>1. ASSUME NEW r \in Requesters, Asked(r) PROVE Cleared'
    <3>0. Rows \subseteq Ids
      BY <1>0, ReleaseAssumption DEF RowTypes, Rows, Ids
    <3>1. \A q \in Requesters : request[q] = Idle
      BY <2>1 DEF Asked, Notes, If
    <3>2. \A p \in Rows : state[p] \in Live => ~IsJob(p) /\ step[p] = "none"
      BY <2>1 DEF Asked, Notes, If
    <3>3. \A p \in Rows : step[p] # "crowning"
      BY <2>1 DEF Asked, Notes, If
    <3>4. Rows' = Rows /\ UNCHANGED <<kind, linked, step, intent>>
      BY <2>1 DEF Asked, Rows
    <3>5. \A p \in Ids : state'[p] = IF p \in Rows /\ state[p] \in Live THEN "superseded" ELSE state[p]
      BY <2>1, <1>0 DEF Asked, RowTypes
    <3>6. \A q \in Requesters \ {r} : request'[q] = Idle
      BY <2>1, <1>0, <3>1 DEF Asked, RequestTypes
    <3>7. request'[r].at = "superseded"
      BY <2>1, <1>0 DEF Asked, RequestTypes
    <3>8. \A p \in Rows : ~Engaged(p)'
      BY <3>0, <3>3, <3>4, <3>5 DEF Engaged, Live
    <3>9. QED
      BY <3>4, <3>6, <3>7, <3>8 DEF Cleared, Idle
  <2>2. ASSUME NEW r \in Requesters, Abandons(r) PROVE Cleared'
    <3>1. request'[r] = Idle /\ \A q \in Requesters \ {r} : request'[q] = request[q]
      BY <2>2, <1>0 DEF Abandons, RequestTypes
    <3>2. UNCHANGED <<rowVars, step>>
      BY <2>2 DEF Abandons
    <3>3. \A q \in Requesters : request'[q] # Idle => request'[q] = request[q]
      BY <3>1
    <3>4. Idle.at = "idle"
      BY DEF Idle
    <3>5. QED
      BY <1>2, <3>1, <3>2, <3>3, <3>4 DEF Cleared, Engaged, Rows, rowVars
  <2>3. ASSUME NEW r \in Requesters, Inserts(r) PROVE Cleared'
    <3>1. \A q \in Requesters \ {r} : request'[q] = request[q] /\ request[q] = Idle
      BY <2>3, <1>0, <1>2 DEF Inserts, RequestTypes, Cleared, Idle
    <3>2. request[r] \in Requests /\ request[r].at = "superseded" /\ made + 1 \in Ids
      BY <2>3, <1>0, ReleaseAssumption DEF Inserts, RequestTypes, RowTypes, Ids
    <3>3. request[r].kind = "offer" => request'[r] = Idle
      BY <2>3, <1>0 DEF Inserts, RequestTypes
    <3>4. request[r].kind # "offer" =>
             /\ request'[r].at = "inserted" /\ request'[r].row = made + 1
             /\ kind'[made + 1] = "promote" /\ state'[made + 1] = "dispatched"
      BY <2>3, <1>0, <3>2 DEF Inserts, RequestTypes, RowTypes, Requests, Initially
    <3>5. QED
      BY <3>1, <3>3, <3>4 DEF Cleared, Idle, IsJob
  <2>4. ASSUME NEW r \in Requesters, FilesJob(r) PROVE Cleared'
    <3>1. request'[r].at = "filed" /\ \A q \in Requesters \ {r} : request'[q] = request[q]
      BY <2>4, <1>0 DEF FilesJob, RequestTypes, Requests
    <3>2. request[r] # Idle /\ UNCHANGED rowVars
      BY <2>4 DEF FilesJob, Idle
    <3>3. \A q \in Requesters \ {r} : request[q] = Idle
      BY <1>2, <3>2 DEF Cleared
    <3>4. QED
      BY <3>1, <3>3 DEF Cleared, Idle
  <2>5. ASSUME NEW r \in Requesters, Links(r) PROVE Cleared'
    BY <2>5, <1>0, <1>2, ReleaseAssumption
       DEF Links, Idle, hostState, RowTypes, RequestTypes, StepTypes, HostTypes, Owned, Fresh, Fits, Follows, Rowless, Unnamed, Ordinary, OneEngaged, Cleared, Engaged, OnHost, Rows, Ids, Live, Final, States, IsJob, rowVars
  <2>6. ASSUME NEW r \in Requesters, RequestDies(r) PROVE Cleared'
    BY <2>6 DEF RequestDies, Notes
  <2>7. ASSUME NEW p \in Ids, Writes(p) PROVE Cleared'
    <3>0. Rows \subseteq Ids
      BY <1>0, ReleaseAssumption DEF RowTypes, Rows, Ids
    <3>1. p \in Rows /\ step[p] \in {"starting", "ending"} /\ Fits(p)
      BY <2>7, <1>0, <1>2 DEF Writes, Owned
    <3>2. Rows' = Rows /\ UNCHANGED <<kind, linked, request, intent, version, canonical, current>>
      BY <2>7 DEF Writes, Goes, Rows, hostState
    <3>3. state'[p] = intent[p] /\ \A q \in Ids \ {p} : state'[q] = state[q] /\ step'[q] = step[q]
      BY <2>7, <1>0 DEF Writes, Goes, RowTypes, StepTypes
    <3>4. \/ step[p] = "starting" /\ intent[p] = "deploying" /\ step'[p] \in {"fetching", "waiting"}
          \/ step[p] = "ending" /\ intent[p] = "deployed" /\ step'[p] = "crowning"
          \/ step[p] = "ending" /\ intent[p] \in {"declined", "failed"} /\ step'[p] = "over"
      BY <2>7, <1>0, <3>1 DEF Writes, Goes, StepTypes, Starting, Fits, Follows, Rowless, Ordinary, Unnamed
    <3>5. \A q \in Rows : Engaged(q)' => Engaged(q)
      BY <3>0, <3>1, <3>3, <3>4 DEF Engaged, Fits, Follows, Rowless, Ordinary, Unnamed, Live, Initially
    <3>6. \A q \in Requesters : request[q].at = "inserted" => request[q].row \in Ids \ {p}
      BY <1>0, <3>0, <3>1 DEF Owned, Fresh
    <3>7. QED
      BY <1>2, <3>2, <3>3, <3>5, <3>6 DEF Cleared, IsJob
  <2>8. ASSUME NEW p \in Ids, Crowns(p) PROVE Cleared'
    BY <2>8, <1>0, <1>2, ReleaseAssumption
       DEF Crowns, Goes, hostState, RowTypes, RequestTypes, StepTypes, HostTypes, Owned, Fresh, Fits, Follows, Rowless, Unnamed, Ordinary, OneEngaged, Cleared, Engaged, OnHost, Rows, Ids, Live, Final, States, IsJob, rowVars
  <2>9. ASSUME NEW p \in Ids, Claims(p) PROVE Cleared'
    BY <2>9, <1>0, <1>2, ReleaseAssumption
       DEF Claims, Validates, Goes, hostState, Legal, RowTypes, RequestTypes, StepTypes, HostTypes, Owned, Fresh, Fits, Follows, Rowless, Unnamed, Ordinary, OneEngaged, Cleared, Engaged, OnHost, Rows, Ids, Live, Final, States, IsJob, rowVars
  <2>10. ASSUME NEW p \in Ids, Enters(p) PROVE Cleared'
    BY <2>10, <1>0, <1>2, ReleaseAssumption
       DEF Enters, Goes, hostState, RowTypes, RequestTypes, StepTypes, HostTypes, Owned, Fresh, Fits, Follows, Rowless, Unnamed, Ordinary, OneEngaged, Cleared, Engaged, OnHost, Rows, Ids, Live, Final, States, IsJob, rowVars
  <2>11. ASSUME NEW p \in Ids, TimesOut(p) PROVE Cleared'
    BY <2>11, <1>0, <1>2, ReleaseAssumption
       DEF TimesOut, Goes, hostState, RowTypes, RequestTypes, StepTypes, HostTypes, Owned, Fresh, Fits, Follows, Rowless, Unnamed, Ordinary, OneEngaged, Cleared, Engaged, OnHost, Rows, Ids, Live, Final, States, IsJob, rowVars
  <2>12. ASSUME NEW p \in Ids, Applies(p) PROVE Cleared'
    BY <2>12, <1>0, <1>2, ReleaseAssumption
       DEF Applies, Newest, Validates, hostState, Legal, RowTypes, RequestTypes, StepTypes, HostTypes, Owned, Fresh, Fits, Follows, Rowless, Unnamed, Ordinary, OneEngaged, Cleared, Engaged, OnHost, Rows, Ids, Live, Final, States, IsJob, rowVars
  <2>13. ASSUME NEW p \in Ids, Declines(p) PROVE Cleared'
    BY <2>13, <1>0, <1>2, ReleaseAssumption
       DEF Declines, Newest, Validates, hostState, Legal, RowTypes, RequestTypes, StepTypes, HostTypes, Owned, Fresh, Fits, Follows, Rowless, Unnamed, Ordinary, OneEngaged, Cleared, Engaged, OnHost, Rows, Ids, Live, Final, States, IsJob, rowVars
  <2>14. ASSUME NEW p \in Ids, Fetches(p) PROVE Cleared'
    BY <2>14, <1>0, <1>2, ReleaseAssumption
       DEF Fetches, Goes, hostState, RowTypes, RequestTypes, StepTypes, HostTypes, Owned, Fresh, Fits, Follows, Rowless, Unnamed, Ordinary, OneEngaged, Cleared, Engaged, OnHost, Rows, Ids, Live, Final, States, IsJob, rowVars
  <2>15. ASSUME NEW p \in Ids, Refuses(p) PROVE Cleared'
    BY <2>15, <1>0, <1>2, ReleaseAssumption
       DEF Refuses, Goes, hostState, RowTypes, RequestTypes, StepTypes, HostTypes, Owned, Fresh, Fits, Follows, Rowless, Unnamed, Ordinary, OneEngaged, Cleared, Engaged, OnHost, Rows, Ids, Live, Final, States, IsJob, rowVars
  <2>16. ASSUME NEW p \in Ids, Cleans(p) PROVE Cleared'
    BY <2>16, <1>0, <1>2, ReleaseAssumption
       DEF Cleans, Goes, RowTypes, RequestTypes, StepTypes, HostTypes, Owned, Fresh, Fits, Follows, Rowless, Unnamed, Ordinary, OneEngaged, Cleared, Engaged, OnHost, Rows, Ids, Live, Final, States, IsJob, rowVars
  <2>17. ASSUME NEW p \in Ids, Probes(p) PROVE Cleared'
    BY <2>17, <1>0, <1>2, ReleaseAssumption
       DEF Probes, Goes, RowTypes, RequestTypes, StepTypes, HostTypes, Owned, Fresh, Fits, Follows, Rowless, Unnamed, Ordinary, OneEngaged, Cleared, Engaged, OnHost, Rows, Ids, Live, Final, States, IsJob, rowVars
  <2>18. ASSUME NEW p \in Ids, Judges(p) PROVE Cleared'
    BY <2>18, <1>0, <1>2, ReleaseAssumption
       DEF Judges, Answers, Goes, RowTypes, RequestTypes, StepTypes, HostTypes, Owned, Fresh, Fits, Follows, Rowless, Unnamed, Ordinary, OneEngaged, Cleared, Engaged, OnHost, Rows, Ids, Live, Final, States, IsJob, rowVars
  <2>19. ASSUME NEW p \in Ids, RemovesOld(p) PROVE Cleared'
    BY <2>19, <1>0, <1>2, ReleaseAssumption
       DEF RemovesOld, Goes, RowTypes, RequestTypes, StepTypes, HostTypes, Owned, Fresh, Fits, Follows, Rowless, Unnamed, Ordinary, OneEngaged, Cleared, Engaged, OnHost, Rows, Ids, Live, Final, States, IsJob, rowVars
  <2>20. ASSUME NEW p \in Ids, RunsNew(p) PROVE Cleared'
    BY <2>20, <1>0, <1>2, ReleaseAssumption
       DEF RunsNew, Goes, RowTypes, RequestTypes, StepTypes, HostTypes, Owned, Fresh, Fits, Follows, Rowless, Unnamed, Ordinary, OneEngaged, Cleared, Engaged, OnHost, Rows, Ids, Live, Final, States, IsJob, rowVars
  <2>21. ASSUME NEW p \in Ids, RunFails(p) PROVE Cleared'
    BY <2>21 DEF RunFails, Notes
  <2>22. ASSUME NEW p \in Ids, Records(p) PROVE Cleared'
    BY <2>22, <1>0, <1>2, ReleaseAssumption
       DEF Records, Goes, hostState, RowTypes, RequestTypes, StepTypes, HostTypes, Owned, Fresh, Fits, Follows, Rowless, Unnamed, Ordinary, OneEngaged, Cleared, Engaged, OnHost, Rows, Ids, Live, Final, States, IsJob, rowVars
  <2>23. ASSUME NEW p \in Ids, HeadUnread(p) PROVE Cleared'
    BY <2>23 DEF HeadUnread, Notes
  <2>24. ASSUME NEW p \in Ids, Names(p) PROVE Cleared'
    BY <2>24, <1>0, <1>2, ReleaseAssumption
       DEF Names, Goes, hostState, RowTypes, RequestTypes, StepTypes, HostTypes, Owned, Fresh, Fits, Follows, Rowless, Unnamed, Ordinary, OneEngaged, Cleared, Engaged, OnHost, Rows, Ids, Live, Final, States, IsJob, rowVars
  <2>25. ASSUME NEW p \in Ids, Succeeds(p) PROVE Cleared'
    BY <2>25, <1>0, <1>2, ReleaseAssumption
       DEF Succeeds, Reports, Legal, Validates, Goes, hostState, RowTypes, RequestTypes, StepTypes, HostTypes, Owned, Fresh, Fits, Follows, Rowless, Unnamed, Ordinary, OneEngaged, Cleared, Engaged, OnHost, Rows, Ids, Live, Final, States, IsJob, rowVars
  <2>26. ASSUME NEW p \in Ids, Fails(p) PROVE Cleared'
    BY <2>26, <1>0, <1>2, ReleaseAssumption
       DEF Fails, Reports, Legal, Validates, Goes, hostState, RowTypes, RequestTypes, StepTypes, HostTypes, Owned, Fresh, Fits, Follows, Rowless, Unnamed, Ordinary, OneEngaged, Cleared, Engaged, OnHost, Rows, Ids, Live, Final, States, IsJob, rowVars
  <2>27. ASSUME NEW p \in Ids, Dies(p) PROVE Cleared'
    BY <2>27 DEF Dies, Notes
  <2>28. ASSUME TipMoves PROVE Cleared'
    BY <2>28, <1>0, <1>2, ReleaseAssumption
       DEF TipMoves, hostState, RowTypes, RequestTypes, StepTypes, HostTypes, Owned, Fresh, Fits, Follows, Rowless, Unnamed, Ordinary, OneEngaged, Cleared, Engaged, OnHost, Rows, Ids, Live, Final, States, IsJob, rowVars
  <2>29. ASSUME Builds PROVE Cleared'
    BY <2>29, <1>0, <1>2, ReleaseAssumption
       DEF Builds, hostState, RowTypes, RequestTypes, StepTypes, HostTypes, Owned, Fresh, Fits, Follows, Rowless, Unnamed, Ordinary, OneEngaged, Cleared, Engaged, OnHost, Rows, Ids, Live, Final, States, IsJob, rowVars
  <2>30. ASSUME Elsewhere PROVE Cleared'
    BY <2>30 DEF Elsewhere, Notes
  <2>31. ASSUME UNCHANGED releaseVars PROVE Cleared'
    BY <2>31, <1>0, <1>2, ReleaseAssumption
       DEF releaseVars, RowTypes, RequestTypes, StepTypes, HostTypes, Owned, Fresh, Fits, Follows, Rowless, Unnamed, Ordinary, OneEngaged, Cleared, Engaged, OnHost, Rows, Ids, Live, Final, States, IsJob, rowVars
  <2>32. QED
    BY <1>0, <2>1, <2>2, <2>3, <2>4, <2>5, <2>6, <2>7, <2>8, <2>9, <2>10, <2>11, <2>12, <2>13, <2>14, <2>15, <2>16, <2>17, <2>18, <2>19, <2>20, <2>21, <2>22, <2>23, <2>24, <2>25, <2>26, <2>27, <2>28, <2>29, <2>30, <2>31
       DEF ReleaseNext, Carries
<1>7. Served'
  <2>1. ASSUME NEW r \in Requesters, Asked(r) PROVE Served'
    BY <2>1, <1>0, <1>2, <1>3, ReleaseAssumption
       DEF Asked, Idle, RowTypes, RequestTypes, StepTypes, HostTypes, Owned, Fits, Follows, Rowless, Unnamed, Ordinary, OneEngaged, Gated, Engaged, Served, Through, OnHost, Rows, Ids, Live, IsJob, rowVars, hostState
  <2>2. ASSUME NEW r \in Requesters, Abandons(r) PROVE Served'
    BY <2>2, <1>0, <1>2, <1>3, ReleaseAssumption
       DEF Abandons, Idle, RowTypes, RequestTypes, StepTypes, HostTypes, Owned, Fits, Follows, Rowless, Unnamed, Ordinary, OneEngaged, Gated, Engaged, Served, Through, OnHost, Rows, Ids, Live, IsJob, rowVars, hostState
  <2>3. ASSUME NEW r \in Requesters, Inserts(r) PROVE Served'
    BY <2>3, <1>0, <1>2, <1>3, ReleaseAssumption
       DEF Inserts, Idle, RowTypes, RequestTypes, StepTypes, HostTypes, Owned, Fits, Follows, Rowless, Unnamed, Ordinary, OneEngaged, Gated, Engaged, Served, Through, OnHost, Rows, Ids, Live, IsJob, rowVars, hostState
  <2>4. ASSUME NEW r \in Requesters, FilesJob(r) PROVE Served'
    <3>1. request[r].row \in Rows /\ step[request[r].row] = "none"
      BY <2>4, <1>0 DEF FilesJob, Owned, Fresh
    <3>2. \A p \in Ids : step'[p] \in {step[p], "queued"} /\ (step[p] # "none" => step'[p] = step[p])
      BY <2>4, <1>0, <3>1 DEF FilesJob, StepTypes
    <3>3. UNCHANGED <<rowVars, current, intent, hostState>> /\ Rows' = Rows /\ Rows \subseteq Ids
      BY <2>4, <1>0, ReleaseAssumption DEF FilesJob, RowTypes, Rows, Ids, rowVars
    <3>4. QED
      BY <1>2, <3>2, <3>3 DEF Served, Through, Unnamed, rowVars, hostState
  <2>5. ASSUME NEW r \in Requesters, Links(r) PROVE Served'
    BY <2>5, <1>0, <1>2, <1>3, ReleaseAssumption
       DEF Links, Idle, RowTypes, RequestTypes, StepTypes, HostTypes, Owned, Fits, Follows, Rowless, Unnamed, Ordinary, OneEngaged, Gated, Engaged, Served, Through, OnHost, Rows, Ids, Live, IsJob, rowVars, hostState
  <2>6. ASSUME NEW r \in Requesters, RequestDies(r) PROVE Served'
    BY <2>6 DEF RequestDies, Notes
  <2>7. ASSUME NEW p \in Ids, Writes(p) PROVE Served'
    <3>0. Rows \subseteq Ids
      BY <1>0, ReleaseAssumption DEF RowTypes, Rows, Ids
    <3>1. p \in Rows /\ step[p] \in {"starting", "ending"} /\ Fits(p)
      BY <2>7, <1>0, <1>2 DEF Writes, Owned
    <3>2. Rows' = Rows /\ UNCHANGED <<kind, linked, request, intent, version, canonical, current>>
      BY <2>7 DEF Writes, Goes, Rows, hostState
    <3>3. state'[p] = intent[p] /\ \A q \in Ids \ {p} : state'[q] = state[q] /\ step'[q] = step[q]
      BY <2>7, <1>0 DEF Writes, Goes, RowTypes, StepTypes
    <3>4. \/ step[p] = "starting" /\ intent[p] = "deploying" /\ step'[p] \in {"fetching", "waiting"}
          \/ step[p] = "ending" /\ intent[p] = "deployed" /\ step'[p] = "crowning"
          \/ step[p] = "ending" /\ intent[p] \in {"declined", "failed"} /\ step'[p] = "over"
      BY <2>7, <1>0, <3>1 DEF Writes, Goes, StepTypes, Starting, Fits, Follows, Rowless, Ordinary, Unnamed
    <3>5. \A q \in Rows : (Through(q)' <=> Through(q)) /\ (step[q] = "bare" <=> step'[q] = "bare")
      BY <3>0, <3>1, <3>2, <3>3, <3>4 DEF Through, Unnamed
    <3>6. QED
      BY <1>2, <3>2, <3>5 DEF Served
  <2>8. ASSUME NEW p \in Ids, Crowns(p) PROVE Served'
    BY <2>8, <1>0, <1>2, <1>3, ReleaseAssumption
       DEF Crowns, Goes, RowTypes, RequestTypes, StepTypes, HostTypes, Owned, Fits, Follows, Rowless, Unnamed, Ordinary, OneEngaged, Gated, Engaged, Served, Through, OnHost, Rows, Ids, Live, IsJob, rowVars, hostState
  <2>9. ASSUME NEW p \in Ids, Claims(p) PROVE Served'
    <3>0. Rows \subseteq Ids
      BY <1>0, ReleaseAssumption DEF RowTypes, Rows, Ids
    <3>1. step[p] = "queued" /\ p \in Rows
      BY <2>9, <1>0 DEF Claims, Owned
    <3>2. \/ step' = [step EXCEPT ![p] = "starting"] /\ intent' = [intent EXCEPT ![p] = "deploying"]
          \/ step' = [step EXCEPT ![p] = "waiting"] /\ UNCHANGED intent
      BY <2>9 DEF Claims, Validates, Goes
    <3>3. UNCHANGED <<rowVars, current, hostState>> /\ Rows' = Rows
      BY <2>9 DEF Claims, rowVars, Rows
    <3>4. \A q \in Rows : (Through(q)' <=> Through(q)) /\ (step[q] = "bare" <=> step'[q] = "bare")
      BY <1>0, <3>0, <3>1, <3>2 DEF Through, Unnamed, StepTypes
    <3>5. QED
      BY <1>2, <3>3, <3>4 DEF Served, rowVars, hostState
  <2>10. ASSUME NEW p \in Ids, Enters(p) PROVE Served'
    <3>0. Rows \subseteq Ids
      BY <1>0, ReleaseAssumption DEF RowTypes, Rows, Ids
    <3>1. step[p] = "waiting" /\ p \in Rows /\ Fits(p)
      BY <2>10, <1>0, <1>2 DEF Enters, Owned
    <3>2. UNCHANGED <<rowVars, current, hostState, intent>> /\ Rows' = Rows
      BY <2>10 DEF Enters, Goes, rowVars, Rows
    <3>3. \/ step' = [step EXCEPT ![p] = "fetching"]
          \/ step' = [step EXCEPT ![p] = "over"]
          \/ step' = [step EXCEPT ![p] = "up"] /\ canonical = version[p] /\ ~Ordinary(p)
      BY <2>10 DEF Enters, Goes, Notes, If
    <3>4. ASSUME ~Ordinary(p), NEW q \in Rows, step[q] = "bare" PROVE FALSE
      <4>1. ~IsJob(q) /\ ~Ordinary(q)
        BY <2>10, <3>4 DEF Enters, InLock, OnHost, IsJob, Ordinary
      <4>2. Engaged(q) /\ Engaged(p)
        BY <1>2, <3>0, <3>1, <3>4, <4>1 DEF Engaged, Fits, Follows, OnHost, Live
      <4>3. QED
        BY <1>2, <3>1, <3>4, <4>2 DEF OneEngaged
    <3>5. \A q \in Rows : q # p => (Through(q)' <=> Through(q)) /\ step'[q] = step[q]
      BY <1>0, <3>0, <3>1, <3>2, <3>3 DEF Through, Unnamed, StepTypes
    <3>6. step'[p] # "bare" /\ ~Through(p) /\ (Through(p)' => canonical = version[p] /\ ~Ordinary(p))
      BY <1>0, <3>0, <3>1, <3>3 DEF Through, Unnamed, StepTypes
    <3>7. \A q \in Rows : step'[q] = "bare" <=> step[q] = "bare"
      BY <3>1, <3>5, <3>6
    <3>8. UNCHANGED <<version, canonical, current>>
      BY <3>2 DEF rowVars, hostState
    <3>9. QED
      BY <1>2, <3>1, <3>2, <3>4, <3>5, <3>6, <3>7, <3>8 DEF Served
  <2>11. ASSUME NEW p \in Ids, TimesOut(p) PROVE Served'
    BY <2>11, <1>0, <1>2, <1>3, ReleaseAssumption
       DEF TimesOut, Goes, RowTypes, RequestTypes, StepTypes, HostTypes, Owned, Fits, Follows, Rowless, Unnamed, Ordinary, OneEngaged, Gated, Engaged, Served, Through, OnHost, Rows, Ids, Live, IsJob, rowVars, hostState
  <2>12. ASSUME NEW p \in Ids, Applies(p) PROVE Served'
    BY <2>12, <1>0, <1>2, <1>3, ReleaseAssumption
       DEF Applies, Newest, Validates, Legal, States, Final, RowTypes, RequestTypes, StepTypes, HostTypes, Owned, Fits, Follows, Rowless, Unnamed, Ordinary, OneEngaged, Gated, Engaged, Served, Through, OnHost, Rows, Ids, Live, IsJob, rowVars, hostState
  <2>13. ASSUME NEW p \in Ids, Declines(p) PROVE Served'
    BY <2>13, <1>0, <1>2, <1>3, ReleaseAssumption
       DEF Declines, Newest, Validates, Legal, States, Final, RowTypes, RequestTypes, StepTypes, HostTypes, Owned, Fits, Follows, Rowless, Unnamed, Ordinary, OneEngaged, Gated, Engaged, Served, Through, OnHost, Rows, Ids, Live, IsJob, rowVars, hostState
  <2>14. ASSUME NEW p \in Ids, Fetches(p) PROVE Served'
    BY <2>14, <1>0, <1>2, <1>3, ReleaseAssumption
       DEF Fetches, Goes, RowTypes, RequestTypes, StepTypes, HostTypes, Owned, Fits, Follows, Rowless, Unnamed, Ordinary, OneEngaged, Gated, Engaged, Served, Through, OnHost, Rows, Ids, Live, IsJob, rowVars, hostState
  <2>15. ASSUME NEW p \in Ids, Refuses(p) PROVE Served'
    BY <2>15, <1>0, <1>2, <1>3, ReleaseAssumption
       DEF Refuses, Goes, RowTypes, RequestTypes, StepTypes, HostTypes, Owned, Fits, Follows, Rowless, Unnamed, Ordinary, OneEngaged, Gated, Engaged, Served, Through, OnHost, Rows, Ids, Live, IsJob, rowVars, hostState
  <2>16. ASSUME NEW p \in Ids, Cleans(p) PROVE Served'
    BY <2>16, <1>0, <1>2, <1>3, ReleaseAssumption
       DEF Cleans, Goes, RowTypes, RequestTypes, StepTypes, HostTypes, Owned, Fits, Follows, Rowless, Unnamed, Ordinary, OneEngaged, Gated, Engaged, Served, Through, OnHost, Rows, Ids, Live, IsJob, rowVars, hostState
  <2>17. ASSUME NEW p \in Ids, Probes(p) PROVE Served'
    <3>0. Rows \subseteq Ids
      BY <1>0, ReleaseAssumption DEF RowTypes, Rows, Ids
    <3>1. step[p] = "probing" /\ p \in Rows
      BY <2>17, <1>0 DEF Probes, Owned
    <3>2. PICK x \in {"judging", "broken"} : step' = [step EXCEPT ![p] = x] /\ UNCHANGED intent
      BY <2>17 DEF Probes, Goes
    <3>3. UNCHANGED <<rowVars, current, canonical>> /\ Rows' = Rows
      BY <2>17 DEF Probes, rowVars, Rows
    <3>4. \A q \in Rows : (Through(q)' <=> Through(q)) /\ (step[q] = "bare" <=> step'[q] = "bare")
      BY <1>0, <3>0, <3>1, <3>2 DEF Through, Unnamed, StepTypes
    <3>5. QED
      BY <1>2, <3>3, <3>4 DEF Served, rowVars
  <2>18. ASSUME NEW p \in Ids, Judges(p) PROVE Served'
    BY <2>18, <1>0, <1>2, <1>3, ReleaseAssumption
       DEF Judges, Answers, Goes, RowTypes, RequestTypes, StepTypes, HostTypes, Owned, Fits, Follows, Rowless, Unnamed, Ordinary, OneEngaged, Gated, Engaged, Served, Through, OnHost, Rows, Ids, Live, IsJob, rowVars, hostState
  <2>19. ASSUME NEW p \in Ids, RemovesOld(p) PROVE Served'
    <3>0. Rows \subseteq Ids
      BY <1>0, ReleaseAssumption DEF RowTypes, Rows, Ids
    <3>1. \A q \in Rows : ~Through(q)
      BY <2>19 DEF RemovesOld, Notes, If
    <3>2. step' = [step EXCEPT ![p] = "bare"] /\ UNCHANGED intent /\ Rows' = Rows
      BY <2>19 DEF RemovesOld, Goes, rowVars, Rows
    <3>3. p \in Rows /\ p \in Ids
      BY <2>19, <1>0 DEF RemovesOld, Owned
    <3>4. \A q \in Rows : ~Through(q)'
      BY <1>0, <3>0, <3>1, <3>2 DEF Through, Unnamed, StepTypes
    <3>5. step'[p] = "bare"
      BY <1>0, <3>2, <3>3 DEF StepTypes
    <3>6. QED
      BY <3>2, <3>3, <3>4, <3>5 DEF Served
  <2>20. ASSUME NEW p \in Ids, RunsNew(p) PROVE Served'
    <3>0. Rows \subseteq Ids
      BY <1>0, ReleaseAssumption DEF RowTypes, Rows, Ids
    <3>1. step[p] = "bare" /\ canonical = 0 /\ p \in Rows
      BY <2>20, <1>0, <1>3 DEF RunsNew, Gated, Owned
    <3>2. PICK x \in {"served", "up"} : step' = [step EXCEPT ![p] = x]
      BY <2>20, <3>1 DEF RunsNew, Goes
    <3>3. canonical' = version[p] /\ UNCHANGED <<rowVars, intent>> /\ Rows' = Rows
      BY <2>20, <3>1 DEF RunsNew, Goes, rowVars, Rows
    <3>4. \A q \in Rows : ~Through(q)
      BY <1>2, <3>1 DEF Served
    <3>5. \A q \in Rows : step[q] = "bare" => q = p
      BY <1>3, <3>0, <3>1 DEF Alone, OnHost
    <3>6. \A q \in Rows : (Through(q)' <=> q = p) /\ step'[q] # "bare"
      BY <1>0, <3>0, <3>1, <3>2, <3>3, <3>4, <3>5 DEF Through, Unnamed, StepTypes
    <3>7. QED
      BY <3>1, <3>3, <3>6 DEF Served, rowVars
  <2>21. ASSUME NEW p \in Ids, RunFails(p) PROVE Served'
    BY <2>21 DEF RunFails, Notes
  <2>22. ASSUME NEW p \in Ids, Records(p) PROVE Served'
    BY <2>22, <1>0, <1>2, <1>3, ReleaseAssumption
       DEF Records, Goes, RowTypes, RequestTypes, StepTypes, HostTypes, Owned, Fits, Follows, Rowless, Unnamed, Ordinary, OneEngaged, Gated, Engaged, Served, Through, OnHost, Rows, Ids, Live, IsJob, rowVars, hostState
  <2>23. ASSUME NEW p \in Ids, HeadUnread(p) PROVE Served'
    BY <2>23 DEF HeadUnread, Notes
  <2>24. ASSUME NEW p \in Ids, Names(p) PROVE Served'
    <3>0. Rows \subseteq Ids
      BY <1>0, ReleaseAssumption DEF RowTypes, Rows, Ids
    <3>1. step[p] = "naming" /\ p \in Rows /\ Fits(p) /\ Through(p)
      BY <2>24, <1>0, <1>2 DEF Names, Owned, Through, Unnamed
    <3>2. UNCHANGED <<rowVars, hostState, intent>> /\ Rows' = Rows /\ Digested(p)
      BY <2>24 DEF Names, Goes, Notes, If, rowVars, Rows
    <3>3. PICK x \in {"over", "up"} : step' = [step EXCEPT ![p] = x] /\ (x = "over" <=> Ordinary(p))
      BY <2>24 DEF Names, Goes
    <3>4. canonical = version[p]
      BY <1>2, <3>1 DEF Served
    <3>5. \A q \in Rows : (Through(q)' => Through(q)) /\ (step'[q] = "bare" => step[q] = "bare")
      BY <1>0, <3>0, <3>1, <3>2, <3>3 DEF Through, Unnamed, StepTypes
    <3>6. current' = canonical \/ Through(p)'
      <4>1. CASE Ordinary(p)
        BY <2>24, <3>1, <3>2, <3>4, <4>1 DEF Names, Fits, Follows, Rowless, Ordinary, Unnamed, Rowless
      <4>2. CASE ~Ordinary(p)
        BY <1>0, <3>0, <3>1, <3>3, <4>2 DEF Through, Unnamed, StepTypes
      <4>3. QED
        BY <4>1, <4>2
    <3>7. QED
      BY <1>2, <3>1, <3>2, <3>5, <3>6 DEF Served, rowVars, hostState
  <2>25. ASSUME NEW p \in Ids, Succeeds(p) PROVE Served'
    <3>0. Rows \subseteq Ids
      BY <1>0, ReleaseAssumption DEF RowTypes, Rows, Ids
    <3>1. step[p] = "up" /\ state[p] = "deploying" /\ (IsJob(p) => p \in linked) /\ p \in Rows
      BY <2>25, <1>0, <1>2 DEF Succeeds, Reports, Fits, Follows, Rowless, Ordinary, Unnamed, Owned
    <3>2. "deployed" \in Legal["deploying"]
      BY DEF Legal, States, Live, Final
    <3>3. step' = [step EXCEPT ![p] = "ending"] /\ intent' = [intent EXCEPT ![p] = "deployed"]
      BY <2>25, <3>1, <3>2 DEF Succeeds, Reports, Validates
    <3>4. UNCHANGED <<rowVars, current, hostState>> /\ Rows' = Rows
      BY <2>25 DEF Succeeds, Reports, rowVars, Rows
    <3>5. \A q \in Rows : (Through(q)' <=> Through(q)) /\ (step[q] = "bare" <=> step'[q] = "bare")
      BY <1>0, <3>0, <3>1, <3>3 DEF Through, Unnamed, StepTypes
    <3>6. QED
      BY <1>2, <3>4, <3>5 DEF Served, rowVars, hostState
  <2>26. ASSUME NEW p \in Ids, Fails(p) PROVE Served'
    <3>0. Rows \subseteq Ids
      BY <1>0, ReleaseAssumption DEF RowTypes, Rows, Ids
    <3>1. step[p] = "broken" /\ p \in Rows
      BY <2>26, <1>0 DEF Fails, Reports, Owned
    <3>2. \/ step' = [step EXCEPT ![p] = "ending"] /\ intent' = [intent EXCEPT ![p] = "failed"]
          \/ step' = [step EXCEPT ![p] = "over"] /\ UNCHANGED intent
      BY <2>26 DEF Fails, Reports, Validates, Goes
    <3>3. UNCHANGED <<rowVars, current, hostState>> /\ Rows' = Rows
      BY <2>26 DEF Fails, Reports, rowVars, Rows
    <3>4. \A q \in Rows : (Through(q)' <=> Through(q)) /\ (step[q] = "bare" <=> step'[q] = "bare")
      BY <1>0, <3>0, <3>1, <3>2 DEF Through, Unnamed, StepTypes
    <3>5. QED
      BY <1>2, <3>3, <3>4 DEF Served, rowVars, hostState
  <2>27. ASSUME NEW p \in Ids, Dies(p) PROVE Served'
    BY <2>27 DEF Dies, Notes
  <2>28. ASSUME TipMoves PROVE Served'
    BY <2>28, <1>0, <1>2, <1>3, ReleaseAssumption
       DEF TipMoves, RowTypes, RequestTypes, StepTypes, HostTypes, Owned, Fits, Follows, Rowless, Unnamed, Ordinary, OneEngaged, Gated, Engaged, Served, Through, OnHost, Rows, Ids, Live, IsJob, rowVars, hostState
  <2>29. ASSUME Builds PROVE Served'
    <3>0. Rows \subseteq Ids
      BY <1>0, ReleaseAssumption DEF RowTypes, Rows, Ids
    <3>1. made' = made + 1 /\ made + 1 \in Ids /\ UNCHANGED <<canonical, current, intent>>
      BY <2>29, <1>0, ReleaseAssumption DEF Builds, RowTypes, Ids, hostState
    <3>2. \A q \in Rows : q # made + 1 /\ step'[q] = step[q] /\ version'[q] = version[q]
      BY <2>29, <1>0, <3>0 DEF Builds, RowTypes, StepTypes, Rows
    <3>3. step'[made + 1] = "queued" /\ Rows' = Rows \union {made + 1}
      BY <2>29, <1>0, <3>1 DEF Builds, RowTypes, StepTypes, Rows
    <3>4. \A q \in Rows : Through(q)' <=> Through(q)
      BY <3>1, <3>2 DEF Through, Unnamed
    <3>5. ASSUME NEW q \in Rows', q \notin Rows PROVE ~Through(q)' /\ step'[q] # "bare"
      <4>1. step'[q] = "queued"
        BY <3>3, <3>5
      <4>2. QED
        BY <4>1 DEF Through, Unnamed
    <3>6. Rows \subseteq Rows'
      BY <3>3
    <3>7. QED
      BY <1>2, <3>1, <3>2, <3>4, <3>5, <3>6 DEF Served
  <2>30. ASSUME Elsewhere PROVE Served'
    BY <2>30 DEF Elsewhere, Notes
  <2>31. ASSUME UNCHANGED releaseVars PROVE Served'
    BY <2>31, <1>0, <1>2, <1>3, ReleaseAssumption
       DEF releaseVars, RowTypes, RequestTypes, StepTypes, HostTypes, Owned, Fits, Follows, Rowless, Unnamed, Ordinary, OneEngaged, Gated, Engaged, Served, Through, OnHost, Rows, Ids, Live, IsJob, rowVars, hostState
  <2>32. QED
    BY <1>0, <2>1, <2>2, <2>3, <2>4, <2>5, <2>6, <2>7, <2>8, <2>9, <2>10, <2>11, <2>12, <2>13, <2>14, <2>15, <2>16, <2>17, <2>18, <2>19, <2>20, <2>21, <2>22, <2>23, <2>24, <2>25, <2>26, <2>27, <2>28, <2>29, <2>30, <2>31
       DEF ReleaseNext, Carries
<1>8. QED
  BY <1>4, <1>5, <1>6, <1>7

\* When nothing is under way and nothing odd has happened, the environment runs
\* the release that is current, and every promotion that is through is final.
THEOREM ReleaseCurrent == ReleaseSpec => []CurrentIsServed
<1>1. TypeInv /\ GateInv /\ Ledger => CurrentIsServed
  BY LedgerSuffices
<1> QED
  BY <1>1, ReleaseTypeInit, ReleaseTypeStep, GateInit, GateStep, LedgerInit, LedgerStep, PTL DEF ReleaseSpec

=============================================================================
