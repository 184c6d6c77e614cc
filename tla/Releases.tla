------------------------------ MODULE Releases ------------------------------
(***************************************************************************)
(* Promotions of one environment, and the cutover of its container.        *)
(*                                                                         *)
(* A release is pushed (promote_release: a row and a deploy job) or        *)
(* offered (offer_release: a row an operator applies or declines on the    *)
(* host).  Whoever carries it out, job or operator, pulls the image by     *)
(* digest, checks signature and secrets, starts a probe container and only *)
(* if that is healthy replaces the canonical one.  Jobs exclude each other *)
(* by the deploy lock (Deploys); an operator takes no lock.                *)
(*                                                                         *)
(* The store changes a promotion in two transactions: the state is read    *)
(* and the transition validated, then the row is written whatever it has   *)
(* become.  Both are steps here, and so are those of promote_release.      *)
(*                                                                         *)
(* An ordinary deploy job has no promotion: it builds the image it runs.   *)
(* Every deploy job that knows the digest of its image names that release  *)
(* as current in the default environment of the project, whatever its own  *)
(* environment and its promotion row, after it has given back the lock.    *)
(*                                                                         *)
(* odd remembers the events that spoil a property, which then says what    *)
(* holds as long as they have not happened.                                *)
(***************************************************************************)
EXTENDS Integers, FiniteSets

CONSTANTS
    Versions,       \* releases of the project
    Signed,         \* those whose signature verifies
    Healthy,        \* those whose container can come up healthy
    Requesters,     \* processes that serve promote and offer requests
    Default,        \* whether this is the default environment of the project
    MaxPromotions,  \* model bound: promotions and ordinary deploy jobs
    MaxBuilds,      \* model bound: ordinary deploy jobs among them
    MaxTroubles     \* model bound: processes that die, runs that fail late,
                    \* promotions of another environment

ASSUME ReleaseAssumption ==
    /\ Versions \subseteq Nat \ {0}
    /\ Signed \subseteq Versions /\ Healthy \subseteq Versions
    /\ Default \in BOOLEAN
    /\ MaxPromotions \in Nat /\ MaxBuilds \in Nat /\ MaxTroubles \in Nat

VARIABLES
    made,       \* number of promotion rows and of ordinary deploy jobs
    kind,       \* promote, offer or build, the last for an ordinary deploy job
    version,    \* release of each promotion, image of each ordinary deploy
    state,      \* state of each row
    linked,     \* rows that name their deploy job; an ordinary one has none
    current,    \* current_release_id of the environment
    request,    \* what each requester is doing
    step,       \* where the job or the operator of each promotion is
    intent,     \* validated transition, not yet written
    canonical,  \* image of the canonical container, 0 if there is none
    probe,      \* image of the probe container, 0 if there is none
    recorded,   \* the last recorded deploy is the tip of the base branch
    odd, troubles

rowVars     == <<made, kind, version, state, linked>>
hostState   == <<canonical, probe>>
releaseVars == <<rowVars, current, request, step, intent, hostState, recorded, odd, troubles>>

Ids    == 1..MaxPromotions
Images == Versions \union {0}

(***************************************************************************)
(* promotions.py.                                                          *)
(***************************************************************************)
Live   == {"dispatched", "available", "deploying"}
Final  == {"deployed", "declined", "failed", "superseded"}
States == Live \union Final

Legal == [s \in States |->
    CASE s = "dispatched" -> {"deploying", "superseded"}
      [] s = "available"  -> {"deploying", "declined", "superseded"}
      [] s = "deploying"  -> {"deployed", "failed", "superseded"}
      [] OTHER            -> {}]

Initially(k) == IF k = "promote" THEN "dispatched" ELSE "available"

(***************************************************************************)
(* queued: the job exists.  waiting: for the lock.  starting and ending:   *)
(* a validated transition is about to be written.  fetching: pull, verify  *)
(* and secrets.  cleaning, probing, judging: the probe.  healthy, bare:    *)
(* before and after the old container is removed.  served: a job has given *)
(* back the lock.  naming: the deploy is recorded, its release not named.  *)
(* up, broken: the result is to be reported to the promotion.  crowning:   *)
(* the row is written, current is not.                                     *)
(***************************************************************************)
OnHost  == {"cleaning", "probing", "judging", "healthy", "bare"}
Unnamed == {"served", "naming"}
Busy    == {"starting", "waiting", "fetching", "up", "broken", "ending", "crowning"} \union OnHost \union Unnamed
Steps   == {"none", "queued", "over"} \union Busy
InLock  == {"fetching"} \union OnHost
Oddities == {"overlap", "revived", "overtaken", "untold", "clash", "dead", "coalesced", "lost",
             "unpushed", "outrun", "elsewhere"}

Requests == [at : {"idle", "superseded", "inserted", "filed"}, kind : {"promote", "offer"},
             version : Images, row : 0..MaxPromotions]
Idle == [at |-> "idle", kind |-> "promote", version |-> 0, row |-> 0]

RowTypes ==
    /\ made \in 0..MaxPromotions
    /\ kind \in [Ids -> {"promote", "offer", "build"}]
    /\ version \in [Ids -> Images]
    /\ state \in [Ids -> States]
    /\ linked \subseteq 1..made
    /\ current \in Images

RequestTypes == request \in [Requesters -> Requests]

StepTypes ==
    /\ step \in [Ids -> Steps]
    /\ intent \in [Ids -> States]
    /\ \A p \in Ids : step[p] \in {"starting", "ending"} =>
              p <= made /\ intent[p] \in {"deploying", "deployed", "declined", "failed"}

HostTypes ==
    /\ canonical \in Images /\ probe \in Images
    /\ recorded \in BOOLEAN
    /\ odd \subseteq Oddities
    /\ troubles \in 0..MaxTroubles

\* Rows, requests and containers have the types the code gives them; a
\* transition about to be written is one of a row that exists.
ReleaseTypeOK == RowTypes /\ RequestTypes /\ StepTypes /\ HostTypes

ReleaseInit ==
    /\ made = 0
    /\ kind = [p \in Ids |-> "promote"]
    /\ version = [p \in Ids |-> 0]
    /\ state = [p \in Ids |-> "superseded"]
    /\ linked = {}
    /\ current = 0
    /\ request = [r \in Requesters |-> Idle]
    /\ step = [p \in Ids |-> "none"]
    /\ intent = [p \in Ids |-> "deploying"]
    /\ canonical = 0 /\ probe = 0
    /\ recorded = FALSE
    /\ odd = {}
    /\ troubles = 0

Rows == 1..made
IsJob(p) == kind[p] # "offer"
Ordinary(p) == kind[p] = "build"
Notes(o) == odd' = odd \union o
If(c, o) == IF c THEN {o} ELSE {}

(***************************************************************************)
(* promote_release and offer_release.                                      *)
(***************************************************************************)
\* Not for what is current already; every live promotion is superseded, but
\* its job stays and will run, and an operator who applies it goes on.
Asked(r) ==
    /\ request[r] = Idle
    /\ made < MaxPromotions
    /\ \E k \in {"promote", "offer"}, v \in Versions \ {current} :
          request' = [request EXCEPT ![r] = [at |-> "superseded", kind |-> k, version |-> v, row |-> 0]]
    /\ state' = [p \in Ids |-> IF p \in Rows /\ state[p] \in Live THEN "superseded" ELSE state[p]]
    /\ Notes(If(\E q \in Requesters : request[q] # Idle, "overlap")
             \union If(\E p \in Rows : state[p] \in Live /\ (IsJob(p) \/ step[p] # "none"), "overtaken")
             \union If(\E p \in Rows : step[p] = "crowning", "untold"))
    /\ UNCHANGED <<made, kind, version, linked, current, step, intent, hostState, recorded, troubles>>

\* create_promotion looks again whether the release is current ...
Abandons(r) ==
    /\ request[r].at = "superseded"
    /\ request[r].version = current \/ made = MaxPromotions
    /\ request' = [request EXCEPT ![r] = Idle]
    /\ UNCHANGED <<rowVars, current, step, intent, hostState, recorded, odd, troubles>>

\* ... and inserts the row.
Inserts(r) ==
    /\ request[r].at = "superseded"
    /\ request[r].version # current /\ made < MaxPromotions
    /\ made' = made + 1
    /\ kind' = [kind EXCEPT ![made + 1] = request[r].kind]
    /\ version' = [version EXCEPT ![made + 1] = request[r].version]
    /\ state' = [state EXCEPT ![made + 1] = Initially(request[r].kind)]
    /\ request' = [request EXCEPT ![r] =
           IF @.kind = "offer" THEN Idle ELSE [@ EXCEPT !.at = "inserted", !.row = made + 1]]
    /\ UNCHANGED <<linked, current, step, intent, hostState, recorded, odd, troubles>>

\* The deploy job is created, which a worker may claim at once ...
FilesJob(r) ==
    /\ request[r].at = "inserted"
    /\ step' = [step EXCEPT ![request[r].row] = "queued"]
    /\ request' = [request EXCEPT ![r].at = "filed"]
    /\ UNCHANGED <<rowVars, current, intent, hostState, recorded, odd, troubles>>

\* ... and the row is told its id.
Links(r) ==
    /\ request[r].at = "filed"
    /\ linked' = linked \union {request[r].row}
    /\ request' = [request EXCEPT ![r] = Idle]
    /\ UNCHANGED <<made, kind, version, state, current, step, intent, hostState, recorded, odd, troubles>>

\* The process that serves the request dies half way.
RequestDies(r) ==
    /\ request[r] # Idle
    /\ troubles < MaxTroubles
    /\ troubles' = troubles + 1
    /\ request' = [request EXCEPT ![r] = Idle]
    /\ Notes({"lost"})
    /\ UNCHANGED <<rowVars, current, step, intent, hostState, recorded>>

\* A pipeline job has landed and comes to DEPLOY; no row speaks of it.
Builds ==
    /\ Default
    /\ made < MaxPromotions
    /\ Cardinality({p \in Rows : Ordinary(p)}) < MaxBuilds
    /\ made' = made + 1
    /\ kind' = [kind EXCEPT ![made + 1] = "build"]
    /\ \E v \in Versions : version' = [version EXCEPT ![made + 1] = v]
    /\ state' = [state EXCEPT ![made + 1] = "superseded"]
    /\ step' = [step EXCEPT ![made + 1] = "queued"]
    /\ UNCHANGED <<linked, current, request, intent, hostState, recorded, odd, troubles>>

(***************************************************************************)
(* transition_promotion: validated against the row as read ...             *)
(***************************************************************************)
Validates(p, to, then) ==
    /\ to \in Legal[state[p]]
    /\ intent' = [intent EXCEPT ![p] = to]
    /\ step' = [step EXCEPT ![p] = then]

Goes(p, to) == step' = [step EXCEPT ![p] = to] /\ UNCHANGED intent

\* ... and written to the row as it is.
Writes(p) ==
    /\ step[p] \in {"starting", "ending"}
    /\ state' = [state EXCEPT ![p] = intent[p]]
    /\ Goes(p, CASE step[p] = "starting" -> IF kind[p] = "offer" THEN "fetching" ELSE "waiting"
                 [] intent[p] = "deployed" -> "crowning"
                 [] OTHER -> "over")
    /\ Notes(If(state[p] \in Final, "revived"))
    /\ UNCHANGED <<made, kind, version, linked, current, request, hostState, recorded, troubles>>

\* set_environment_current_release, for a promotion marked deployed.
Crowns(p) ==
    /\ step[p] = "crowning"
    /\ current' = version[p]
    /\ Goes(p, "over")
    /\ UNCHANGED <<rowVars, request, hostState, recorded, odd, troubles>>

(***************************************************************************)
(* The deploy job of a promotion, and the operator of an offer.            *)
(***************************************************************************)
\* A worker claims the job; the row moves on if it names the job and is still
\* dispatched.
Claims(p) ==
    /\ step[p] = "queued"
    /\ IF p \in linked /\ state[p] = "dispatched"
         THEN Validates(p, "deploying", "starting")
         ELSE Goes(p, "waiting")
    /\ Notes(If(p \notin linked /\ ~Ordinary(p), "lost"))
    /\ UNCHANGED <<rowVars, current, request, hostState, recorded, troubles>>

\* The lock: the job finds the tip recorded as deployed and names no release,
\* or goes on, also when the record it has read before it waited is older.
Enters(p) ==
    /\ step[p] = "waiting"
    /\ \A q \in Rows : IsJob(q) => step[q] \notin InLock
    /\ \/ Goes(p, "fetching") /\ UNCHANGED odd
       \/ /\ recorded
          /\ Goes(p, IF Ordinary(p) THEN "over" ELSE "up")
          /\ Notes(If(canonical # version[p] /\ ~Ordinary(p), "coalesced"))
    /\ UNCHANGED <<rowVars, current, request, hostState, recorded, troubles>>

TimesOut(p) ==
    /\ step[p] = "waiting"
    /\ \E q \in Rows : IsJob(q) /\ step[q] \in InLock
    /\ Goes(p, "broken")
    /\ UNCHANGED <<rowVars, current, request, hostState, recorded, odd, troubles>>

Newest(p) == \A q \in Rows : kind[q] = "offer" /\ state[q] = "available" => q <= p

\* The operator applies or declines the newest offer of the host.
Applies(p) ==
    /\ p \in Rows /\ step[p] = "none" /\ state[p] = "available" /\ Newest(p)
    /\ Validates(p, "deploying", "starting")
    /\ UNCHANGED <<rowVars, current, request, hostState, recorded, odd, troubles>>

\* Mutant: an offer that is declined counts as superseded.
DeclinesQuietly(p) ==
    /\ p \in Rows /\ step[p] = "none" /\ state[p] = "available" /\ Newest(p)
    /\ Validates(p, "superseded", "ending")
    /\ UNCHANGED <<rowVars, current, request, hostState, recorded, odd, troubles>>

Declines(p) ==
    /\ p \in Rows /\ step[p] = "none" /\ state[p] = "available" /\ Newest(p)
    /\ Validates(p, "declined", "ending")
    /\ UNCHANGED <<rowVars, current, request, hostState, recorded, odd, troubles>>

(***************************************************************************)
(* pull_deploy, docker_deploy and run_or_restart_container.                *)
(***************************************************************************)
\* The image is pulled, its signature and the secrets of the host are in order;
\* or an ordinary job has built it here.
Fetches(p) ==
    /\ step[p] = "fetching"
    /\ version[p] \in Signed \/ Ordinary(p)
    /\ Goes(p, "cleaning")
    /\ Notes(If(\E q \in Rows : step[q] \in OnHost, "clash"))
    /\ UNCHANGED <<rowVars, current, request, hostState, recorded, troubles>>

\* Any of them is not, and nothing has been touched.
Refuses(p) ==
    /\ step[p] = "fetching"
    /\ Goes(p, "broken")
    /\ UNCHANGED <<rowVars, current, request, hostState, recorded, odd, troubles>>

\* What a crashed deploy has left under the name of the probe goes.
Cleans(p) ==
    /\ step[p] = "cleaning"
    /\ probe' = 0
    /\ Goes(p, "probing")
    /\ UNCHANGED <<rowVars, current, request, canonical, recorded, odd, troubles>>

\* docker run --name: fails when the name is taken.
Probes(p) ==
    /\ step[p] = "probing"
    /\ IF probe = 0
         THEN probe' = version[p] /\ Goes(p, "judging")
         ELSE Goes(p, "broken") /\ UNCHANGED probe
    /\ UNCHANGED <<rowVars, current, request, canonical, recorded, odd, troubles>>

\* Mutant: a container that is running is healthy.
JudgesRunning(p) ==
    /\ step[p] = "judging"
    /\ probe' = 0
    /\ \/ probe # 0 /\ Goes(p, "healthy")
       \/ Goes(p, "broken")
    /\ UNCHANGED <<rowVars, current, request, canonical, recorded, odd, troubles>>

\* _probe_http: whether the container of a version comes to answer below 500.
Answers(v) == v \in Healthy

\* The container of that name runs, answers and has its variables; it is
\* removed whatever the verdict.
Judges(p) ==
    /\ step[p] = "judging"
    /\ probe' = 0
    /\ \/ Answers(probe) /\ Goes(p, "healthy")
       \/ Goes(p, "broken")
    /\ UNCHANGED <<rowVars, current, request, canonical, recorded, odd, troubles>>

\* Whose release runs, and is not yet called current.
Through(q) == step[q] \in Unnamed \union {"up", "crowning"} \/ (step[q] = "ending" /\ intent[q] = "deployed")

RemovesOld(p) ==
    /\ step[p] = "healthy"
    /\ canonical' = 0
    /\ Goes(p, "bare")
    /\ Notes(If(\E q \in Rows : Through(q), "outrun"))
    /\ UNCHANGED <<rowVars, current, request, probe, recorded, troubles>>

\* The new canonical container starts, unless another has taken the name.
RunsNew(p) ==
    /\ step[p] = "bare"
    /\ IF canonical = 0
         THEN canonical' = version[p] /\ Goes(p, IF IsJob(p) THEN "served" ELSE "up")
         ELSE Goes(p, "broken") /\ UNCHANGED canonical
    /\ UNCHANGED <<rowVars, current, request, probe, recorded, odd, troubles>>

\* It does not start, and nothing serves.
RunFails(p) ==
    /\ step[p] = "bare"
    /\ troubles < MaxTroubles
    /\ troubles' = troubles + 1
    /\ Goes(p, "broken")
    /\ Notes({"dead"})
    /\ UNCHANGED <<rowVars, current, request, hostState, recorded>>

(***************************************************************************)
(* The end of a deploy job that was not coalesced, outside the lock.       *)
(***************************************************************************)
\* The job is done and its deploy recorded, with the commit that was checked
\* out, which may no longer be the tip.
Records(p) ==
    /\ step[p] = "served"
    /\ recorded' \in BOOLEAN
    /\ Goes(p, "naming")
    /\ UNCHANGED <<rowVars, current, request, hostState, odd, troubles>>

\* That commit cannot be read, and the job fails although its container runs.
HeadUnread(p) ==
    /\ step[p] = "served"
    /\ troubles < MaxTroubles
    /\ troubles' = troubles + 1
    /\ Goes(p, "broken")
    /\ Notes({"lost"})
    /\ UNCHANGED <<rowVars, current, request, hostState, recorded>>

\* The digest of a pulled image is that of its release; one that was built here
\* has a digest if it could be pushed and signed.
Digested(p) == Ordinary(p) => version[p] \in Signed

\* Mutant: only a job with a promotion names its release.
NamesPromoted(p) ==
    /\ step[p] = "naming"
    /\ current' = IF Default /\ ~Ordinary(p) THEN version[p] ELSE current
    /\ Goes(p, IF Ordinary(p) THEN "over" ELSE "up")
    /\ Notes(If(~Digested(p), "unpushed"))
    /\ UNCHANGED <<rowVars, request, hostState, recorded, troubles>>

\* The default environment runs the release of that digest, so it is written,
\* whatever the promotion of the job has become.
Names(p) ==
    /\ step[p] = "naming"
    /\ current' = IF Default /\ Digested(p) THEN version[p] ELSE current
    /\ Goes(p, IF Ordinary(p) THEN "over" ELSE "up")
    /\ Notes(If(~Digested(p), "unpushed"))
    /\ UNCHANGED <<rowVars, request, hostState, recorded, troubles>>

\* The job of a promotion of another environment names its release here.
Elsewhere ==
    /\ Default
    /\ troubles < MaxTroubles
    /\ troubles' = troubles + 1
    /\ current' \in Versions
    /\ Notes({"elsewhere"})
    /\ UNCHANGED <<rowVars, request, step, intent, hostState, recorded>>

(***************************************************************************)
(* Reporting.                                                              *)
(***************************************************************************)
\* advance_promotion_deployed and fail_promotion leave an unlinked or final row
\* alone; an operator's command stops with an error on a final one.  So does
\* a job whose row is still dispatched.
Reports(p, result, to) ==
    /\ step[p] = result
    /\ IF to \in Legal[state[p]] /\ (IsJob(p) => p \in linked)
         THEN Validates(p, to, "ending")
         ELSE Goes(p, "over")
    /\ UNCHANGED <<rowVars, current, request, hostState, recorded, odd, troubles>>

Succeeds(p) == Reports(p, "up", "deployed")
Fails(p)    == Reports(p, "broken", "failed")

\* The worker dies, and its job is claimed again, unless it was already done; or
\* the operator's command is interrupted.  Nobody finishes these.
Dies(p) ==
    /\ step[p] \in Busy
    /\ troubles < MaxTroubles
    /\ troubles' = troubles + 1
    /\ Goes(p, IF IsJob(p) /\ step[p] \notin {"naming", "up", "ending", "crowning"} THEN "queued" ELSE "over")
    /\ Notes({"lost"} \union If(step[p] = "bare", "dead"))
    /\ UNCHANGED <<rowVars, current, request, hostState, recorded>>

\* The base branch advances.
TipMoves ==
    /\ recorded
    /\ recorded' = FALSE
    /\ UNCHANGED <<rowVars, current, request, step, intent, hostState, odd, troubles>>

Carries(p) ==
    \/ Writes(p) \/ Crowns(p) \/ Claims(p) \/ Enters(p) \/ TimesOut(p)
    \/ Applies(p) \/ Declines(p)
    \/ Fetches(p) \/ Refuses(p) \/ Cleans(p) \/ Probes(p) \/ Judges(p)
    \/ RemovesOld(p) \/ RunsNew(p) \/ RunFails(p)
    \/ Records(p) \/ HeadUnread(p) \/ Names(p)
    \/ Succeeds(p) \/ Fails(p) \/ Dies(p)

ReleaseNext ==
    \/ \E r \in Requesters : Asked(r) \/ Abandons(r) \/ Inserts(r) \/ FilesJob(r) \/ Links(r) \/ RequestDies(r)
    \/ \E p \in Ids : Carries(p)
    \/ TipMoves \/ Builds \/ Elsewhere

ReleaseSpec == ReleaseInit /\ [][ReleaseNext]_releaseVars

(***************************************************************************)
(* Properties.                                                             *)
(***************************************************************************)
\* supersede_prior_promotions: an environment has one promotion under way,
\* unless requests overlap or a final row is written over.
OneLive ==
    odd \intersect {"overlap", "revived"} = {} =>
        \A p, q \in Rows : state[p] \in Live /\ state[q] \in Live => p = q

\* What may run: a signed release, or an image that was built here.
Vouched(v) == v \in Signed \/ \E p \in Rows : Ordinary(p) /\ version[p] = v

\* The probe gates the cutover: with one deploy at a time on the host, only an
\* image that was healthy, and signed unless it was built here, replaces the
\* canonical container, and there is always one, but for the moment of the
\* swap or a run that fails in it.
CutoverGated ==
    "clash" \notin odd =>
        /\ canonical # 0 => canonical \in Healthy /\ Vouched(canonical)
        /\ canonical = 0 /\ "dead" \notin odd =>
              \/ \A p \in Rows : step[p] \notin Unnamed \union {"up", "crowning"} /\ state[p] # "deployed"
              \/ \E p \in Rows : step[p] = "bare"

Quiet == \A p \in Rows : step[p] \in {"none", "queued", "over"}

\* The ledger of releases: when nothing is under way and nothing odd has
\* happened, the environment runs the release that is current, whether it was
\* promoted, offered or built by an ordinary deploy, and the promotion of every
\* job or operator that is through is final.
CurrentIsServed ==
    odd = {} /\ Quiet =>
        /\ canonical = current
        /\ \A p \in Rows : step[p] = "over" => state[p] \in Final

\* The same where a container is replaced before the deploy that started it has
\* named its release, or a promotion of another environment names its own here.
CurrentIsNamedInTime == odd \subseteq {"outrun", "elsewhere"} /\ Quiet => canonical = current

\* docs/site/pages/deploy.js:15: "DEPLOYED: Terminal. The environment's current
\* release is updated": when all is quiet, it is that of the last deployed row.
\* A request that comes between the two writes is no reason for it not to be.
DeployedIsCurrent ==
    odd \subseteq {"untold", "outrun"} /\ (\A p \in Rows : step[p] \in {"none", "over"}) =>
        \A p \in Rows : state[p] = "deployed" /\ (\A q \in Rows : q > p => state[q] # "deployed") =>
            current = version[p]

\* docs/site/pages/deploy.js:7: the promotion is marked deployed after the
\* cutover; a release that becomes current has been served.
DeployedWasServed ==
    [][\A p \in Rows : state[p] # "deployed" /\ state'[p] = "deployed" => canonical = version[p]]_releaseVars

=============================================================================
