------------------------------- MODULE Fleet -------------------------------
(***************************************************************************)
(* The processes of the fleet over the git artifacts of Artifacts.  A      *)
(* process starts with a garbage collection, then runs a worker slot and a *)
(* supervisor that stands by for the leader lock; the leader scans: worker *)
(* rows of finished jobs are reclaimed, a wedged fleet is alerted on,      *)
(* failed jobs get their remedies, and garbage is collected.  Signals stop *)
(* a process at once or drain it; it can also die at any step.             *)
(*                                                                         *)
(* One slot per process stands for its pool.  A restarted process is a new *)
(* one: it starts when the old one's worker row has aged out.              *)
(***************************************************************************)
EXTENDS Artifacts

VARIABLES
    ph,       \* the process: "off", "boot", "live" or "drain"
    sup,      \* its supervisor: "off", "standby", "leader" or "dead"
    scan,     \* the leader's scan: "no", "triage" or "sweep"
    behind,   \* the incident it has filed for and not queued again yet
    failed,   \* the failed jobs as the scan has read them: how each failed,
              \* "none" for those it does not list or has dealt with
    felled,   \* the job it is starting over, and what goes next
    lock,     \* holder of the advisory lock
    row,      \* its slot's row in workers: None, IdleRow or the job
    fresh,    \* the job advanced within the wedge threshold
    wedge     \* meta fleet_wedge_active

IdleRow == 0

Unlisted == [j \in Job |-> "none"]
Unfelled == [job |-> None, at |-> "no"]

scans == <<scan, behind, failed, felled>>
fvars == <<ph, sup, scans, lock, row, fresh, wedge>>
vars  == <<avars, fvars>>

FleetTypeOK ==
    /\ ArtifactTypeOK
    /\ ph \in [Proc -> {"off", "boot", "live", "drain"}]
    /\ sup \in [Proc -> {"off", "standby", "leader", "dead"}]
    /\ scan \in [Proc -> {"no", "triage", "sweep"}]
    /\ behind \in [Proc -> Incident \union {None}]
    /\ failed \in [Proc -> [Job -> {"none", "build", "gate"}]]
    /\ felled \in [Proc -> [job : Job \union {None}, at : {"no", "branch", "row"}]]
    /\ lock \in Proc \union {None}
    /\ row \in [Proc -> Job \union {None, IdleRow}]
    /\ fresh \in [Job -> BOOLEAN]
    /\ wedge \in BOOLEAN
    /\ \A p \in Proc : /\ sup[p] # "off" => ph[p] = "live"
                       /\ scan[p] # "no" => sup[p] = "leader"
                       /\ behind[p] # None => scan[p] = "triage"
                       /\ felled[p] # Unfelled => scan[p] = "triage" /\ felled[p].job # None
                       /\ slot[p] # Idle => ph[p] \in {"live", "drain"}

FleetInit ==
    /\ ArtifactInit
    /\ ph = [p \in Proc |-> "off"]
    /\ sup = [p \in Proc |-> "off"]
    /\ scan = [p \in Proc |-> "no"]
    /\ behind = [p \in Proc |-> None]
    /\ failed = [p \in Proc |-> Unlisted]
    /\ felled = [p \in Proc |-> Unfelled]
    /\ lock = None
    /\ row = [p \in Proc |-> None]
    /\ fresh = [j \in Job |-> TRUE]
    /\ wedge = FALSE

\* A save of a job's row renews its updated_at.
Touch == fresh' = [j \in Job |-> fresh[j] \/ status'[j] # status[j] \/ built'[j] # built[j]]

-----------------------------------------------------------------------------
(* Process *)

\* The startup sweep keeps the job ids read now; the workers wait for its end.
Boots(p) ==
    /\ ph[p] = "off" /\ row[p] = None
    /\ ph' = [ph EXCEPT ![p] = "boot"]
    /\ SweepBegins(p, Clone)
    /\ UNCHANGED <<rows, git, slot, trouble, sup, scans, lock, row, fresh, wedge>>

GoesLive(p) ==
    /\ ph[p] = "boot" /\ sweep[p].at = "no"
    /\ ph' = [ph EXCEPT ![p] = "live"]
    /\ sup' = [sup EXCEPT ![p] = "standby"]
    /\ row' = [row EXCEPT ![p] = IdleRow]
    /\ UNCHANGED <<avars, scans, lock, fresh, wedge>>

\* The scan and the collection of p are broken off.
BreaksOff(p) ==
    /\ scan' = [scan EXCEPT ![p] = "no"]
    /\ behind' = [behind EXCEPT ![p] = None]
    /\ failed' = [failed EXCEPT ![p] = Unlisted]
    /\ felled' = [felled EXCEPT ![p] = Unfelled]
    /\ sweep' = [sweep EXCEPT ![p] = NoSweep]

\* Mutant: the connection, and with it the lock, is kept open.
SupervisorStopsHolding(p) ==
    /\ sup' = [sup EXCEPT ![p] = "off"]
    /\ BreaksOff(p)
    /\ UNCHANGED lock

\* supervisor.stop: its tasks are cancelled and the lock is given back.
SupervisorStops(p) ==
    /\ sup' = [sup EXCEPT ![p] = "off"]
    /\ BreaksOff(p)
    /\ lock' = IF lock = p THEN None ELSE lock

\* SIGINT: the stage in flight is cancelled, its job left to its lease.
Stops(p) ==
    /\ ph[p] = "live"
    /\ Hit
    /\ SupervisorStops(p)
    /\ ph' = [ph EXCEPT ![p] = "off"]
    /\ row' = [row EXCEPT ![p] = None]
    /\ Frees(p)
    /\ UNCHANGED <<rows, git, fresh, wedge>>

\* SIGTERM or SIGUSR1: nothing is claimed any more.  Whoever waits on the
\* signals has returned then, so that a second SIGTERM changes nothing.
Drains(p) ==
    /\ ph[p] = "live"
    /\ Hit
    /\ SupervisorStops(p)
    /\ ph' = [ph EXCEPT ![p] = "drain"]
    /\ UNCHANGED <<rows, git, slot, row, fresh, wedge>>

\* The stage in flight has ended, or the drain's time is up and it is cancelled.
DrainEnds(p) ==
    /\ ph[p] = "drain"
    /\ slot[p] # Idle => Hit
    /\ slot[p] = Idle => UNCHANGED trouble
    /\ ph' = [ph EXCEPT ![p] = "off"]
    /\ row' = [row EXCEPT ![p] = None]
    /\ Frees(p)
    /\ UNCHANGED <<rows, git, sweep, sup, scans, lock, fresh, wedge>>

\* The process dies; its worker row stays until it has aged out.
Dies(p) ==
    /\ ph[p] # "off"
    /\ Hit
    /\ SupervisorStops(p)
    /\ ph' = [ph EXCEPT ![p] = "off"]
    /\ Frees(p)
    /\ UNCHANGED <<rows, git, row, fresh, wedge>>

Ages(p) ==
    /\ ph[p] = "off" /\ row[p] # None
    /\ row' = [row EXCEPT ![p] = None]
    /\ UNCHANGED <<avars, ph, sup, scans, lock, fresh, wedge>>

-----------------------------------------------------------------------------
(* Slot *)

Takes(p) ==
    /\ ph[p] = "live"
    /\ \E j \in Job : Claims(p, j) /\ row' = [row EXCEPT ![p] = j]
    /\ Touch
    /\ UNCHANGED <<ph, sup, scans, lock, wedge>>

Runs(p) ==
    /\ \/ Clears(p) \/ Creates(p) \/ Seeds(p) \/ Works(p) \/ GateFails(p) \/ Lands(p)
    /\ row' = [row EXCEPT ![p] = IF slot'[p] = Idle THEN IdleRow ELSE @]
    /\ Touch
    /\ UNCHANGED <<ph, sup, scans, lock, wedge>>

\* A stage never returns: the timeout's cancellation is lost with it, and the
\* heartbeat goes on.
Hangs(p) ==
    /\ "hang" \in Races
    /\ slot[p].at \in {"work", "gate"}
    /\ Hit
    /\ At(p, "hung")
    /\ UNCHANGED <<rows, git, sweep, fvars>>

\* The heartbeat writes a busy row again that the janitor had idled.
Beats(p) ==
    /\ slot[p] # Idle /\ row[p] # slot[p].job
    /\ row' = [row EXCEPT ![p] = slot[p].job]
    /\ UNCHANGED <<avars, ph, sup, scans, lock, fresh, wedge>>

\* Time passes for a job that nobody moves; explored while a slot hangs, which is
\* when the wedge check is to notice.
Stales(j) ==
    /\ \E p \in Proc : slot[p].at = "hung"
    /\ fresh[j] /\ status[j] \in Live
    /\ fresh' = [fresh EXCEPT ![j] = FALSE]
    /\ UNCHANGED <<avars, ph, sup, scans, lock, row, wedge>>

-----------------------------------------------------------------------------
(* Supervisor *)

Elects(p) ==
    /\ sup[p] = "standby" /\ lock = None
    /\ lock' = p
    /\ sup' = [sup EXCEPT ![p] = "leader"]
    /\ UNCHANGED <<avars, ph, scans, row, fresh, wedge>>

\* The leader's connection is lost: it does not look at the lock again.
LosesLock(p) ==
    /\ "lock_drop" \in Races
    /\ lock = p
    /\ Hit
    /\ lock' = None
    /\ UNCHANGED <<rows, git, slot, sweep, ph, sup, scans, row, fresh, wedge>>

\* A heartbeat that fails ends the election task; the connection, and with it
\* the lock, stays open.
ElectionEnds(p) ==
    /\ "beat_fails" \in Races
    /\ sup[p] \in {"standby", "leader"}
    /\ Hit
    /\ sup' = [sup EXCEPT ![p] = "dead"]
    /\ BreaksOff(p)
    /\ UNCHANGED <<rows, git, slot, ph, lock, row, fresh, wedge>>

\* The rows of executors whose job no longer runs are idled.
Reclaimed == [p \in Proc |-> IF row[p] \in Job /\ status[row[p]] # "RUNNING"
                             THEN IdleRow ELSE row[p]]

\* No idle executor, and the job that has waited longest did so for too long.
Wedged(r) ==
    /\ \E p \in Proc : r[p] # None
    /\ \A p \in Proc : r[p] # IdleRow
    /\ \E j \in Active : ~fresh[j]

\* A scan lists j, or is starting it over.
InScan(j) == \E p \in Proc : failed[p][j] # "none" \/ felled[p].job = j

\* A scan reads the failed jobs once and then works, for minutes where it asks
\* the analyst, on what it has read: a job that is brought back meanwhile is
\* started over under its own worker.  Without this schedule nobody brings back
\* a job that a scan lists, and a second scan leaves it to the first.
Unscanned(j) == "revive_in_scan" \in Races \/ ~InScan(j)

FailedRows ==
    [j \in Job |-> IF /\ status[j] = "FAILED" /\ ~closed[j]
                      /\ why[j] \in {"build", "gate"} /\ Unscanned(j)
                   THEN why[j] ELSE "none"]

ScanBegins(p) ==
    /\ sup[p] = "leader" /\ scan[p] = "no"
    /\ scan' = [scan EXCEPT ![p] = "triage"]
    /\ row' = Reclaimed
    /\ wedge' = Wedged(Reclaimed)
    /\ failed' = [failed EXCEPT ![p] = FailedRows]
    /\ UNCHANGED <<avars, ph, sup, behind, felled, lock, fresh>>

\* Between two jobs of its list.
Triages(p) == scan[p] = "triage" /\ behind[p] = None /\ felled[p] = Unfelled

Fells(p) ==
    /\ Triages(p)
    /\ \E j \in Job :
          /\ failed[p][j] = "build"
          /\ DropsTree(j)
          /\ failed' = [failed EXCEPT ![p][j] = "none"]
          /\ felled' = [felled EXCEPT ![p] = [job |-> j, at |-> "branch"]]
    /\ UNCHANGED <<ph, sup, scan, behind, lock, row, fresh, wedge>>

FellsBranch(p) ==
    /\ felled[p].at = "branch"
    /\ DropsBranch(felled[p].job)
    /\ felled' = [felled EXCEPT ![p].at = "row"]
    /\ UNCHANGED <<ph, sup, scan, behind, failed, lock, row, fresh, wedge>>

Restarts(p) ==
    /\ felled[p].at = "row"
    /\ Requeues(felled[p].job)
    /\ felled' = [felled EXCEPT ![p] = Unfelled]
    /\ Touch
    /\ UNCHANGED <<ph, sup, scan, behind, failed, lock, row, wedge>>

Fails(p) ==
    /\ Triages(p)
    /\ \E j \in Job, f \in Fix : Blocks(j, f)
    /\ Touch
    /\ UNCHANGED <<ph, sup, scans, lock, row, wedge>>

Remedies(p) == Fells(p) \/ FellsBranch(p) \/ Restarts(p) \/ Fails(p)

\* A wave is filed in one transaction, the incident queued behind it in another.
FilesWave(p) ==
    /\ Triages(p)
    /\ \E i \in Incident, W \in SUBSET Fix : \E deps \in Orders(W), last \in W :
          /\ failed[p][i] = "gate"
          /\ Files(i, W, deps, last)
          /\ failed' = [failed EXCEPT ![p][i] = "none"]
          /\ behind' = [behind EXCEPT ![p] = i]
    /\ Touch
    /\ UNCHANGED <<ph, sup, scan, felled, lock, row, wedge>>

QueuesBehind(p) ==
    /\ scan[p] = "triage" /\ behind[p] # None
    /\ status[behind[p]] = "FAILED" => Unscanned(behind[p])
    /\ Requeues(behind[p])
    /\ behind' = [behind EXCEPT ![p] = None]
    /\ Touch
    /\ UNCHANGED <<ph, sup, scan, failed, felled, lock, row, wedge>>

\* A worker looks at the dependents of a job that it finished, a leader at all.
Wakes(p) ==
    /\ ph[p] = "live"
    /\ \E j \in Job : Unblocks(j) /\ Unscanned(j)
    /\ Touch
    /\ UNCHANGED <<ph, sup, scans, lock, row, wedge>>

\* What is left of the list is left to a person.
Collects(p) ==
    /\ Triages(p)
    /\ scan' = [scan EXCEPT ![p] = "sweep"]
    /\ failed' = [failed EXCEPT ![p] = Unlisted]
    /\ SweepBegins(p, None)
    /\ UNCHANGED <<rows, git, slot, trouble, ph, sup, behind, felled, lock, row, fresh, wedge>>

Sweeps(p) ==
    /\ \/ SweepsBranch(p) \/ SweepsTree(p)
    /\ UNCHANGED fvars

ScanEnds(p) ==
    /\ scan[p] = "sweep" /\ sweep[p].at = "no"
    /\ scan' = [scan EXCEPT ![p] = "no"]
    /\ UNCHANGED <<avars, ph, sup, behind, failed, felled, lock, row, fresh, wedge>>

-----------------------------------------------------------------------------

Operator(j) ==
    /\ \/ Cancel(j) \/ Archive(j) \/ Expires(j)
       \/ Retry(j) /\ Unscanned(j)
    /\ Touch
    /\ UNCHANGED <<ph, sup, scans, lock, row, wedge>>

FleetStep(p) ==
    \/ Boots(p) \/ GoesLive(p) \/ Stops(p) \/ Drains(p) \/ DrainEnds(p)
    \/ Dies(p) \/ Ages(p)
    \/ Takes(p) \/ Runs(p) \/ Hangs(p) \/ Beats(p)
    \/ Elects(p) \/ LosesLock(p) \/ ElectionEnds(p)
    \/ ScanBegins(p) \/ Remedies(p) \/ FilesWave(p) \/ QueuesBehind(p) \/ Wakes(p)
    \/ Collects(p) \/ Sweeps(p) \/ ScanEnds(p)

FleetNext ==
    \/ \E p \in Proc : FleetStep(p)
    \/ \E j \in Job : Operator(j) \/ Stales(j)

FleetSpec == FleetInit /\ [][FleetNext]_vars

\* Processes run on: systemd starts them again, the startup sweep and the
\* election come to their next step.
FleetFairSpec ==
    /\ FleetSpec
    /\ \A p \in Proc : /\ WF_vars(Boots(p)) /\ WF_vars(GoesLive(p))
                       /\ WF_vars(Sweeps(p)) /\ WF_vars(Ages(p))
                       /\ WF_vars(Elects(p)) /\ WF_vars(DrainEnds(p) /\ slot[p] = Idle)

-----------------------------------------------------------------------------

\* However old the reading of the job table that a collection works from, and
\* whatever becomes of the incident meanwhile: the commit that a live remediation
\* has yet to take over stays on the branch it was recorded with, until a person
\* gives the incident up or the incident's own next build replaces it.
SourceKept ==
    [][\A f \in Fix : LET i == source[f].job IN
          /\ status[f] \in Live /\ source[f].sha # None /\ ~source[f].captured
          /\ Seedable(f) /\ ~Seedable(f)'
          /\ status[i] # "CANCELLED" /\ ~closed[i] /\ ~closed'[i]
          => \E p \in Proc : slot[p].job = i /\ slot[p].at \in {"create", "gate"}]_vars

\* The worktree of a job that waits for a stage or is in one goes only by the
\* hand of the slot that runs the job: no collection takes it, and no scan that
\* starts a failed job over - as long as nobody brings a job back that one of
\* them has on its list.
TreeKept ==
    [][\A j \in Job :
          /\ tree[j] = "here" /\ tree'[j] # "here"
          /\ status[j] \in Live
          => \E p \in Proc : slot[p].job = j /\ slot[p].at \in {"clear", "gate"}]_vars

\* However its leader went - stopped, drained, dead - the fleet gets another one,
\* unless the task of a leader ended on a heartbeat that failed: the lock is
\* still held then, and nobody leads.
LeaderReturns ==
    []<>(\/ \E p \in Proc : sup[p] = "leader"
         \/ \E p \in Proc : sup[p] = "dead"
         \/ \E p \in Proc : slot[p] # Idle /\ ph[p] = "drain")

\* What the documentation of the hung slot's backstop says: a fleet in which no
\* slot can take a job and none moves is alerted on by the scan that sees it.
WedgeSeen ==
    [][\A p \in Proc :
          /\ ScanBegins(p)
          /\ \E q \in Proc : ph[q] = "live"
          /\ \A q \in Proc : row[q] # None => slot[q].at = "hung"
          /\ Active # {} /\ \A j \in Active : ~fresh[j]
          => wedge']_vars

=============================================================================
