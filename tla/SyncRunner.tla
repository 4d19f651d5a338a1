----------------------------- MODULE SyncRunner ------------------------------
(***************************************************************************)
(* One sync run: class SyncRunner of src/sshsync/runner.py and the backend *)
(* processes it streams (src/sshsync/executor.py).                         *)
(*                                                                         *)
(* The main thread probes the servers, writes one temporary rclone config  *)
(* per server, starts the source walks and one worker thread per lane, and *)
(* polls until every lane has ended.  A lane runs its jobs one after the   *)
(* other; before each it waits until the jobs of other lanes it depends on *)
(* have set their done event.  Any thread may call cancel() at any time.   *)
(*                                                                         *)
(* Every lane, every caller of cancel() and the main thread has a program  *)
(* counter; a step is what the code does between two points at which       *)
(* another thread can see or change the shared state.                      *)
(***************************************************************************)
EXTENDS Planner

CONSTANTS
    Cancellers,         \* threads that may call cancel(), once each
    MainThread,         \* the thread inside run(), which cancels on Ctrl+C
    MaxSizingWorkers    \* size of the pool that walks source trees

ASSUME RunnerAssumption ==
    /\ MainThread \notin Cancellers
    /\ MaxSizingWorkers \in Nat \ {0}

Callers == Cancellers \cup {MainThread}

VARIABLES
    jobs,       \* self.jobs: the plan of this run, never changed
    phase,      \* where the main thread is inside run()
    configs,    \* servers whose temporary rclone config exists on disk
    walking,    \* source trees whose size is not known yet
    status,     \* job_states[i]["status"]
    done,       \* jobs whose done event is set
    lpc,        \* where each lane's worker thread is
    cur,        \* the last job each lane took, 0 before the first
    backend,    \* each job's backend process
    active,     \* _active_processes, by job
    killed,     \* jobs whose process terminate() was called on
    failures,   \* _failures, by job
    recorded,   \* what append_job_stats wrote for this run
    cancelled,  \* _cancel_event
    cpc,        \* where each caller of cancel() is
    toKill      \* each caller's copy of _active_processes

mainVars == <<jobs, phase, configs>>
laneVars == <<lpc, cur, done>>
procVars == <<backend, active>>
cancelVars == <<cancelled, cpc, toKill>>
vars == <<mainVars, walking, status, laneVars, procVars, killed,
          failures, recorded, cancelVars>>

Jobs == Index(jobs)
Lanes == PlanLanes(jobs)
Sources == {jobs[i].source : i \in Jobs}

Phases == {"new", "configuring", "polling", "interrupted", "finished", "raised"}
Statuses == {"PENDING", "RUNNING", "OK", "FAIL", "SKIPPED", "CANCELLED"}
LanePCs == {"idle", "next", "waiting", "timed_out", "building", "spawned",
            "streaming", "exited", "recording", "closed", "errored"}
CallerPCs == {"outside", "flagged", "terminating", "returned"}

(* _mark_offline_jobs: a job is runnable unless it was skipped.            *)
Runnable == {i \in Jobs : status[i] # "SKIPPED"}

(* Jobs for whose server _create_rclone_configs still has to write a config.*)
Unconfigured ==
    {i \in Runnable : jobs[i].type = "rclone" /\ jobs[i].server \notin configs}

Ended(lane) == lpc[lane] \in {"closed", "errored"}
Over == phase \in {"finished", "raised"}

(* The sizing pool takes the sources in the order the jobs name them.      *)
FirstUse(s) == CHOOSE i \in Jobs : /\ jobs[i].source = s
                                   /\ \A k \in 1 .. (i - 1) : jobs[k].source # s
BeingWalked(s) ==
    Cardinality({t \in walking : FirstUse(t) < FirstUse(s)}) < MaxSizingWorkers

------------------------------------------------------------------------------
Init ==
    /\ jobs \in Plans
    /\ phase = "new"
    /\ configs = {}
    /\ walking = {}
    /\ status = [i \in Jobs |-> "PENDING"]
    /\ done = {}
    /\ lpc = [l \in LaneKeys |-> "idle"]
    /\ cur = [l \in LaneKeys |-> 0]
    /\ backend = [i \in Jobs |-> "none"]
    /\ active = {}
    /\ killed = {}
    /\ failures = {}
    /\ recorded = {}
    /\ cancelled = FALSE
    /\ cpc = [c \in Callers |-> "outside"]
    /\ toKill = [c \in Callers |-> {}]

------------------------------------------------------------------------------
(* The main thread.                                                        *)

(* run_started, _check_servers and _mark_offline_jobs: any subset of the   *)
(* required servers may turn out to be offline.  With nothing left to run  *)
(* the run finishes at once.                                               *)
ProbeServers ==
    /\ phase = "new"
    /\ \E offline \in SUBSET RequiredServers(jobs) :
        /\ status' = [i \in Jobs |->
                        IF jobs[i].type = "rclone" /\ jobs[i].server \in offline
                        THEN "SKIPPED" ELSE "PENDING"]
        /\ phase' = IF \A i \in Jobs : status'[i] = "SKIPPED"
                    THEN "finished" ELSE "configuring"
    /\ UNCHANGED <<jobs, configs, walking, laneVars, procVars, killed,
                   failures, recorded, cancelVars>>

(* Ctrl+C arrives meanwhile: the exception leaves run().                   *)
ProbeRaises ==
    /\ phase = "new"
    /\ phase' = "raised"
    /\ UNCHANGED <<jobs, configs, walking, status, laneVars, procVars, killed,
                   failures, recorded, cancelVars>>

CreateConfig ==
    /\ phase = "configuring"
    /\ \E i \in Unconfigured :
        /\ \A k \in Unconfigured : i <= k
        /\ jobs[i].server # NoServer
        /\ configs' = configs \cup {jobs[i].server}
    /\ UNCHANGED <<jobs, phase, walking, status, laneVars, procVars, killed,
                   failures, recorded, cancelVars>>

(* The server is unknown, create_temp_rclone_config raises, or Ctrl+C      *)
(* arrives: the exception leaves run().                                    *)
ConfigRaises ==
    /\ phase = "configuring"
    /\ Unconfigured # {}
    /\ phase' = "raised"
    /\ UNCHANGED <<jobs, configs, walking, status, laneVars, procVars, killed,
                   failures, recorded, cancelVars>>

(* _start_source_sizing, then one pool thread per lane.                    *)
StartLanes ==
    /\ phase = "configuring"
    /\ Unconfigured = {}
    /\ phase' = "polling"
    /\ walking' = Sources
    /\ lpc' = [l \in LaneKeys |-> IF l \in Lanes THEN "next" ELSE "idle"]
    /\ UNCHANGED <<jobs, configs, status, done, cur, procVars, killed,
                   failures, recorded, cancelVars>>

(* Ctrl+C while polling: the handler's self.cancel() has set the event.    *)
(* A run belongs to the command line, whose main thread is interrupted, or *)
(* to the web server, whose threads call cancel(); not to both.            *)
Interrupt ==
    /\ phase = "polling"
    /\ ~cancelled
    /\ phase' = "interrupted"
    /\ cancelled' = TRUE
    /\ cpc' = [cpc EXCEPT ![MainThread] = "flagged"]
    /\ UNCHANGED <<jobs, configs, walking, status, laneVars, procVars, killed,
                   failures, recorded, toKill>>

(* Seeded fault: the pool is shut down without waiting for its threads.    *)
CloseRun_NoJoin ==
    /\ phase = "polling"
    /\ phase' = "finished"
    /\ configs' = {}
    /\ UNCHANGED <<jobs, walking, status, laneVars, procVars, killed,
                   failures, recorded, cancelVars>>

(* The finally block, and _finish unless an exception is on its way out.   *)
(* A walk a pool thread has begun cannot be called off; the queued ones    *)
(* are cancelled, which reports them as 0 bytes.                           *)
CloseRun ==
    /\ \/ phase = "polling" /\ phase' = "finished"
       \/ /\ phase = "interrupted" /\ phase' = "raised"
          /\ cpc[MainThread] = "returned"
    /\ \A l \in Lanes : Ended(l)
    /\ walking' = {s \in walking : BeingWalked(s)}
    /\ configs' = {}
    /\ UNCHANGED <<jobs, status, laneVars, procVars, killed,
                   failures, recorded, cancelVars>>

(* A walk ends: its callback fills source_bytes and emits job_updated.     *)
SizeKnown(s) ==
    /\ s \in walking
    /\ BeingWalked(s)
    /\ walking' = walking \ {s}
    /\ UNCHANGED <<mainVars, status, laneVars, procVars, killed,
                   failures, recorded, cancelVars>>

------------------------------------------------------------------------------
(* A lane: _run_lane, _wait_for_dependencies and _run_job.                 *)

(* Seeded fault: a lane goes through the jobs of every lane.               *)
Later_AnyLane(l) == {i \in Runnable : i > cur[l]}

Later(l) == {i \in LaneJobs(jobs, l) \cap Runnable : i > cur[l]}

GoTo(l, pc) == lpc' = [lpc EXCEPT ![l] = pc]

(* Seeded fault: only the job the lane was at is marked done.              *)
EndLane_CurrentOnly(l, pc) ==
    /\ GoTo(l, pc)
    /\ done' = done \cup {cur[l]}

(* The lane's thread ends.  Its outer finally sets the done event of every *)
(* job it has not reached: no other lane is left waiting for one of them.  *)
EndLane(l, pc) ==
    /\ GoTo(l, pc)
    /\ done' = done \cup LaneJobs(jobs, l)

TakeJob(l) ==
    /\ lpc[l] = "next"
    /\ ~cancelled
    /\ \E i \in Later(l) :
        /\ \A k \in Later(l) : i <= k
        /\ cur' = [cur EXCEPT ![l] = i]
    /\ GoTo(l, "waiting")
    /\ UNCHANGED <<mainVars, walking, status, done, procVars, killed,
                   failures, recorded, cancelVars>>

(* The lane has no job left, or sees the cancel event before the next one. *)
StopTaking(l) ==
    /\ lpc[l] = "next"
    /\ cancelled \/ Later(l) = {}
    /\ EndLane(l, "closed")
    /\ UNCHANGED <<mainVars, walking, status, cur, procVars, killed,
                   failures, recorded, cancelVars>>

WaitTimesOut(l) ==
    /\ lpc[l] = "waiting"
    /\ ~ Dependencies(jobs, cur[l]) \subseteq done
    /\ GoTo(l, "timed_out")
    /\ UNCHANGED <<mainVars, walking, status, cur, done, procVars, killed,
                   failures, recorded, cancelVars>>

(* The event is looked at only after a wait that timed out.                *)
LookAtCancel(l) ==
    /\ lpc[l] = "timed_out"
    /\ IF cancelled THEN EndLane(l, "closed")
                    ELSE GoTo(l, "waiting") /\ UNCHANGED done
    /\ UNCHANGED <<mainVars, walking, status, cur, procVars, killed,
                   failures, recorded, cancelVars>>

(* Seeded fault: one prerequisite is enough.                               *)
BeginJob_AnyPrerequisite(l) ==
    /\ lpc[l] = "waiting"
    /\ Dependencies(jobs, cur[l]) # {} => Dependencies(jobs, cur[l]) \cap done # {}
    /\ status' = [status EXCEPT ![cur[l]] = "RUNNING"]
    /\ GoTo(l, "building")
    /\ UNCHANGED <<mainVars, walking, cur, done, procVars, killed,
                   failures, recorded, cancelVars>>

BeginJob(l) ==
    /\ lpc[l] = "waiting"
    /\ Dependencies(jobs, cur[l]) \subseteq done
    /\ status' = [status EXCEPT ![cur[l]] = "RUNNING"]
    /\ GoTo(l, "building")
    /\ UNCHANGED <<mainVars, walking, cur, done, procVars, killed,
                   failures, recorded, cancelVars>>

(* Seeded fault: the main thread does not look at future.exception().      *)
JobRaises_Swallowed(l) ==
    /\ lpc[l] = "building"
    /\ EndLane(l, "closed")
    /\ UNCHANGED <<mainVars, walking, status, cur, procVars, killed,
                   failures, recorded, cancelVars>>

(* Profiling, build_job_command or Popen raises (a pinned option that is   *)
(* not a number, a missing executable), or append_job_stats does (a full   *)
(* disk).  The lane's future keeps the exception.                          *)
JobRaises(l) ==
    /\ \/ lpc[l] = "building"
       \/ lpc[l] = "recording" /\ jobs[cur[l]].source \notin walking
    /\ EndLane(l, "errored")
    /\ UNCHANGED <<mainVars, walking, status, cur, procVars, killed,
                   failures, recorded, cancelVars>>

Spawn(l) ==
    /\ lpc[l] = "building"
    /\ backend' = [backend EXCEPT ![cur[l]] = "alive"]
    /\ GoTo(l, "spawned")
    /\ UNCHANGED <<mainVars, walking, status, cur, done, active, killed,
                   failures, recorded, cancelVars>>

(* Seeded fault: the cancel event is not read again after registering.     *)
Register_NoRecheck(l) ==
    /\ lpc[l] = "spawned"
    /\ active' = active \cup {cur[l]}
    /\ GoTo(l, "streaming")
    /\ UNCHANGED <<mainVars, walking, status, cur, done, backend, killed,
                   failures, recorded, cancelVars>>

(* _track_process(process, True): under the lock the process is registered *)
(* and the cancel event read; if it is set the process is terminated here. *)
Register(l) ==
    /\ lpc[l] = "spawned"
    /\ active' = active \cup {cur[l]}
    /\ killed' = IF cancelled THEN killed \cup {cur[l]} ELSE killed
    /\ GoTo(l, "streaming")
    /\ UNCHANGED <<mainVars, walking, status, cur, done, backend,
                   failures, recorded, cancelVars>>

(* External: the backend process ends by itself or because it was told to. *)
(* A terminated robocopy leaves an exit code below 8, so even a killed     *)
(* backend may look successful.                                            *)
BackendExits(i) ==
    /\ i \in Jobs
    /\ backend[i] = "alive"
    /\ \E code \in {"good", "bad"} : backend' = [backend EXCEPT ![i] = code]
    /\ UNCHANGED <<mainVars, walking, status, laneVars, active, killed,
                   failures, recorded, cancelVars>>

(* Seeded fault: backends inherit each other's pipes, so the output ends   *)
(* with the last of them.                                                  *)
Reap_SharedPipes(l) ==
    /\ lpc[l] = "streaming"
    /\ \A i \in active : backend[i] \in {"good", "bad"}
    /\ active' = active \ {cur[l]}
    /\ GoTo(l, "exited")
    /\ UNCHANGED <<mainVars, walking, status, cur, done, backend, killed,
                   failures, recorded, cancelVars>>

(* The output is exhausted and the process reaped: _track_process(_, False).*)
Reap(l) ==
    /\ lpc[l] = "streaming"
    /\ backend[cur[l]] \in {"good", "bad"}
    /\ active' = active \ {cur[l]}
    /\ GoTo(l, "exited")
    /\ UNCHANGED <<mainVars, walking, status, cur, done, backend, killed,
                   failures, recorded, cancelVars>>

(* A cancelled run returns here: no failure log and no history record.     *)
JudgeCancelled(l) ==
    /\ lpc[l] = "exited"
    /\ cancelled
    /\ status' = [status EXCEPT ![cur[l]] = "CANCELLED"]
    /\ done' = done \cup {cur[l]}
    /\ GoTo(l, "next")
    /\ UNCHANGED <<mainVars, walking, cur, procVars, killed,
                   failures, recorded, cancelVars>>

(* Seeded fault: the exit code is judged before the cancel event.          *)
Judge_ExitCodeFirst(l) ==
    /\ lpc[l] = "exited"
    /\ backend[cur[l]] = "good"
    /\ status' = [status EXCEPT ![cur[l]] = "OK"]
    /\ GoTo(l, "recording")
    /\ UNCHANGED <<mainVars, walking, cur, done, procVars, killed,
                   failures, recorded, cancelVars>>

Judge(l) ==
    /\ lpc[l] = "exited"
    /\ ~cancelled
    /\ LET failed == backend[cur[l]] = "bad" IN
        /\ status' = [status EXCEPT ![cur[l]] = IF failed THEN "FAIL" ELSE "OK"]
        /\ failures' = IF failed THEN failures \cup {cur[l]} ELSE failures
    /\ GoTo(l, "recording")
    /\ UNCHANGED <<mainVars, walking, cur, done, procVars, killed,
                   recorded, cancelVars>>

(* _resolve_source_bytes blocks until the walk of the source has ended.    *)
Record(l) ==
    /\ lpc[l] = "recording"
    /\ jobs[cur[l]].source \notin walking
    /\ recorded' = recorded \cup {<<cur[l], status[cur[l]]>>}
    /\ done' = done \cup {cur[l]}
    /\ GoTo(l, "next")
    /\ UNCHANGED <<mainVars, walking, status, cur, procVars, killed,
                   failures, cancelVars>>

------------------------------------------------------------------------------
(* cancel(), on any thread.                                                *)

SetCancel(c) ==
    /\ c \in Cancellers
    /\ cpc[c] = "outside"
    /\ cpc[MainThread] = "outside"
    /\ cancelled' = TRUE
    /\ cpc' = [cpc EXCEPT ![c] = "flagged"]
    /\ UNCHANGED <<mainVars, walking, status, laneVars, procVars, killed,
                   failures, recorded, toKill>>

CopyActive(c) ==
    /\ cpc[c] = "flagged"
    /\ toKill' = [toKill EXCEPT ![c] = active]
    /\ cpc' = [cpc EXCEPT ![c] = "terminating"]
    /\ UNCHANGED <<mainVars, walking, status, laneVars, procVars, killed,
                   failures, recorded, cancelled>>

Terminate(c) ==
    /\ cpc[c] = "terminating"
    /\ \E i \in toKill[c] :
        /\ killed' = killed \cup {i}
        /\ toKill' = [toKill EXCEPT ![c] = @ \ {i}]
    /\ UNCHANGED <<mainVars, walking, status, laneVars, procVars,
                   failures, recorded, cancelled, cpc>>

CancelReturns(c) ==
    /\ cpc[c] = "terminating"
    /\ toKill[c] = {}
    /\ cpc' = [cpc EXCEPT ![c] = "returned"]
    /\ UNCHANGED <<mainVars, walking, status, laneVars, procVars, killed,
                   failures, recorded, cancelled, toKill>>

------------------------------------------------------------------------------
MainStep ==
    \/ ProbeServers \/ ProbeRaises
    \/ CreateConfig \/ ConfigRaises
    \/ StartLanes
    \/ CloseRun

LaneStep(l) ==
    \/ TakeJob(l) \/ StopTaking(l)
    \/ WaitTimesOut(l) \/ LookAtCancel(l) \/ BeginJob(l)
    \/ Spawn(l) \/ Register(l) \/ Reap(l)
    \/ JudgeCancelled(l) \/ Judge(l) \/ Record(l)
    \/ JobRaises(l)

CancelStep(c) == CopyActive(c) \/ Terminate(c) \/ CancelReturns(c)

(* Nothing is left to do once the run is over.                             *)
Rest ==
    /\ Over
    /\ UNCHANGED vars

Next ==
    \/ MainStep
    \/ Interrupt
    \/ \E l \in LaneKeys : LaneStep(l)
    \/ \E i \in Jobs : BackendExits(i)
    \/ \E s \in Sources : SizeKnown(s)
    \/ \E c \in Callers : SetCancel(c) \/ CancelStep(c)
    \/ Rest

Spec == Init /\ [][Next]_vars

------------------------------------------------------------------------------
(* Fairness.  Threads are scheduled by the operating system, so a thread   *)
(* that can take a step takes one; a walk of a directory tree ends; and a  *)
(* process on which terminate() was called goes away.  Nothing is assumed  *)
(* of a backend left alone, of Ctrl+C or of a caller of cancel().          *)

PlanIndexes == UNION {Index(plan) : plan \in Plans}
PlanSources == UNION {{plan[i].source : i \in Index(plan)} : plan \in Plans}

KilledBackendExits(i) == i \in killed /\ BackendExits(i)

Fairness ==
    /\ WF_vars(MainStep)
    /\ \A l \in LaneKeys : WF_vars(LaneStep(l))
    /\ \A c \in Callers : WF_vars(CancelStep(c))
    /\ \A i \in PlanIndexes : WF_vars(KilledBackendExits(i))
    /\ \A s \in PlanSources : WF_vars(SizeKnown(s))

FairSpec == Spec /\ Fairness

------------------------------------------------------------------------------
(* Properties.                                                             *)

TypeOK ==
    /\ jobs \in Plans
    /\ phase \in Phases
    /\ configs \subseteq Servers
    /\ walking \subseteq Sources
    /\ status \in [Jobs -> Statuses]
    /\ done \subseteq Jobs
    /\ lpc \in [LaneKeys -> LanePCs]
    /\ cur \in [LaneKeys -> Nat]
    /\ \A l \in LaneKeys : cur[l] # 0 => cur[l] \in LaneJobs(jobs, l)
    /\ backend \in [Jobs -> {"none", "alive", "good", "bad"}]
    /\ active \subseteq Jobs
    /\ killed \subseteq Jobs
    /\ failures \subseteq Jobs
    /\ recorded \subseteq Jobs \X Statuses
    /\ cancelled \in BOOLEAN
    /\ cpc \in [Callers -> CallerPCs]
    /\ toKill \in [Callers -> SUBSET Jobs]

WorkPCs == {"building", "spawned", "streaming", "exited", "recording"}

(* A lane is inside _run_job for job i.                                    *)
AtWork(i) ==
    /\ cur[LaneOf(jobs, i)] = i
    /\ lpc[LaneOf(jobs, i)] \in WorkPCs

Started(i) == status[i] \notin {"PENDING", "SKIPPED"}

(* Two jobs that touch the same local tree, one of them writing, are never *)
(* both inside _run_job: no backend reads a tree another is writing,       *)
(* whatever the lanes, failures and cancellations do                       *)
(* (build_job_dependencies, _wait_for_dependencies and the done events).   *)
NoOverlap ==
    \A i, k \in Jobs :
        i < k /\ Contend(jobs[i], jobs[k]) => ~ (AtWork(i) /\ AtWork(k))

ScheduleState ==
    [i \in Jobs |-> IF i \in done THEN "over"
                    ELSE IF Started(i) THEN "working" ELSE "waiting"]

Schedule == INSTANCE JobSchedule WITH state <- ScheduleState

(* The lanes and done events implement the schedule: contending jobs start *)
(* in config order, each only after the earlier ones are over, and a job   *)
(* whose done event is set is never started again.                         *)
ImplementsSchedule == Schedule!SSpec

(* Once cancel() has set the event, every registered backend has been told *)
(* to stop, or some caller still will tell it: a process that starts while *)
(* cancel() runs is caught by the second look in _track_process.           *)
CancelReachesBackends ==
    cancelled =>
        \A i \in active \ killed :
            \E c \in Callers : \/ cpc[c] = "flagged"
                               \/ cpc[c] = "terminating" /\ i \in toKill[c]

(* A job whose backend cancel() terminated is never judged by its exit     *)
(* code, so neither the failures nor the history blame a backend for being *)
(* stopped (the order of set() and terminate() against the check after     *)
(* stream_command).                                                        *)
KilledIsNotJudged == \A i \in killed : status[i] \notin {"OK", "FAIL"}

(* A job that comes after one a cancel cut short is never reported OK or   *)
(* FAIL, although the done event of the one cut short lets it start: the   *)
(* event of the cancel is looked at again before a job is judged           *)
(* (_wait_for_dependencies, the check after stream_command).               *)
CutShortIsNotBuiltOn ==
    \A i, k \in Jobs :
        i < k /\ Contend(jobs[i], jobs[k]) /\ status[i] = "CANCELLED"
            => status[k] \notin {"OK", "FAIL"}

(* A backend process lives only inside its lane's _run_job, within run(),  *)
(* and an rclone process always finds the temporary config it was given:   *)
(* the finally block of run() deletes it after the last lane has ended.    *)
BackendInsideRun ==
    \A i \in Jobs : backend[i] = "alive" =>
        /\ AtWork(i)
        /\ phase \in {"polling", "interrupted"}
        /\ jobs[i].type = "rclone" => jobs[i].server \in configs

LaneErrored(i) == lpc[LaneOf(jobs, i)] = "errored"

(* When run_finished is emitted every job is accounted for: one that was   *)
(* not run, or has no outcome, is explained by a cancel or by an error of  *)
(* its lane; the failures are those of the job states; and the history     *)
(* says of each job what the result says.                                  *)
EveryJobAccounted ==
    phase = "finished" =>
        \A i \in Jobs :
            /\ status[i] = "PENDING" => cancelled \/ LaneErrored(i)
            /\ status[i] = "RUNNING" => LaneErrored(i)
            /\ status[i] = "CANCELLED" => cancelled
            /\ status[i] \in {"OK", "FAIL"} =>
                   <<i, status[i]>> \in recorded \/ LaneErrored(i)
            /\ status[i] = "FAIL" <=> i \in failures
            /\ \A s \in Statuses : <<i, s>> \in recorded => s = status[i]

(* A cancelled run ends, even if no backend would have ended by itself:    *)
(* every lane gets past its wait, its backend or its next job, and run()   *)
(* returns or raises.                                                      *)
CancelEndsRun == cancelled ~> Over

(* If no backend stays alive for ever the run ends: no wait for a done     *)
(* event is left unanswered, whatever jobs raise, fail or are skipped.     *)
RunEnds ==
    (\A i \in PlanIndexes : []<>(i \in Jobs => backend[i] # "alive")) => <>Over

(* A job whose backend has exited gets over, though other backends may run *)
(* for ever: the walk its record waits for comes up in the sizing pool     *)
(* behind those of other jobs, and no cancel calls it off while the lane   *)
(* waits (_resolve_source_bytes, _start_source_sizing).                    *)
JobsSettle ==
    \A i \in PlanIndexes :
        (i \in Jobs /\ backend[i] \in {"good", "bad"}) ~> (i \in done)
==============================================================================
