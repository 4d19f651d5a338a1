-------------------------- MODULE SyncRunnerProofs ---------------------------
(***************************************************************************)
(* What holds of SyncRunner for every set of servers, every plan, any      *)
(* number of callers of cancel() and any pool size.                        *)
(***************************************************************************)
EXTENDS SyncRunner, TLAPS

------------------------------------------------------------------------------
(* The inductive invariant.                                                *)

BusyPCs == {"waiting", "timed_out"} \cup WorkPCs

(* The lanes start only once the setup is over.                            *)
IdleBeforeStart ==
    phase \in {"new", "configuring"} =>
        \A l \in LaneKeys : lpc[l] = "idle" /\ cur[l] = 0

(* An offline server takes all the jobs of its lane with it.               *)
SkippedByLane ==
    \A i, k \in Jobs : LaneOf(jobs, i) = LaneOf(jobs, k) =>
        (status[i] = "SKIPPED" <=> status[k] = "SKIPPED")

(* The job a lane is busy with is one of its own, and runnable.            *)
BusyWithOwnJob ==
    \A l \in LaneKeys : lpc[l] \in BusyPCs =>
        cur[l] \in LaneJobs(jobs, l) /\ cur[l] \in Runnable

(* Until its lane has ended, a job is done exactly when the lane passed it.*)
Passed(l, i) == i < cur[l] \/ (i = cur[l] /\ lpc[l] \notin BusyPCs)
LaneOrder ==
    \A l \in LaneKeys : ~ Ended(l) =>
        \A i \in LaneJobs(jobs, l) :
            /\ i \in done => Passed(l, i)
            /\ i \in Runnable /\ Passed(l, i) => i \in done

(* The job state follows the lane.                                         *)
StatusOfWork ==
    \A l \in LaneKeys :
        /\ lpc[l] \in WorkPCs \ {"recording"} => status[cur[l]] = "RUNNING"
        /\ lpc[l] = "recording" => status[cur[l]] \in {"OK", "FAIL"}

(* A started job found every earlier contender over.                       *)
StartedInOrder ==
    \A i, k \in Jobs :
        i < k /\ Contend(jobs[i], jobs[k]) /\ Started(k) => i \in done

IInv ==
    /\ TypeOK
    /\ IdleBeforeStart
    /\ SkippedByLane
    /\ BusyWithOwnJob
    /\ LaneOrder
    /\ StatusOfWork
    /\ StartedInOrder

------------------------------------------------------------------------------
(* Lemmas about plans.                                                     *)

LEMMA IndexesAreNaturals ==
    ASSUME NEW plan \in Plans
    PROVE  Index(plan) \subseteq Nat \ {0}
<1>1. plan \in Seq(Job)
  BY PlannerAssumption
<1>2. Len(plan) \in Nat
  BY <1>1
<1> QED
  BY <1>2 DEF Index

LEMMA JobHasLaneKey ==
    ASSUME NEW plan \in Plans, NEW i \in Index(plan)
    PROVE  /\ LaneOf(plan, i) \in LaneKeys
           /\ i \in LaneJobs(plan, LaneOf(plan, i))
           /\ plan[i] \in Job
<1>1. plan \in Seq(Job)
  BY PlannerAssumption
<1>2. plan[i] \in Job
  BY <1>1 DEF Index
<1>3. LaneKey(plan[i]) \in LaneKeys
  BY <1>2 DEF LaneKey, LaneKeys, Job
<1> QED
  BY <1>2, <1>3 DEF LaneOf, LaneJobs

(* A job belongs to one lane only.                                         *)
LEMMA LaneJobsDisjoint ==
    ASSUME NEW plan, NEW l, NEW m, NEW i \in LaneJobs(plan, l), i \in LaneJobs(plan, m)
    PROVE  /\ l = m
           /\ l = LaneOf(plan, i)
           /\ i \in Index(plan)
  BY DEF LaneJobs

LEMMA InitInvariant == Init => IInv
<1> SUFFICES ASSUME Init
             PROVE  IInv
  OBVIOUS
<1>1. jobs \in Plans /\ Jobs \subseteq Nat \ {0}
  BY IndexesAreNaturals DEF Init, Jobs
<1>2. TypeOK
  BY <1>1 DEF Init, TypeOK, Phases, Statuses, LanePCs, CallerPCs
<1>3. IdleBeforeStart /\ SkippedByLane
  BY DEF Init, IdleBeforeStart, SkippedByLane
<1>4. BusyWithOwnJob /\ StatusOfWork
  BY DEF Init, BusyWithOwnJob, StatusOfWork, BusyPCs, WorkPCs
<1>5. LaneOrder
  <2> SUFFICES ASSUME NEW l \in LaneKeys, NEW i \in LaneJobs(jobs, l)
               PROVE  i \notin done /\ ~ Passed(l, i)
    BY DEF LaneOrder
  <2>1. i \in Jobs
    BY LaneJobsDisjoint DEF Jobs
  <2> QED
    BY <1>1, <2>1 DEF Init, Passed
<1>6. StartedInOrder
  BY DEF Init, StartedInOrder, Started
<1> QED
  BY <1>2, <1>3, <1>4, <1>5, <1>6 DEF IInv

------------------------------------------------------------------------------
(* Every step keeps the plan.                                              *)

LEMMA PlanFixed ==
    ASSUME [Next]_vars
    PROVE  /\ jobs' = jobs
           /\ Jobs' = Jobs
           /\ Sources' = Sources
<1>1. jobs' = jobs
  BY DEF Next, MainStep, LaneStep, CancelStep, Rest, ProbeServers, ProbeRaises, CreateConfig, ConfigRaises,
         StartLanes, CloseRun, Interrupt, SizeKnown, TakeJob, StopTaking, WaitTimesOut,
         LookAtCancel, BeginJob, Spawn, Register, Reap, JudgeCancelled, Judge, Record,
         JobRaises, BackendExits, SetCancel, CopyActive, Terminate, CancelReturns,
         vars, mainVars
<1> QED
  BY <1>1 DEF Jobs, Sources

LEMMA TypeStep == IInv /\ [Next]_vars => TypeOK'
<1> SUFFICES ASSUME IInv, [Next]_vars
             PROVE  TypeOK'
  OBVIOUS
<1> USE DEF IInv, Phases, Statuses, LanePCs, CallerPCs
<1>1. jobs' = jobs /\ Jobs' = Jobs /\ Sources' = Sources
  BY PlanFixed
<1>2. Jobs \subseteq Nat \ {0} /\ \A l \in LaneKeys : LaneJobs(jobs, l) \subseteq Jobs
  BY IndexesAreNaturals DEF TypeOK, Jobs, LaneJobs
<1>3. \A l \in LaneKeys : lpc[l] \in BusyPCs => cur[l] \in Jobs
  BY <1>2 DEF BusyWithOwnJob
<1>4. CASE ProbeServers \/ ProbeRaises
  BY <1>1, <1>4 DEF TypeOK, ProbeServers, ProbeRaises, laneVars, procVars, cancelVars
<1>5. CASE CreateConfig \/ ConfigRaises
  <2>1. \A i \in Jobs : jobs[i].server \in Servers \cup {NoServer}
    BY JobHasLaneKey DEF TypeOK, Jobs, Job
  <2>2. Unconfigured \subseteq Jobs
    BY DEF Unconfigured, Runnable
  <2> QED
    BY <1>1, <1>5, <2>1, <2>2 DEF TypeOK, CreateConfig, ConfigRaises, laneVars, procVars, cancelVars
<1>6. CASE StartLanes \/ CloseRun
  BY <1>1, <1>6 DEF TypeOK, StartLanes, CloseRun, laneVars, procVars, cancelVars
<1>7. CASE Interrupt
  BY <1>1, <1>7 DEF TypeOK, Interrupt, laneVars, procVars, Callers
<1>8. ASSUME NEW s \in Sources, SizeKnown(s)
      PROVE  TypeOK'
  BY <1>1, <1>8 DEF TypeOK, SizeKnown, mainVars, laneVars, procVars, cancelVars
<1>9. ASSUME NEW l \in LaneKeys, LaneStep(l)
      PROVE  TypeOK'
  <2>1. CASE TakeJob(l)
    BY <1>1, <1>2, <2>1 DEF TypeOK, TakeJob, GoTo, Later, mainVars, procVars, cancelVars
  <2>2. CASE StopTaking(l) \/ WaitTimesOut(l) \/ LookAtCancel(l)
    BY <1>1, <1>2, <2>2 DEF TypeOK, StopTaking, WaitTimesOut, LookAtCancel, EndLane, GoTo,
                           mainVars, procVars, cancelVars
  <2>3. CASE BeginJob(l) \/ Spawn(l)
    BY <1>1, <2>3 DEF TypeOK, BeginJob, Spawn, GoTo, mainVars, procVars, cancelVars
  <2>4. CASE Register(l) \/ Reap(l)
    BY <1>1, <1>3, <2>4 DEF TypeOK, Register, Reap, GoTo, mainVars, cancelVars, BusyPCs, WorkPCs
  <2>5. CASE JudgeCancelled(l) \/ Judge(l)
    BY <1>1, <1>3, <2>5 DEF TypeOK, JudgeCancelled, Judge, GoTo, mainVars, procVars, cancelVars,
                           BusyPCs, WorkPCs
  <2>6. CASE Record(l)
    BY <1>1, <1>3, <2>6 DEF TypeOK, Record, GoTo, mainVars, procVars, cancelVars, BusyPCs, WorkPCs
  <2>7. CASE JobRaises(l)
    BY <1>1, <1>2, <2>7 DEF TypeOK, JobRaises, EndLane, GoTo, mainVars, procVars, cancelVars
  <2> QED
    BY <1>9, <2>1, <2>2, <2>3, <2>4, <2>5, <2>6, <2>7 DEF LaneStep
<1>10. ASSUME NEW i \in Jobs, BackendExits(i)
       PROVE  TypeOK'
  BY <1>1, <1>10 DEF TypeOK, BackendExits, mainVars, laneVars, cancelVars
<1>11. ASSUME NEW c \in Callers, SetCancel(c) \/ CancelStep(c)
       PROVE  TypeOK'
  BY <1>1, <1>11 DEF TypeOK, SetCancel, CancelStep, CopyActive, Terminate, CancelReturns,
                     mainVars, laneVars, procVars
<1>12. CASE UNCHANGED vars
  BY <1>1, <1>12 DEF TypeOK, vars, mainVars, laneVars, procVars, cancelVars
<1> QED
  BY <1>4, <1>5, <1>6, <1>7, <1>8, <1>9, <1>10, <1>11, <1>12 DEF Next, MainStep, Rest

(* What the steps of a lane do to the other lanes: nothing.                *)
LEMMA LaneStepFrame ==
    ASSUME TypeOK, NEW l \in LaneKeys, LaneStep(l)
    PROVE  /\ phase' = phase
           /\ \A m \in LaneKeys : m # l => lpc'[m] = lpc[m] /\ cur'[m] = cur[m]
           /\ lpc[l] \notin {"idle", "closed", "errored"}
           /\ lpc'[l] # "idle"
<1> USE DEF GoTo, EndLane, TypeOK, mainVars, laneVars
<1>1. CASE TakeJob(l) \/ StopTaking(l) \/ WaitTimesOut(l) \/ LookAtCancel(l) \/ BeginJob(l)
  BY <1>1 DEF TakeJob, StopTaking, WaitTimesOut, LookAtCancel, BeginJob
<1>2. CASE Spawn(l) \/ Register(l) \/ Reap(l) \/ JudgeCancelled(l) \/ Judge(l)
  BY <1>2 DEF Spawn, Register, Reap, JudgeCancelled, Judge
<1>3. CASE Record(l) \/ JobRaises(l)
  BY <1>3 DEF Record, JobRaises
<1> QED
  BY <1>1, <1>2, <1>3 DEF LaneStep

(* What no step outside a lane touches while the lanes run.                *)
LEMMA OtherStepFrame ==
    ASSUME TypeOK, [Next]_vars, phase # "new", \A l \in LaneKeys : ~ LaneStep(l)
    PROVE  /\ UNCHANGED <<status, done, cur>>
           /\ lpc' = lpc \/ StartLanes
           /\ phase' # "new"
<1> USE DEF mainVars, laneVars
<1>1. CASE MainStep \/ Interrupt
  BY <1>1 DEF MainStep, ProbeServers, ProbeRaises, CreateConfig, ConfigRaises, StartLanes, CloseRun, Interrupt
<1>2. CASE \/ \E i \in Jobs : BackendExits(i)
           \/ \E s \in Sources : SizeKnown(s)
           \/ \E c \in Callers : SetCancel(c) \/ CancelStep(c)
  BY <1>2 DEF BackendExits, SizeKnown, SetCancel, CancelStep, CopyActive, Terminate, CancelReturns
<1>3. CASE UNCHANGED vars
  BY <1>3 DEF vars
<1> QED
  BY <1>1, <1>2, <1>3 DEF Next, Rest

(* Before the servers have been probed only probing changes anything here. *)
LEMMA FirstStepFrame ==
    ASSUME TypeOK, IdleBeforeStart, [Next]_vars, phase = "new"
    PROVE  /\ UNCHANGED <<done, cur, lpc>>
           /\ ProbeServers \/ status' = status
<1> USE DEF mainVars, laneVars
<1>1. CASE MainStep \/ Interrupt
  BY <1>1 DEF MainStep, ProbeServers, ProbeRaises, CreateConfig, ConfigRaises, StartLanes, CloseRun, Interrupt
<1>2. CASE \/ \E i \in Jobs : BackendExits(i)
           \/ \E s \in Sources : SizeKnown(s)
           \/ \E c \in Callers : SetCancel(c) \/ CancelStep(c)
  BY <1>2 DEF BackendExits, SizeKnown, SetCancel, CancelStep, CopyActive, Terminate, CancelReturns
<1>3. CASE UNCHANGED vars
  BY <1>3 DEF vars
<1>4. \A l \in LaneKeys : ~ LaneStep(l)
  BY LaneStepFrame DEF IdleBeforeStart
<1> QED
  BY <1>1, <1>2, <1>3, <1>4 DEF Next, Rest

LEMMA IdleStep == IInv /\ [Next]_vars => IdleBeforeStart'
<1> SUFFICES ASSUME IInv, [Next]_vars, phase' \in {"new", "configuring"}
             PROVE  \A l \in LaneKeys : lpc'[l] = "idle" /\ cur'[l] = 0
  BY DEF IdleBeforeStart
<1>1. CASE phase = "new"
  BY <1>1, FirstStepFrame DEF IInv, IdleBeforeStart
<1>2. CASE phase # "new"
  <2>1. phase' \in {"new", "configuring"} => phase = phase' /\ ~ StartLanes
    <3>1. CASE MainStep \/ Interrupt
      BY <1>2, <3>1 DEF MainStep, ProbeServers, ProbeRaises, CreateConfig, ConfigRaises, StartLanes, CloseRun,
                 Interrupt
    <3>2. CASE \E l \in LaneKeys : LaneStep(l)
      <4>1. PICK l \in LaneKeys : LaneStep(l)
        BY <3>2
      <4>2. phase' = phase /\ lpc[l] # "idle"
        BY <4>1, LaneStepFrame DEF IInv
      <4>3. phase \notin {"new", "configuring"}
        BY <4>2 DEF IInv, IdleBeforeStart
      <4> QED
        BY <4>2, <4>3
    <3>3. CASE \/ \E i \in Jobs : BackendExits(i)
               \/ \E s \in Sources : SizeKnown(s)
               \/ \E c \in Callers : SetCancel(c) \/ CancelStep(c)
      BY <3>3 DEF BackendExits, SizeKnown, SetCancel, CancelStep, CopyActive, Terminate,
                  CancelReturns, mainVars, StartLanes
    <3>4. CASE UNCHANGED vars
      BY <3>4 DEF vars, mainVars, StartLanes
    <3> QED
      BY <3>1, <3>2, <3>3, <3>4 DEF Next, Rest
  <2>2. \A l \in LaneKeys : ~ LaneStep(l)
    BY <2>1, LaneStepFrame DEF IInv, IdleBeforeStart
  <2> QED
    BY <1>2, <2>1, <2>2, OtherStepFrame DEF IInv, IdleBeforeStart
<1> QED
  BY <1>1, <1>2

(* A lane changes the state of the job it is busy with, and no other.      *)
LEMMA LaneStatusFrame ==
    ASSUME IInv, NEW l \in LaneKeys, LaneStep(l)
    PROVE  \/ status' = status
           \/ /\ lpc[l] \in BusyPCs
              /\ \A i \in Jobs : i # cur[l] => status'[i] = status[i]
              /\ status'[cur[l]] \in {"RUNNING", "OK", "FAIL", "CANCELLED"}
<1>1. TypeOK /\ (lpc[l] \in BusyPCs => cur[l] \in Jobs)
  BY LaneJobsDisjoint DEF IInv, BusyWithOwnJob, Jobs
<1>2. CASE TakeJob(l) \/ StopTaking(l) \/ WaitTimesOut(l) \/ LookAtCancel(l)
  BY <1>2 DEF TakeJob, StopTaking, WaitTimesOut, LookAtCancel
<1>3. CASE BeginJob(l) \/ JudgeCancelled(l) \/ Judge(l)
  BY <1>1, <1>3 DEF BeginJob, JudgeCancelled, Judge, BusyPCs, WorkPCs, TypeOK
<1>4. CASE Spawn(l) \/ Register(l) \/ Reap(l) \/ Record(l) \/ JobRaises(l)
  BY <1>4 DEF Spawn, Register, Reap, Record, JobRaises
<1> QED
  BY <1>2, <1>3, <1>4 DEF LaneStep

LEMMA RunnableFixed ==
    ASSUME IInv, [Next]_vars, phase # "new"
    PROVE  /\ \A i \in Jobs : status'[i] = "SKIPPED" <=> status[i] = "SKIPPED"
           /\ Runnable' = Runnable
           /\ phase' # "new"
<1>1. Jobs' = Jobs
  BY PlanFixed
<1>2. CASE \E l \in LaneKeys : LaneStep(l)
  <2>1. PICK l \in LaneKeys : LaneStep(l)
    BY <1>2
  <2>2. lpc[l] \in BusyPCs => cur[l] \in Runnable
    BY DEF IInv, BusyWithOwnJob
  <2>3. \A i \in Jobs : status'[i] = "SKIPPED" <=> status[i] = "SKIPPED"
    BY <2>1, <2>2, LaneStatusFrame DEF Runnable
  <2> QED
    BY <1>1, <2>1, <2>3, LaneStepFrame DEF IInv, Runnable
<1>3. CASE \A l \in LaneKeys : ~ LaneStep(l)
  BY <1>1, <1>3, OtherStepFrame DEF IInv, Runnable
<1> QED
  BY <1>2, <1>3

LEMMA SkippedStep == IInv /\ [Next]_vars => SkippedByLane'
<1> SUFFICES ASSUME IInv, [Next]_vars
             PROVE  SkippedByLane'
  OBVIOUS
<1>1. jobs' = jobs /\ Jobs' = Jobs
  BY PlanFixed
<1>2. CASE phase # "new"
  BY <1>1, <1>2, RunnableFixed DEF IInv, SkippedByLane
<1>3. CASE phase = "new" /\ ~ ProbeServers
  BY <1>1, <1>3, FirstStepFrame DEF IInv, SkippedByLane
<1>4. CASE ProbeServers
  <2>1. PICK offline \in SUBSET RequiredServers(jobs) :
          status' = [i \in Jobs |->
                       IF jobs[i].type = "rclone" /\ jobs[i].server \in offline
                       THEN "SKIPPED" ELSE "PENDING"]
    BY <1>4 DEF ProbeServers
  <2>2. ASSUME NEW i \in Jobs, NEW k \in Jobs, LaneOf(jobs, i) = LaneOf(jobs, k)
        PROVE  status'[i] = "SKIPPED" <=> status'[k] = "SKIPPED"
    <3>1. \/ jobs[i].type = "rclone" /\ jobs[k].type = "rclone"
               /\ jobs[i].server = jobs[k].server
          \/ jobs[i].type # "rclone" /\ jobs[k].type # "rclone"
      BY <2>2 DEF LaneOf, LaneKey
    <3> QED
      BY <2>1, <3>1
  <2> QED
    BY <1>1, <2>2 DEF SkippedByLane
<1> QED
  BY <1>2, <1>3, <1>4

LEMMA BusyStep == IInv /\ [Next]_vars => BusyWithOwnJob'
<1> SUFFICES ASSUME IInv, [Next]_vars, NEW m \in LaneKeys, lpc'[m] \in BusyPCs
             PROVE  cur'[m] \in LaneJobs(jobs, m) /\ cur'[m] \in Runnable'
  BY PlanFixed DEF BusyWithOwnJob
<1> USE DEF IInv
<1>1. CASE phase = "new"
  BY <1>1, FirstStepFrame DEF IdleBeforeStart, BusyPCs, WorkPCs
<1>2. CASE phase # "new" /\ \A l \in LaneKeys : ~ LaneStep(l)
  <2>1. lpc' = lpc \/ lpc'[m] \in {"next", "idle"}
    BY <1>2, OtherStepFrame DEF StartLanes
  <2> QED
    BY <1>2, <2>1, OtherStepFrame, RunnableFixed DEF BusyWithOwnJob, BusyPCs, WorkPCs
<1>3. ASSUME phase # "new", NEW l \in LaneKeys, LaneStep(l)
      PROVE  cur'[m] \in LaneJobs(jobs, m) /\ cur'[m] \in Runnable'
  <2>1. Runnable' = Runnable
    BY <1>3, RunnableFixed
  <2>2. CASE m # l
    BY <1>3, <2>1, <2>2, LaneStepFrame DEF BusyWithOwnJob
  <2>3. CASE m = l /\ TakeJob(l)
    BY <2>1, <2>3 DEF TakeJob, Later, TypeOK
  <2>4. CASE m = l /\ ~ TakeJob(l)
    <3>1. cur'[l] = cur[l] /\ (lpc[l] \in BusyPCs \/ lpc'[l] \notin BusyPCs)
      <4> USE DEF GoTo, EndLane, TypeOK, laneVars, BusyPCs, WorkPCs
      <4>1. CASE StopTaking(l) \/ WaitTimesOut(l) \/ LookAtCancel(l) \/ BeginJob(l)
        BY <4>1 DEF StopTaking, WaitTimesOut, LookAtCancel, BeginJob
      <4>2. CASE Spawn(l) \/ Register(l) \/ Reap(l) \/ JudgeCancelled(l) \/ Judge(l)
        BY <4>2 DEF Spawn, Register, Reap, JudgeCancelled, Judge
      <4>3. CASE Record(l) \/ JobRaises(l)
        BY <4>3 DEF Record, JobRaises
      <4> QED
        BY <1>3, <2>4, <4>1, <4>2, <4>3 DEF LaneStep
    <3> QED
      BY <2>1, <2>4, <3>1 DEF BusyWithOwnJob
  <2> QED
    BY <2>2, <2>3, <2>4
<1> QED
  BY <1>1, <1>2, <1>3

(* A lane sets the done events of its own jobs, and clears none.           *)
LEMMA LaneDoneFrame ==
    ASSUME IInv, NEW l \in LaneKeys, LaneStep(l)
    PROVE  done \subseteq done' /\ done' \subseteq done \cup LaneJobs(jobs, l)
<1>1. lpc[l] \in BusyPCs => cur[l] \in LaneJobs(jobs, l)
  BY DEF IInv, BusyWithOwnJob
<1>2. CASE TakeJob(l) \/ StopTaking(l) \/ WaitTimesOut(l) \/ LookAtCancel(l) \/ BeginJob(l)
  BY <1>2 DEF TakeJob, StopTaking, WaitTimesOut, LookAtCancel, BeginJob, EndLane
<1>3. CASE Spawn(l) \/ Register(l) \/ Reap(l) \/ JudgeCancelled(l) \/ Judge(l)
  BY <1>1, <1>3 DEF Spawn, Register, Reap, JudgeCancelled, Judge, BusyPCs, WorkPCs
<1>4. CASE Record(l) \/ JobRaises(l)
  BY <1>1, <1>4 DEF Record, JobRaises, EndLane, BusyPCs, WorkPCs
<1> QED
  BY <1>2, <1>3, <1>4 DEF LaneStep

LEMMA OrderStep == IInv /\ [Next]_vars => LaneOrder'
<1> SUFFICES ASSUME IInv, [Next]_vars, NEW m \in LaneKeys, lpc'[m] \notin {"closed", "errored"},
                    NEW i \in LaneJobs(jobs, m)
             PROVE  /\ i \in done' => Passed(m, i)'
                    /\ i \in Runnable' /\ Passed(m, i)' => i \in done'
  BY PlanFixed DEF LaneOrder, Ended
<1> USE DEF IInv
<1>1. /\ i \in Nat \ {0}
      /\ \A l \in LaneKeys : cur[l] \in Nat
  BY IndexesAreNaturals, LaneJobsDisjoint DEF TypeOK
<1>2. CASE phase = "new"
  <2>1. cur'[m] = 0 /\ cur[m] = 0 /\ lpc'[m] = "idle" /\ lpc[m] = "idle" /\ done' = done
    BY <1>2, FirstStepFrame DEF IdleBeforeStart
  <2>2. ~ Passed(m, i) /\ ~ Passed(m, i)'
    BY <1>1, <2>1 DEF Passed
  <2> QED
    BY <2>1, <2>2 DEF LaneOrder, Ended
<1>3. CASE phase # "new" /\ \A l \in LaneKeys : ~ LaneStep(l)
  <2>1. cur' = cur /\ done' = done /\ Runnable' = Runnable
    BY <1>3, OtherStepFrame, RunnableFixed
  <2>2. lpc'[m] = lpc[m] \/ (lpc'[m] \in {"next", "idle"} /\ lpc[m] = "idle")
    BY <1>3, OtherStepFrame DEF StartLanes, IdleBeforeStart
  <2> QED
    BY <2>1, <2>2 DEF LaneOrder, Ended, Passed, BusyPCs, WorkPCs
<1>4. ASSUME phase # "new", NEW l \in LaneKeys, LaneStep(l)
      PROVE  /\ i \in done' => Passed(m, i)'
             /\ i \in Runnable' /\ Passed(m, i)' => i \in done'
  <2>1. Runnable' = Runnable
    BY <1>4, RunnableFixed
  <2>2. CASE m # l
    <3>1. i \notin LaneJobs(jobs, l)
      BY <2>2, LaneJobsDisjoint
    <3>2. (i \in done' <=> i \in done) /\ lpc'[m] = lpc[m] /\ cur'[m] = cur[m]
      BY <1>4, <2>2, <3>1, LaneDoneFrame, LaneStepFrame
    <3> QED
      BY <2>1, <3>2 DEF LaneOrder, Ended, Passed
  <2>3. CASE m = l
    <3> USE DEF GoTo, EndLane, laneVars
    <3>1. /\ i \in done => Passed(l, i)
          /\ i \in Runnable /\ Passed(l, i) => i \in done
      BY <1>4, <2>3, LaneStepFrame DEF LaneOrder, Ended
    <3>2. CASE TakeJob(l)
      <4>1. lpc[l] = "next" /\ lpc'[l] = "waiting" /\ done' = done
        BY <3>2 DEF TakeJob, TypeOK
      <4>2. PICK k \in Later(l) : (\A j \in Later(l) : k <= j) /\ cur' = [cur EXCEPT ![l] = k]
        BY <3>2 DEF TakeJob
      <4>3. k \in Nat /\ k > cur[l] /\ cur'[l] = k
        BY <4>2, IndexesAreNaturals, LaneJobsDisjoint DEF Later, TypeOK
      <4>4. i \in Runnable /\ i > cur[l] => k <= i
        BY <2>3, <4>2 DEF Later
      <4> QED
        BY <1>1, <2>1, <2>3, <3>1, <4>1, <4>3, <4>4 DEF Passed, BusyPCs, WorkPCs
    <3>3. CASE StopTaking(l) \/ JobRaises(l)
      BY <2>3, <3>3 DEF StopTaking, JobRaises, TypeOK
    <3>4. CASE WaitTimesOut(l) \/ LookAtCancel(l) \/ BeginJob(l) \/ Spawn(l)
      BY <2>1, <2>3, <3>1, <3>4 DEF WaitTimesOut, LookAtCancel, BeginJob, Spawn, TypeOK,
                                    Passed, BusyPCs, WorkPCs
    <3>5. CASE Register(l) \/ Reap(l) \/ Judge(l)
      BY <2>1, <2>3, <3>1, <3>5 DEF Register, Reap, Judge, TypeOK, Passed, BusyPCs, WorkPCs
    <3>6. CASE JudgeCancelled(l) \/ Record(l)
      BY <1>1, <2>1, <2>3, <3>1, <3>6 DEF JudgeCancelled, Record, TypeOK, Passed, BusyPCs, WorkPCs
    <3> QED
      BY <1>4, <3>2, <3>3, <3>4, <3>5, <3>6 DEF LaneStep
  <2> QED
    BY <2>2, <2>3
<1> QED
  BY <1>2, <1>3, <1>4

LEMMA StatusStep == IInv /\ [Next]_vars => StatusOfWork'
<1> SUFFICES ASSUME IInv, [Next]_vars, NEW m \in LaneKeys
             PROVE  /\ lpc'[m] \in WorkPCs \ {"recording"} => status'[cur'[m]] = "RUNNING"
                    /\ lpc'[m] = "recording" => status'[cur'[m]] \in {"OK", "FAIL"}
  BY DEF StatusOfWork
<1> USE DEF IInv, WorkPCs
<1>1. CASE phase = "new"
  BY <1>1, FirstStepFrame DEF IdleBeforeStart
<1>2. CASE phase # "new" /\ \A l \in LaneKeys : ~ LaneStep(l)
  BY <1>2, OtherStepFrame DEF StartLanes, StatusOfWork
<1>3. ASSUME phase # "new", NEW l \in LaneKeys, LaneStep(l)
      PROVE  /\ lpc'[m] \in WorkPCs \ {"recording"} => status'[cur'[m]] = "RUNNING"
             /\ lpc'[m] = "recording" => status'[cur'[m]] \in {"OK", "FAIL"}
  <2>1. CASE m # l
    <3>1. lpc'[m] = lpc[m] /\ cur'[m] = cur[m]
      BY <1>3, <2>1, LaneStepFrame
    <3>2. lpc[m] \in WorkPCs => status'[cur[m]] = status[cur[m]]
      BY <1>3, <2>1, LaneStatusFrame, LaneJobsDisjoint DEF BusyWithOwnJob, BusyPCs, Jobs
    <3> QED
      BY <3>1, <3>2 DEF StatusOfWork
  <2>2. CASE m = l
    <3> USE DEF GoTo, EndLane, laneVars, TypeOK
    <3>1. lpc[l] \in BusyPCs => cur[l] \in Jobs
      BY LaneJobsDisjoint DEF BusyWithOwnJob, Jobs
    <3>2. CASE TakeJob(l) \/ StopTaking(l) \/ WaitTimesOut(l) \/ LookAtCancel(l)
      BY <2>2, <3>2 DEF TakeJob, StopTaking, WaitTimesOut, LookAtCancel
    <3>3. CASE BeginJob(l) \/ Judge(l) \/ JudgeCancelled(l)
      BY <2>2, <3>1, <3>3 DEF BeginJob, Judge, JudgeCancelled, BusyPCs
    <3>4. CASE Spawn(l) \/ Register(l) \/ Reap(l)
      BY <2>2, <3>4 DEF Spawn, Register, Reap, StatusOfWork
    <3>5. CASE Record(l) \/ JobRaises(l)
      BY <2>2, <3>5 DEF Record, JobRaises
    <3> QED
      BY <1>3, <3>2, <3>3, <3>4, <3>5 DEF LaneStep
  <2> QED
    BY <2>1, <2>2
<1> QED
  BY <1>1, <1>2, <1>3

(* The heart of the argument: the job a lane begins finds every earlier    *)
(* contender over.  One of another lane is among its dependencies; one of  *)
(* its own lane comes before it, and is runnable because it is.            *)
LEMMA BeginInOrder ==
    ASSUME IInv, phase # "new", NEW l \in LaneKeys, BeginJob(l),
           NEW i \in Jobs, i < cur[l], Contend(jobs[i], jobs[cur[l]])
    PROVE  i \in done
<1>1. lpc[l] = "waiting" /\ Dependencies(jobs, cur[l]) \subseteq done
  BY DEF BeginJob
<1>2. cur[l] \in LaneJobs(jobs, l) /\ cur[l] \in Runnable
  BY <1>1 DEF IInv, BusyWithOwnJob, BusyPCs
<1>3. LaneOf(jobs, cur[l]) = l /\ cur[l] \in Jobs
  BY <1>2, LaneJobsDisjoint DEF Jobs
<1>4. i \in Nat \ {0} /\ cur[l] \in Nat
  BY IndexesAreNaturals DEF IInv, TypeOK, Jobs
<1>5. CASE LaneOf(jobs, i) # l
  <2>1. i \in 1 .. (cur[l] - 1)
    BY <1>4
  <2>2. i \in Dependencies(jobs, cur[l])
    BY <1>3, <1>5, <2>1 DEF Dependencies
  <2> QED
    BY <1>1, <2>2
<1>6. CASE LaneOf(jobs, i) = l
  <2>1. i \in LaneJobs(jobs, l)
    BY <1>6 DEF LaneJobs, Jobs
  <2>2. i \in Runnable
    BY <1>2, <1>3, <1>6 DEF IInv, SkippedByLane, Runnable
  <2>3. Passed(l, i) /\ ~ Ended(l)
    BY <1>1 DEF Passed, Ended
  <2> QED
    BY <2>1, <2>2, <2>3 DEF IInv, LaneOrder
<1> QED
  BY <1>5, <1>6

LEMMA StartedStep == IInv /\ [Next]_vars => StartedInOrder'
<1> SUFFICES ASSUME IInv, [Next]_vars, NEW i \in Jobs, NEW k \in Jobs,
                    i < k, Contend(jobs[i], jobs[k]), Started(k)'
             PROVE  i \in done'
  BY PlanFixed DEF StartedInOrder
<1>1. CASE phase = "new"
  <2>1. CASE ProbeServers
    BY <2>1 DEF ProbeServers, Started
  <2>2. CASE status' = status
    BY <1>1, <2>2, FirstStepFrame DEF IInv, StartedInOrder, Started
  <2> QED
    BY <1>1, <2>1, <2>2, FirstStepFrame DEF IInv
<1>2. CASE phase # "new" /\ \A l \in LaneKeys : ~ LaneStep(l)
  BY <1>2, OtherStepFrame DEF IInv, StartedInOrder, Started
<1>3. ASSUME phase # "new", NEW l \in LaneKeys, LaneStep(l)
      PROVE  i \in done'
  <2>1. done \subseteq done'
    BY <1>3, LaneDoneFrame
  <2>2. CASE Started(k)
    BY <2>1, <2>2 DEF IInv, StartedInOrder
  <2>3. CASE ~ Started(k)
    <3>1. lpc[l] \in BusyPCs /\ k = cur[l]
      BY <1>3, <2>3, LaneStatusFrame DEF Started
    <3>2. lpc[l] \notin WorkPCs
      BY <2>3, <3>1 DEF IInv, StatusOfWork, Started
    <3>3. BeginJob(l)
      <4>1. CASE TakeJob(l) \/ StopTaking(l) \/ WaitTimesOut(l) \/ LookAtCancel(l)
        BY <2>3, <4>1 DEF TakeJob, StopTaking, WaitTimesOut, LookAtCancel, Started
      <4>2. CASE Spawn(l) \/ Register(l) \/ Reap(l) \/ JudgeCancelled(l) \/ Judge(l)
        BY <3>2, <4>2 DEF Spawn, Register, Reap, JudgeCancelled, Judge, WorkPCs
      <4>3. CASE Record(l) \/ JobRaises(l)
        BY <3>2, <4>3 DEF Record, JobRaises, WorkPCs
      <4> QED
        BY <1>3, <4>1, <4>2, <4>3 DEF LaneStep
    <3> QED
      BY <1>3, <2>1, <3>1, <3>3, BeginInOrder
  <2> QED
    BY <2>2, <2>3
<1> QED
  BY <1>1, <1>2, <1>3

LEMMA StepInvariant == IInv /\ [Next]_vars => IInv'
  BY TypeStep, IdleStep, SkippedStep, BusyStep, OrderStep, StatusStep, StartedStep DEF IInv

LEMMA InvariantNoOverlap == IInv => NoOverlap
<1> SUFFICES ASSUME IInv, NEW i \in Jobs, NEW k \in Jobs, i < k,
                    Contend(jobs[i], jobs[k]), AtWork(i), AtWork(k)
             PROVE  FALSE
  BY DEF NoOverlap
<1>1. /\ LaneOf(jobs, i) \in LaneKeys /\ i \in LaneJobs(jobs, LaneOf(jobs, i))
      /\ LaneOf(jobs, k) \in LaneKeys
  BY JobHasLaneKey DEF IInv, TypeOK, Jobs
<1>2. Started(k)
  BY <1>1 DEF IInv, StatusOfWork, AtWork, Started
<1>3. i \in done
  BY <1>2 DEF IInv, StartedInOrder
<1>4. ~ Ended(LaneOf(jobs, i)) /\ ~ Passed(LaneOf(jobs, i), i)
  BY IndexesAreNaturals DEF AtWork, WorkPCs, BusyPCs, Ended, Passed, IInv, TypeOK, Jobs
<1> QED
  BY <1>1, <1>3, <1>4 DEF IInv, LaneOrder

THEOREM Invariance == Spec => []IInv
  BY InitInvariant, StepInvariant, PTL DEF Spec

------------------------------------------------------------------------------
(* Every variable keeps its type; in particular a lane only ever holds one *)
(* of its own jobs.                                                        *)
THEOREM TypeCorrect == Spec => []TypeOK
<1>1. IInv => TypeOK
  BY DEF IInv
<1> QED
  BY <1>1, Invariance, PTL

(* However many servers, jobs and callers of cancel() there are, and       *)
(* whatever jobs raise, fail, are skipped or are cancelled, two jobs that  *)
(* contend for a local tree are never inside _run_job together.            *)
THEOREM Exclusion == Spec => []NoOverlap
  BY InvariantNoOverlap, Invariance, PTL

------------------------------------------------------------------------------
(* Cancellation.                                                           *)

RegisteredIsStreaming ==
    \A i \in active : cur[LaneOf(jobs, i)] = i /\ lpc[LaneOf(jobs, i)] = "streaming"

CancelIsFlagged ==
    /\ \A c \in Callers : cpc[c] # "outside" => cancelled
    /\ \A c \in Callers : toKill[c] # {} => cancelled
    /\ killed # {} => cancelled

(* A backend that was, or will be, told to stop is not judged.             *)
DoomedIsNotJudged ==
    /\ KilledIsNotJudged
    /\ \A c \in Callers : \A i \in toKill[c] : status[i] \notin {"OK", "FAIL"}

CancelInv ==
    /\ RegisteredIsStreaming
    /\ CancelIsFlagged
    /\ DoomedIsNotJudged
    /\ CancelReachesBackends

LEMMA InitCancel == Init => CancelInv
  BY DEF Init, CancelInv, RegisteredIsStreaming, CancelIsFlagged, DoomedIsNotJudged,
         KilledIsNotJudged, CancelReachesBackends

(* What each kind of step does to the variables of a cancellation.         *)
LEMMA RegisteredStep == IInv /\ CancelInv /\ [Next]_vars => RegisteredIsStreaming'
<1> SUFFICES ASSUME IInv, CancelInv, [Next]_vars, NEW i \in active'
             PROVE  cur'[LaneOf(jobs, i)] = i /\ lpc'[LaneOf(jobs, i)] = "streaming"
  BY PlanFixed DEF RegisteredIsStreaming
<1> USE DEF CancelInv
<1>1. TypeOK /\ IdleBeforeStart /\ active \subseteq Jobs
  BY DEF IInv, TypeOK
<1>2. ASSUME NEW l \in LaneKeys, LaneStep(l)
      PROVE  cur'[LaneOf(jobs, i)] = i /\ lpc'[LaneOf(jobs, i)] = "streaming"
  <2>1. CASE Register(l)
    <3>1. active' = active \cup {cur[l]} /\ cur' = cur /\ lpc' = [lpc EXCEPT ![l] = "streaming"]
          /\ lpc[l] = "spawned"
      BY <2>1 DEF Register, GoTo
    <3>2. LaneOf(jobs, cur[l]) = l
      BY <3>1, LaneJobsDisjoint DEF IInv, BusyWithOwnJob, BusyPCs, WorkPCs
    <3>3. CASE i \in active
      BY <1>1, <3>1, <3>3, JobHasLaneKey DEF RegisteredIsStreaming, TypeOK, Jobs
    <3>4. CASE i = cur[l]
      BY <1>1, <3>1, <3>2, <3>4 DEF TypeOK
    <3> QED
      BY <3>1, <3>3, <3>4
  <2>2. CASE ~ Register(l)
    <3>1. i \in active /\ (lpc[l] = "streaming" => i # cur[l])
      <4>1. CASE TakeJob(l) \/ StopTaking(l) \/ WaitTimesOut(l) \/ LookAtCancel(l) \/ BeginJob(l)
        BY <4>1 DEF TakeJob, StopTaking, WaitTimesOut, LookAtCancel, BeginJob, procVars
      <4>2. CASE Spawn(l) \/ Reap(l) \/ JudgeCancelled(l) \/ Judge(l)
        BY <4>2 DEF Spawn, Reap, JudgeCancelled, Judge, procVars
      <4>3. CASE Record(l) \/ JobRaises(l)
        BY <4>3 DEF Record, JobRaises, procVars
      <4> QED
        BY <1>2, <2>2, <4>1, <4>2, <4>3 DEF LaneStep
    <3>2. cur[LaneOf(jobs, i)] = i /\ lpc[LaneOf(jobs, i)] = "streaming"
      BY <3>1 DEF RegisteredIsStreaming
    <3>3. LaneOf(jobs, i) # l /\ LaneOf(jobs, i) \in LaneKeys
      BY <1>1, <3>1, <3>2, JobHasLaneKey DEF Jobs, TypeOK
    <3> QED
      BY <1>1, <1>2, <3>2, <3>3, LaneStepFrame
  <2> QED
    BY <2>1, <2>2
<1>3. CASE \A l \in LaneKeys : ~ LaneStep(l)
  <2>1. active' = active
    <3>1. CASE MainStep \/ Interrupt
      BY <3>1 DEF MainStep, ProbeServers, ProbeRaises, CreateConfig, ConfigRaises, StartLanes, CloseRun,
                  Interrupt, procVars
    <3>2. CASE \/ \E k \in Jobs : BackendExits(k)
               \/ \E s \in Sources : SizeKnown(s)
               \/ \E c \in Callers : SetCancel(c) \/ CancelStep(c)
      BY <3>2 DEF BackendExits, SizeKnown, SetCancel, CancelStep, CopyActive, Terminate,
                  CancelReturns, procVars
    <3>3. CASE UNCHANGED vars
      BY <3>3 DEF vars, procVars
    <3> QED
      BY <1>3, <3>1, <3>2, <3>3 DEF Next, Rest
  <2>2. /\ LaneOf(jobs, i) \in LaneKeys
        /\ cur[LaneOf(jobs, i)] = i /\ lpc[LaneOf(jobs, i)] = "streaming"
    BY <1>1, <2>1, JobHasLaneKey DEF RegisteredIsStreaming, Jobs, TypeOK
  <2>3. phase # "new" /\ ~ StartLanes
    BY <1>1, <2>2 DEF IdleBeforeStart, StartLanes
  <2> QED
    BY <1>1, <1>3, <2>2, <2>3, OtherStepFrame
<1> QED
  BY <1>2, <1>3

LEMMA LaneCancelFrame ==
    ASSUME NEW l \in LaneKeys, LaneStep(l)
    PROVE  /\ UNCHANGED cancelVars
           /\ \/ active' \subseteq active /\ killed' = killed
              \/ /\ lpc[l] = "spawned" /\ status' = status
                 /\ active' = active \cup {cur[l]}
                 /\ killed' = IF cancelled THEN killed \cup {cur[l]} ELSE killed
<1>1. CASE TakeJob(l) \/ StopTaking(l) \/ WaitTimesOut(l) \/ LookAtCancel(l) \/ BeginJob(l)
  BY <1>1 DEF TakeJob, StopTaking, WaitTimesOut, LookAtCancel, BeginJob, procVars
<1>2. CASE Spawn(l) \/ Register(l) \/ Reap(l)
  BY <1>2 DEF Spawn, Register, Reap, procVars
<1>3. CASE JudgeCancelled(l) \/ Judge(l) \/ Record(l) \/ JobRaises(l)
  BY <1>3 DEF JudgeCancelled, Judge, Record, JobRaises, procVars
<1> QED
  BY <1>1, <1>2, <1>3 DEF LaneStep

(* A step that is neither a lane's nor a cancel's leaves all of it alone.  *)
LEMMA QuietCancelFrame ==
    ASSUME [Next]_vars, \A l \in LaneKeys : ~ LaneStep(l), ~ Interrupt,
           \A c \in Callers : ~ SetCancel(c) /\ ~ CancelStep(c)
    PROVE  UNCHANGED <<cancelVars, killed, active>>
<1>1. CASE MainStep
  BY <1>1 DEF MainStep, ProbeServers, ProbeRaises, CreateConfig, ConfigRaises, StartLanes, CloseRun, procVars
<1>2. CASE (\E i \in Jobs : BackendExits(i)) \/ (\E s \in Sources : SizeKnown(s))
  BY <1>2 DEF BackendExits, SizeKnown, procVars
<1>3. CASE UNCHANGED vars
  BY <1>3 DEF vars, procVars
<1> QED
  BY <1>1, <1>2, <1>3 DEF Next, Rest

LEMMA FlaggedStep == IInv /\ CancelInv /\ [Next]_vars => CancelIsFlagged'
<1> SUFFICES ASSUME IInv, CancelInv, [Next]_vars
             PROVE  CancelIsFlagged'
  OBVIOUS
<1> USE DEF CancelInv, CancelIsFlagged
<1>1. ASSUME NEW l \in LaneKeys, LaneStep(l)
      PROVE  CancelIsFlagged'
  BY <1>1, LaneCancelFrame DEF cancelVars
<1>2. CASE Interrupt
  BY <1>2 DEF Interrupt
<1>3. ASSUME NEW c \in Callers, SetCancel(c)
      PROVE  CancelIsFlagged'
  BY <1>3 DEF SetCancel
<1>4. ASSUME NEW c \in Callers, CancelStep(c)
      PROVE  CancelIsFlagged'
  <2>1. cancelled /\ cancelled' = cancelled
    BY <1>4 DEF CancelStep, CopyActive, Terminate, CancelReturns
  <2> QED
    BY <2>1
<1>5. CASE UNCHANGED <<cancelVars, killed, active>>
  BY <1>5 DEF cancelVars
<1> QED
  BY <1>1, <1>2, <1>3, <1>4, <1>5, QuietCancelFrame

LEMMA ReachStep == IInv /\ CancelInv /\ [Next]_vars => CancelReachesBackends'
<1> SUFFICES ASSUME IInv, CancelInv, [Next]_vars
             PROVE  CancelReachesBackends'
  OBVIOUS
<1> USE DEF CancelInv, CancelReachesBackends
<1>0. TypeOK
  BY DEF IInv
<1>1. ASSUME NEW l \in LaneKeys, LaneStep(l)
      PROVE  CancelReachesBackends'
  BY <1>1, LaneCancelFrame DEF cancelVars
<1>2. CASE Interrupt
  BY <1>0, <1>2 DEF Interrupt, TypeOK, Callers
<1>3. ASSUME NEW c \in Callers, SetCancel(c)
      PROVE  CancelReachesBackends'
  BY <1>0, <1>3 DEF SetCancel, TypeOK
<1>4. ASSUME NEW c \in Callers, CopyActive(c)
      PROVE  CancelReachesBackends'
  BY <1>0, <1>4 DEF CopyActive, TypeOK, procVars
<1>5. ASSUME NEW c \in Callers, Terminate(c)
      PROVE  CancelReachesBackends'
  BY <1>0, <1>5 DEF Terminate, TypeOK, procVars
<1>6. ASSUME NEW c \in Callers, CancelReturns(c)
      PROVE  CancelReachesBackends'
  BY <1>0, <1>6 DEF CancelReturns, TypeOK, procVars
<1>7. CASE UNCHANGED <<cancelVars, killed, active>>
  BY <1>7 DEF cancelVars
<1> QED
  BY <1>1, <1>2, <1>3, <1>4, <1>5, <1>6, <1>7, QuietCancelFrame DEF CancelStep

LEMMA DoomedStep == IInv /\ CancelInv /\ [Next]_vars => DoomedIsNotJudged'
<1> SUFFICES ASSUME IInv, CancelInv, [Next]_vars
             PROVE  DoomedIsNotJudged'
  OBVIOUS
<1> USE DEF CancelInv, DoomedIsNotJudged, KilledIsNotJudged
<1>0. TypeOK /\ IdleBeforeStart
  BY DEF IInv
<1>1. ASSUME NEW l \in LaneKeys, LaneStep(l)
      PROVE  DoomedIsNotJudged'
  <2>1. CASE lpc[l] = "spawned" /\ status' = status
    <3>1. status[cur[l]] = "RUNNING"
      BY <2>1 DEF IInv, StatusOfWork, WorkPCs
    <3> QED
      BY <1>1, <2>1, <3>1, LaneCancelFrame DEF cancelVars
  <2>2. CASE killed' = killed /\ ~ cancelled
    BY <1>1, <2>2, LaneCancelFrame DEF cancelVars, CancelIsFlagged
  <2>3. CASE killed' = killed /\ cancelled
    <3>1. \A i \in Jobs : status'[i] \in {"OK", "FAIL"} => status[i] \in {"OK", "FAIL"}
      <4>1. lpc[l] \in BusyPCs => cur[l] \in Jobs
        BY LaneJobsDisjoint DEF IInv, BusyWithOwnJob, Jobs
      <4>2. CASE TakeJob(l) \/ StopTaking(l) \/ WaitTimesOut(l) \/ LookAtCancel(l)
        BY <4>2 DEF TakeJob, StopTaking, WaitTimesOut, LookAtCancel
      <4>3. CASE BeginJob(l) \/ Judge(l) \/ JudgeCancelled(l)
        BY <1>0, <2>3, <4>1, <4>3 DEF BeginJob, Judge, JudgeCancelled, TypeOK, BusyPCs, WorkPCs
      <4>4. CASE Spawn(l) \/ Register(l) \/ Reap(l) \/ Record(l) \/ JobRaises(l)
        BY <4>4 DEF Spawn, Register, Reap, Record, JobRaises
      <4> QED
        BY <1>1, <4>2, <4>3, <4>4 DEF LaneStep
    <3>2. killed \subseteq Jobs /\ \A c \in Callers : toKill[c] \subseteq Jobs
      BY <1>0 DEF TypeOK
    <3> QED
      BY <1>1, <2>3, <3>1, <3>2, LaneCancelFrame DEF cancelVars
  <2> QED
    BY <1>1, <2>1, <2>2, <2>3, LaneCancelFrame
<1>2. CASE Interrupt
  BY <1>2 DEF Interrupt
<1>3. ASSUME NEW c \in Callers, SetCancel(c)
      PROVE  DoomedIsNotJudged'
  BY <1>3 DEF SetCancel
<1>4. ASSUME NEW c \in Callers, CopyActive(c)
      PROVE  DoomedIsNotJudged'
  <2>1. \A i \in active : status[i] = "RUNNING"
    <3>1. SUFFICES ASSUME NEW i \in active
                   PROVE  status[i] = "RUNNING"
      OBVIOUS
    <3>2. LaneOf(jobs, i) \in LaneKeys
      BY <1>0, JobHasLaneKey DEF TypeOK, Jobs
    <3> QED
      BY <3>2 DEF RegisteredIsStreaming, IInv, StatusOfWork, WorkPCs
  <2> QED
    BY <1>0, <1>4, <2>1 DEF CopyActive, TypeOK
<1>5. ASSUME NEW c \in Callers, Terminate(c) \/ CancelReturns(c)
      PROVE  DoomedIsNotJudged'
  BY <1>0, <1>5 DEF Terminate, CancelReturns, TypeOK
<1>6. CASE /\ UNCHANGED <<cancelVars, killed, active>>
           /\ \A l \in LaneKeys : ~ LaneStep(l)
  <2>1. CASE phase # "new"
    BY <1>0, <1>6, <2>1, OtherStepFrame DEF cancelVars
  <2>2. CASE ProbeServers
    BY <1>0, <1>6, <2>2 DEF ProbeServers, TypeOK, cancelVars
  <2>3. CASE phase = "new" /\ status' = status
    BY <1>6, <2>3 DEF cancelVars
  <2> QED
    BY <1>0, <2>1, <2>2, <2>3, FirstStepFrame
<1> QED
  BY <1>1, <1>2, <1>3, <1>4, <1>5, <1>6, QuietCancelFrame DEF CancelStep

THEOREM CancelInvariance == Spec => []CancelInv
<1>1. IInv /\ CancelInv /\ [Next]_vars => CancelInv'
  BY RegisteredStep, FlaggedStep, DoomedStep, ReachStep DEF CancelInv
<1> QED
  BY <1>1, InitCancel, Invariance, PTL DEF Spec

(* However cancel() interleaves with backends that start and end, no       *)
(* registered backend is overlooked.                                       *)
THEOREM CancelReaches == Spec => []CancelReachesBackends
<1>1. CancelInv => CancelReachesBackends
  BY DEF CancelInv
<1> QED
  BY <1>1, CancelInvariance, PTL

(* A backend that cancel() stopped is never taken for one that failed or   *)
(* succeeded.                                                              *)
THEOREM KilledNotJudged == Spec => []KilledIsNotJudged
<1>1. CancelInv => KilledIsNotJudged
  BY DEF CancelInv, DoomedIsNotJudged
<1> QED
  BY <1>1, CancelInvariance, PTL

------------------------------------------------------------------------------
(* What the result accounts for, where backends live, and the refinement:  *)
(* the inductive invariant, on top of IInv.                                *)

Ahead(l, i) == i > cur[l] \/ (i = cur[l] /\ lpc[l] \in {"waiting", "timed_out"})
In(l, i, pcs) == cur[l] = i /\ lpc[l] \in pcs

(* The state of a job of lane l tells where the lane is with it.           *)
StatusTells(l, i) ==
    /\ status[i] = "CANCELLED" => cancelled
    /\ status[i] = "RUNNING" =>
           In(l, i, WorkPCs \ {"recording"}) \/ lpc[l] = "errored"
    /\ status[i] \in {"OK", "FAIL"} =>
           \/ <<i, status[i]>> \in recorded
           \/ In(l, i, {"recording"})
           \/ lpc[l] = "errored"
    /\ status[i] = "PENDING" =>
           \/ cancelled
           \/ lpc[l] = "errored"
           \/ lpc[l] # "closed" /\ Ahead(l, i)

(* A job is begun only once, so what was noted of it stays true.           *)
NotedOnce(l, i) ==
    /\ Ahead(l, i) => status[i] \in {"PENDING", "SKIPPED"}
    /\ status[i] = "FAIL" <=> i \in failures
    /\ \A s \in Statuses : <<i, s>> \in recorded => s = status[i] /\ s \in {"OK", "FAIL"}

JobsAccounted ==
    \A l \in LaneKeys : \A i \in LaneJobs(jobs, l) : StatusTells(l, i) /\ NotedOnce(l, i)

(* The run is over only when every lane is, or when there was none.        *)
OverWhenEnded ==
    phase = "finished" =>
        \/ \A l \in Lanes : Ended(l)
        \/ \A i \in Jobs : status[i] = "SKIPPED"

OutcomeInv == JobsAccounted /\ OverWhenEnded

LEMMA InitOutcome == Init => OutcomeInv
<1> SUFFICES ASSUME Init
             PROVE  OutcomeInv
  OBVIOUS
<1>1. OverWhenEnded
  BY DEF Init, OverWhenEnded
<1>2. ASSUME NEW l \in LaneKeys, NEW i \in LaneJobs(jobs, l)
      PROVE  StatusTells(l, i) /\ NotedOnce(l, i)
  <2>1. i \in Jobs /\ i \in Nat \ {0}
    BY IndexesAreNaturals, LaneJobsDisjoint DEF Init, Jobs
  <2> QED
    BY <2>1 DEF Init, StatusTells, NotedOnce, Ahead, In
<1> QED
  BY <1>1, <1>2 DEF OutcomeInv, JobsAccounted

(* A lane that is idle has not touched its jobs, so that a step outside a  *)
(* lane changes nothing that is accounted for.                             *)
LEMMA OtherNotesFrame ==
    ASSUME [Next]_vars, \A l \in LaneKeys : ~ LaneStep(l)
    PROVE  /\ UNCHANGED <<recorded, failures>>
           /\ cancelled => cancelled'
<1>1. CASE MainStep \/ Interrupt
  BY <1>1 DEF MainStep, ProbeServers, ProbeRaises, CreateConfig, ConfigRaises, StartLanes, CloseRun, Interrupt,
              cancelVars
<1>2. CASE \/ \E i \in Jobs : BackendExits(i)
           \/ \E s \in Sources : SizeKnown(s)
           \/ \E c \in Callers : SetCancel(c) \/ CancelStep(c)
  BY <1>2 DEF BackendExits, SizeKnown, SetCancel, CancelStep, CopyActive, Terminate,
              CancelReturns, cancelVars
<1>3. CASE UNCHANGED vars
  BY <1>3 DEF vars, cancelVars
<1> QED
  BY <1>1, <1>2, <1>3 DEF Next, Rest

(* A lane writes down only the job it is at.                               *)
LEMMA LaneNotesFrame ==
    ASSUME IInv, NEW l \in LaneKeys, LaneStep(l)
    PROVE  /\ cancelled' = cancelled
           /\ \A i : i # cur[l] => (i \in failures' <=> i \in failures)
           /\ \A i, s : i # cur[l] => (<<i, s>> \in recorded' <=> <<i, s>> \in recorded)
<1> USE DEF cancelVars
<1>1. CASE TakeJob(l) \/ StopTaking(l) \/ WaitTimesOut(l) \/ LookAtCancel(l) \/ BeginJob(l)
  BY <1>1 DEF TakeJob, StopTaking, WaitTimesOut, LookAtCancel, BeginJob
<1>2. CASE Spawn(l) \/ Register(l) \/ Reap(l) \/ JudgeCancelled(l)
  BY <1>2 DEF Spawn, Register, Reap, JudgeCancelled
<1>3. CASE Judge(l) \/ Record(l) \/ JobRaises(l)
  BY <1>3 DEF Judge, Record, JobRaises
<1> QED
  BY <1>1, <1>2, <1>3 DEF LaneStep

LEMMA AccountedByLane ==
    ASSUME IInv, JobsAccounted, NEW l \in LaneKeys, LaneStep(l), NEW i \in LaneJobs(jobs, l)
    PROVE  StatusTells(l, i)' /\ NotedOnce(l, i)'
<1> DEFINE Kept == StatusTells(l, i) /\ NotedOnce(l, i)
<1> USE DEF StatusTells, NotedOnce, Ahead, In, WorkPCs, GoTo, EndLane, laneVars, cancelVars
<1>1. Kept
  BY DEF JobsAccounted
<1>2. TypeOK /\ i \in Nat \ {0} /\ i \in Jobs /\ cur[l] \in Nat /\ cur[l] \in Jobs \cup {0}
  BY IndexesAreNaturals, LaneJobsDisjoint DEF IInv, TypeOK, Jobs
<1>3. lpc[l] \in BusyPCs => cur[l] \in LaneJobs(jobs, l) /\ cur[l] \in Jobs
  BY LaneJobsDisjoint DEF IInv, BusyWithOwnJob, Jobs
<1>4. lpc[l] \in BusyPCs => StatusTells(l, cur[l]) /\ NotedOnce(l, cur[l])
  BY <1>3 DEF JobsAccounted
<1> USE DEF BusyPCs
<1>5. CASE TakeJob(l)
  <2>1. PICK k \in Later(l) : (\A j \in Later(l) : k <= j) /\ cur' = [cur EXCEPT ![l] = k]
    BY <1>5 DEF TakeJob
  <2>2. k \in Nat /\ k > cur[l] /\ cur'[l] = k /\ lpc[l] = "next" /\ lpc'[l] = "waiting"
    BY <1>2, <1>5, <2>1, IndexesAreNaturals, LaneJobsDisjoint DEF Later, TakeJob, TypeOK
  <2>3. status[i] = "PENDING" /\ i > cur[l] => k <= i
    BY <1>2, <2>1 DEF Later, Runnable
  <2>4. UNCHANGED <<status, recorded, failures, cancelled>>
    BY <1>5 DEF TakeJob
  <2> QED
    BY <1>1, <1>2, <2>2, <2>3, <2>4
<1>6. CASE StopTaking(l)
  <2>1. lpc[l] = "next" /\ lpc'[l] = "closed" /\ UNCHANGED <<status, recorded, failures, cancelled, cur>>
    BY <1>2, <1>6 DEF StopTaking, TypeOK
  <2>2. status[i] = "PENDING" => cancelled
    BY <1>1, <1>2, <1>6, <2>1 DEF StopTaking, Later, Runnable
  <2> QED
    BY <1>1, <2>1, <2>2
<1>7. CASE WaitTimesOut(l) \/ LookAtCancel(l)
  <2>1. /\ lpc[l] \in {"waiting", "timed_out"}
        /\ UNCHANGED <<status, recorded, failures, cancelled, cur>>
        /\ lpc'[l] \in {"waiting", "timed_out"} \/ (lpc'[l] = "closed" /\ cancelled)
    BY <1>2, <1>7 DEF WaitTimesOut, LookAtCancel, TypeOK
  <2> QED
    BY <1>1, <2>1
<1>8. CASE BeginJob(l)
  <2>1. /\ lpc[l] = "waiting" /\ lpc'[l] = "building"
        /\ status' = [status EXCEPT ![cur[l]] = "RUNNING"]
        /\ UNCHANGED <<recorded, failures, cancelled, cur>>
    BY <1>2, <1>8 DEF BeginJob, TypeOK
  <2>2. status'[cur[l]] = "RUNNING" /\ (i # cur[l] => status'[i] = status[i])
    BY <1>2, <1>3, <2>1 DEF TypeOK
  <2> QED
    BY <1>1, <1>2, <2>1, <2>2 DEF Statuses
<1>9. CASE Spawn(l) \/ Register(l) \/ Reap(l)
  <2>1. /\ lpc[l] \in WorkPCs \ {"recording"} /\ lpc'[l] \in WorkPCs \ {"recording"}
        /\ UNCHANGED <<status, recorded, failures, cancelled, cur>>
    BY <1>2, <1>9 DEF Spawn, Register, Reap, TypeOK
  <2> QED
    BY <1>1, <2>1
<1>10. CASE JudgeCancelled(l) \/ Judge(l)
  <2>1. /\ lpc[l] = "exited" /\ lpc'[l] \in {"next", "recording"}
        /\ status[cur[l]] = "RUNNING"
        /\ UNCHANGED <<recorded, cancelled, cur>>
    BY <1>2, <1>10 DEF JudgeCancelled, Judge, TypeOK, IInv, StatusOfWork
  <2>2. CASE i # cur[l]
    <3>1. status'[i] = status[i] /\ (i \in failures' <=> i \in failures)
      BY <1>2, <1>10, <2>2 DEF JudgeCancelled, Judge, TypeOK
    <3> QED
      BY <1>1, <1>2, <2>1, <2>2, <3>1
  <2>3. CASE i = cur[l] /\ JudgeCancelled(l)
    <3>1. status'[i] = "CANCELLED" /\ cancelled /\ lpc'[l] = "next" /\ failures' = failures
      BY <1>2, <2>3 DEF JudgeCancelled, TypeOK
    <3> QED
      BY <1>1, <1>2, <2>1, <2>3, <3>1 DEF Statuses
  <2>4. CASE i = cur[l] /\ Judge(l)
    <3>1. /\ lpc'[l] = "recording"
          /\ \/ status'[i] = "FAIL" /\ failures' = failures \cup {i}
             \/ status'[i] = "OK" /\ failures' = failures
      BY <1>2, <2>4 DEF Judge, TypeOK
    <3> QED
      BY <1>1, <1>2, <2>1, <2>4, <3>1 DEF Statuses
  <2> QED
    BY <1>10, <2>2, <2>3, <2>4
<1>11. CASE Record(l)
  <2>1. /\ lpc[l] = "recording" /\ lpc'[l] = "next" /\ status[cur[l]] \in {"OK", "FAIL"}
        /\ recorded' = recorded \cup {<<cur[l], status[cur[l]]>>}
        /\ UNCHANGED <<status, failures, cancelled, cur>>
    BY <1>2, <1>11 DEF Record, TypeOK, IInv, StatusOfWork
  <2> QED
    BY <1>1, <1>2, <2>1
<1>12. CASE JobRaises(l)
  <2>1. /\ lpc[l] \in {"building", "recording"} /\ lpc'[l] = "errored"
        /\ UNCHANGED <<status, recorded, failures, cancelled, cur>>
    BY <1>2, <1>12 DEF JobRaises, TypeOK
  <2> QED
    BY <1>1, <2>1
<1> QED
  BY <1>5, <1>6, <1>7, <1>8, <1>9, <1>10, <1>11, <1>12 DEF LaneStep

LEMMA AccountedStep == IInv /\ JobsAccounted /\ [Next]_vars => JobsAccounted'
<1> SUFFICES ASSUME IInv, JobsAccounted, [Next]_vars,
                    NEW m \in LaneKeys, NEW i \in LaneJobs(jobs, m)
             PROVE  StatusTells(m, i)' /\ NotedOnce(m, i)'
  BY PlanFixed DEF JobsAccounted
<1> USE DEF StatusTells, NotedOnce, Ahead, In, WorkPCs
<1>1. StatusTells(m, i) /\ NotedOnce(m, i)
  BY DEF JobsAccounted
<1>2. TypeOK /\ IdleBeforeStart /\ i \in Nat \ {0} /\ i \in Jobs
  BY IndexesAreNaturals, LaneJobsDisjoint DEF IInv, TypeOK, Jobs
<1>3. ASSUME NEW l \in LaneKeys, LaneStep(l)
      PROVE  StatusTells(m, i)' /\ NotedOnce(m, i)'
  <2>1. CASE m = l
    BY <1>3, <2>1, AccountedByLane
  <2>2. CASE m # l
    <3>1. lpc'[m] = lpc[m] /\ cur'[m] = cur[m]
      BY <1>2, <1>3, <2>2, LaneStepFrame
    <3>2. lpc[l] \in BusyPCs => i # cur[l]
      BY <2>2, LaneJobsDisjoint DEF IInv, BusyWithOwnJob
    <3>3. status'[i] = status[i]
      BY <1>2, <1>3, <3>2, LaneStatusFrame
    <3>4. /\ cancelled' = cancelled
          /\ i \in failures' <=> i \in failures
          /\ \A s : <<i, s>> \in recorded' <=> <<i, s>> \in recorded
      <4>1. CASE lpc[l] \in BusyPCs
        BY <1>3, <3>2, <4>1, LaneNotesFrame
      <4>2. CASE lpc[l] \notin BusyPCs
        BY <1>3, <4>2 DEF LaneStep, TakeJob, StopTaking, WaitTimesOut, LookAtCancel, BeginJob, Spawn,
             Register, Reap, JudgeCancelled, Judge, Record, JobRaises, BusyPCs, cancelVars
      <4> QED
        BY <4>1, <4>2
    <3> QED
      BY <1>1, <3>1, <3>3, <3>4
  <2> QED
    BY <2>1, <2>2
<1>4. CASE \A l \in LaneKeys : ~ LaneStep(l)
  <2>1. UNCHANGED <<recorded, failures>> /\ (cancelled => cancelled')
    BY <1>4, OtherNotesFrame
  <2>2. CASE phase = "new"
    <3>1. UNCHANGED <<cur, lpc>> /\ (ProbeServers \/ status' = status)
      BY <1>2, <2>2, FirstStepFrame
    <3>2. CASE status' = status
      BY <1>1, <2>1, <3>1, <3>2
    <3>3. CASE ProbeServers
      <4>1. status'[i] \in {"PENDING", "SKIPPED"} /\ lpc[m] = "idle" /\ cur[m] = 0
        BY <1>2, <2>2, <3>3 DEF ProbeServers, IdleBeforeStart
      <4>2. status[i] \in {"PENDING", "SKIPPED"}
        BY <1>1, <1>2, <4>1
      <4> QED
        BY <1>1, <1>2, <2>1, <3>1, <4>1, <4>2
    <3> QED
      BY <3>1, <3>2, <3>3
  <2>3. CASE phase # "new"
    <3>1. UNCHANGED <<status, cur>> /\ (lpc' = lpc \/ StartLanes)
      BY <1>2, <1>4, <2>3, OtherStepFrame
    <3>2. lpc'[m] = lpc[m] \/ (lpc[m] = "idle" /\ cur[m] = 0 /\ lpc'[m] \in {"next", "idle"})
      BY <1>2, <3>1 DEF StartLanes, IdleBeforeStart
    <3> QED
      BY <1>1, <1>2, <2>1, <3>1, <3>2
  <2> QED
    BY <2>2, <2>3
<1> QED
  BY <1>3, <1>4

LEMMA OverStep == IInv /\ OverWhenEnded /\ [Next]_vars => OverWhenEnded'
<1> SUFFICES ASSUME IInv, OverWhenEnded, [Next]_vars, phase' = "finished"
             PROVE  (\A l \in Lanes : Ended(l)') \/ \A i \in Jobs : status'[i] = "SKIPPED"
  BY PlanFixed DEF OverWhenEnded, Lanes
<1> USE DEF Ended
<1>1. TypeOK /\ IdleBeforeStart
  BY DEF IInv
<1>2. CASE phase = "finished"
  <2>1. CASE \E l \in LaneKeys : LaneStep(l)
    <3>1. PICK l \in LaneKeys : LaneStep(l)
      BY <2>1
    <3>2. lpc[l] \notin {"closed", "errored"}
      BY <1>1, <3>1, LaneStepFrame
    <3>3. \A m \in Lanes : m \in LaneKeys
      BY <1>1, JobHasLaneKey DEF Lanes, PlanLanes, TypeOK
    <3>4. \A i \in Jobs : status[i] = "SKIPPED" => status'[i] = "SKIPPED"
      BY <1>2, RunnableFixed
    <3> QED
      BY <1>1, <1>2, <3>1, <3>2, <3>3, <3>4, LaneStepFrame DEF OverWhenEnded
  <2>2. CASE \A l \in LaneKeys : ~ LaneStep(l)
    <3>1. status' = status /\ lpc' = lpc
      BY <1>1, <1>2, <2>2, OtherStepFrame DEF StartLanes
    <3> QED
      BY <1>2, <3>1 DEF OverWhenEnded
  <2> QED
    BY <2>1, <2>2
<1>3. CASE phase # "finished"
  <2>1. ProbeServers \/ CloseRun
    <3>1. CASE \E l \in LaneKeys : LaneStep(l)
      BY <1>1, <1>3, <3>1, LaneStepFrame
    <3>2. CASE MainStep \/ Interrupt
      BY <1>3, <3>2 DEF MainStep, ProbeRaises, CreateConfig, ConfigRaises, StartLanes, Interrupt
    <3>3. CASE \/ \E i \in Jobs : BackendExits(i)
               \/ \E s \in Sources : SizeKnown(s)
               \/ \E c \in Callers : SetCancel(c) \/ CancelStep(c)
      BY <1>3, <3>3 DEF BackendExits, SizeKnown, SetCancel, CancelStep, CopyActive, Terminate,
                        CancelReturns, mainVars
    <3>4. CASE UNCHANGED vars
      BY <1>3, <3>4 DEF vars, mainVars
    <3> QED
      BY <3>1, <3>2, <3>3, <3>4 DEF Next, Rest
  <2>2. CASE ProbeServers
    BY <2>2 DEF ProbeServers
  <2>3. CASE CloseRun
    BY <2>3 DEF CloseRun, laneVars
  <2> QED
    BY <2>1, <2>2, <2>3
<1> QED
  BY <1>2, <1>3

LEMMA OutcomeStep == IInv /\ OutcomeInv /\ [Next]_vars => OutcomeInv'
  BY AccountedStep, OverStep DEF OutcomeInv

LEMMA OutcomeAccounts == IInv /\ OutcomeInv => EveryJobAccounted
<1> SUFFICES ASSUME IInv, OutcomeInv, phase = "finished", NEW i \in Jobs
             PROVE  /\ status[i] = "PENDING" => cancelled \/ LaneErrored(i)
                    /\ status[i] = "RUNNING" => LaneErrored(i)
                    /\ status[i] = "CANCELLED" => cancelled
                    /\ status[i] \in {"OK", "FAIL"} =>
                           <<i, status[i]>> \in recorded \/ LaneErrored(i)
                    /\ status[i] = "FAIL" <=> i \in failures
                    /\ \A s \in Statuses : <<i, s>> \in recorded => s = status[i]
  BY DEF EveryJobAccounted
<1>1. LaneOf(jobs, i) \in LaneKeys /\ i \in LaneJobs(jobs, LaneOf(jobs, i))
  BY JobHasLaneKey DEF IInv, TypeOK, Jobs
<1>2. StatusTells(LaneOf(jobs, i), i) /\ NotedOnce(LaneOf(jobs, i), i)
  BY <1>1 DEF OutcomeInv, JobsAccounted
<1>3. LaneOf(jobs, i) \in Lanes
  BY DEF Lanes, PlanLanes, Jobs
<1>4. Ended(LaneOf(jobs, i)) \/ status[i] = "SKIPPED"
  BY <1>3 DEF OutcomeInv, OverWhenEnded
<1> QED
  BY <1>2, <1>4 DEF StatusTells, NotedOnce, In, Ended, LaneErrored, WorkPCs

LEMMA OutcomeInvariance == Spec => []OutcomeInv
  BY InitOutcome, OutcomeStep, Invariance, PTL DEF Spec

(* Whatever is offline, raises, fails or is cancelled, the result of a run *)
(* leaves no job out: each is explained, and the failures and the history  *)
(* agree with the job states.                                              *)
THEOREM ResultAccounts == Spec => []EveryJobAccounted
  BY OutcomeAccounts, OutcomeInvariance, Invariance, PTL

------------------------------------------------------------------------------
(* A job that builds on one cut short.  Both were started in order, so the *)
(* later one was not over when the earlier was cancelled; and nothing is   *)
(* judged after a cancel.                                                  *)
LEMMA CutShortStep ==
    IInv /\ OutcomeInv /\ CutShortIsNotBuiltOn /\ [Next]_vars => CutShortIsNotBuiltOn'
<1> SUFFICES ASSUME IInv, OutcomeInv, CutShortIsNotBuiltOn, [Next]_vars,
                    NEW i \in Jobs, NEW k \in Jobs, i < k, Contend(jobs[i], jobs[k]),
                    status'[i] = "CANCELLED", status'[k] \in {"OK", "FAIL"}
             PROVE  FALSE
  BY PlanFixed DEF CutShortIsNotBuiltOn
<1>1. TypeOK /\ IdleBeforeStart /\ i \in Nat /\ k \in Nat
  BY IndexesAreNaturals DEF IInv, TypeOK, Jobs
<1>2. CASE status'[i] = status[i] /\ status'[k] = status[k]
  BY <1>2 DEF CutShortIsNotBuiltOn
<1>3. CASE \A l \in LaneKeys : ~ LaneStep(l)
  <2>1. status' = status \/ ProbeServers
    BY <1>1, <1>3, OtherStepFrame, FirstStepFrame
  <2>2. ~ ProbeServers
    BY DEF ProbeServers
  <2> QED
    BY <1>2, <2>1, <2>2
<1>4. ASSUME NEW l \in LaneKeys, LaneStep(l), status' # status
      PROVE  FALSE
  <2>1. /\ lpc[l] \in BusyPCs
        /\ \A j \in Jobs : j # cur[l] => status'[j] = status[j]
    BY <1>4, LaneStatusFrame
  <2>2. cur[l] \in LaneJobs(jobs, l) /\ cur[l] \in Jobs
    BY <2>1, LaneJobsDisjoint DEF IInv, BusyWithOwnJob, Jobs
  <2>3. JudgeCancelled(l) \/ Judge(l) \/ BeginJob(l)
    BY <1>4 DEF LaneStep, TakeJob, StopTaking, WaitTimesOut, LookAtCancel, Spawn, Register, Reap,
                Record, JobRaises
  <2>4. CASE Judge(l)
    <3>1. ~ cancelled /\ k = cur[l]
      BY <1>1, <1>2, <2>1, <2>4 DEF Judge, TypeOK
    <3>2. status[i] = "CANCELLED"
      BY <1>1, <2>1, <3>1
    <3>3. LaneOf(jobs, i) \in LaneKeys /\ i \in LaneJobs(jobs, LaneOf(jobs, i))
      BY <1>1, JobHasLaneKey DEF TypeOK, Jobs
    <3> QED
      BY <3>1, <3>2, <3>3 DEF OutcomeInv, JobsAccounted, StatusTells
  <2>5. CASE JudgeCancelled(l)
    <3>1. i = cur[l] /\ lpc[l] = "exited"
      BY <1>1, <1>2, <2>1, <2>2, <2>5 DEF JudgeCancelled, TypeOK
    <3>2. Started(k)
      BY <1>1, <2>1, <3>1 DEF Started
    <3>3. i \in done
      BY <3>2 DEF IInv, StartedInOrder
    <3>4. ~ Passed(l, i) /\ ~ Ended(l)
      BY <1>1, <3>1 DEF Passed, Ended, BusyPCs, WorkPCs
    <3> QED
      BY <2>2, <3>1, <3>3, <3>4 DEF IInv, LaneOrder
  <2>6. CASE BeginJob(l)
    BY <1>1, <1>2, <2>1, <2>2, <2>6 DEF BeginJob, TypeOK
  <2> QED
    BY <2>3, <2>4, <2>5, <2>6
<1> QED
  BY <1>2, <1>3, <1>4

(* However a cancel interleaves with the lanes, no job is reported OK or   *)
(* FAIL on top of one that the cancel cut short.                           *)
THEOREM CutShortNotBuiltOn == Spec => []CutShortIsNotBuiltOn
<1>1. Init => CutShortIsNotBuiltOn
  BY DEF Init, CutShortIsNotBuiltOn
<1> QED
  BY <1>1, CutShortStep, OutcomeInvariance, Invariance, PTL DEF Spec

------------------------------------------------------------------------------
(* Where backends live.                                                    *)

AliveInLane ==
    \A i \in Jobs : backend[i] = "alive" =>
        cur[LaneOf(jobs, i)] = i /\ lpc[LaneOf(jobs, i)] \in {"spawned", "streaming"}

(* A lane at work is one of the plan's, and run() waits for it.            *)
LanesInsideRun ==
    \A l \in LaneKeys :
        /\ lpc[l] # "idle" => l \in Lanes
        /\ lpc[l] \notin {"idle", "closed", "errored"} => phase \in {"polling", "interrupted"}

ConfigsAtHand == phase \in {"polling", "interrupted"} => Unconfigured = {}

HousedInv == AliveInLane /\ LanesInsideRun /\ ConfigsAtHand

LEMMA InitHoused == Init => HousedInv
  BY DEF Init, HousedInv, AliveInLane, LanesInsideRun, ConfigsAtHand

LEMMA AliveStep == IInv /\ AliveInLane /\ [Next]_vars => AliveInLane'
<1> SUFFICES ASSUME IInv, AliveInLane, [Next]_vars, NEW i \in Jobs, backend'[i] = "alive"
             PROVE  /\ cur'[LaneOf(jobs, i)] = i
                    /\ lpc'[LaneOf(jobs, i)] \in {"spawned", "streaming"}
  BY PlanFixed DEF AliveInLane
<1> DEFINE m == LaneOf(jobs, i)
<1>1. TypeOK /\ IdleBeforeStart /\ m \in LaneKeys
  BY JobHasLaneKey DEF IInv, TypeOK, Jobs
<1>2. backend[i] = "alive" => cur[m] = i /\ lpc[m] \in {"spawned", "streaming"}
  BY DEF AliveInLane
<1> HIDE DEF m
<1>3. ASSUME NEW l \in LaneKeys, LaneStep(l)
      PROVE  cur'[m] = i /\ lpc'[m] \in {"spawned", "streaming"}
  <2>1. CASE Spawn(l)
    <3>1. /\ lpc[l] = "building" /\ lpc' = [lpc EXCEPT ![l] = "spawned"] /\ cur' = cur
          /\ backend' = [backend EXCEPT ![cur[l]] = "alive"]
      BY <2>1 DEF Spawn, GoTo
    <3>2. LaneOf(jobs, cur[l]) = l
      BY <3>1, LaneJobsDisjoint DEF IInv, BusyWithOwnJob, BusyPCs, WorkPCs
    <3>3. CASE i = cur[l]
      BY <1>1, <3>1, <3>2, <3>3 DEF TypeOK, m
    <3>4. CASE i # cur[l]
      BY <1>1, <1>2, <3>1, <3>4 DEF TypeOK
    <3> QED
      BY <3>3, <3>4
  <2>2. CASE ~ Spawn(l)
    <3>1. backend' = backend
      BY <1>3, <2>2 DEF LaneStep, TakeJob, StopTaking, WaitTimesOut, LookAtCancel, BeginJob, Register,
         Reap, JudgeCancelled, Judge, Record, JobRaises, procVars
    <3>2. cur[m] = i /\ lpc[m] \in {"spawned", "streaming"} /\ backend[i] = "alive"
      BY <1>2, <3>1
    <3>3. CASE m # l
      BY <1>1, <1>3, <3>2, <3>3, LaneStepFrame
    <3>4. CASE m = l
      <4>1. Register(l)
        BY <1>3, <2>2, <3>2, <3>4 DEF LaneStep, TakeJob, StopTaking, WaitTimesOut, LookAtCancel,
           BeginJob, Reap, JudgeCancelled, Judge, Record, JobRaises
      <4> QED
        BY <1>1, <3>2, <3>4, <4>1 DEF Register, GoTo, TypeOK
    <3> QED
      BY <3>3, <3>4
  <2> QED
    BY <2>1, <2>2
<1>4. ASSUME \A l \in LaneKeys : ~ LaneStep(l)
      PROVE  cur'[m] = i /\ lpc'[m] \in {"spawned", "streaming"}
  <2>1. backend[i] = "alive"
    <3>1. CASE MainStep \/ Interrupt
      BY <3>1 DEF MainStep, ProbeServers, ProbeRaises, CreateConfig, ConfigRaises, StartLanes, CloseRun,
                  Interrupt, procVars
    <3>2. CASE \/ \E s \in Sources : SizeKnown(s)
               \/ \E c \in Callers : SetCancel(c) \/ CancelStep(c)
      BY <3>2 DEF SizeKnown, SetCancel, CancelStep, CopyActive, Terminate, CancelReturns, procVars
    <3>3. CASE \E k \in Jobs : BackendExits(k)
      BY <1>1, <3>3 DEF BackendExits, TypeOK
    <3>4. CASE UNCHANGED vars
      BY <3>4 DEF vars, procVars
    <3> QED
      BY <1>4, <3>1, <3>2, <3>3, <3>4 DEF Next, Rest
  <2>2. phase # "new" /\ ~ StartLanes
    BY <1>1, <1>2, <2>1 DEF IdleBeforeStart, StartLanes
  <2> QED
    BY <1>1, <1>2, <1>4, <2>1, <2>2, OtherStepFrame
<1> QED
  BY <1>3, <1>4 DEF m

LEMMA InsideStep == IInv /\ LanesInsideRun /\ [Next]_vars => LanesInsideRun'
<1> SUFFICES ASSUME IInv, LanesInsideRun, [Next]_vars, NEW m \in LaneKeys
             PROVE  /\ lpc'[m] # "idle" => m \in Lanes
                    /\ lpc'[m] \notin {"idle", "closed", "errored"} =>
                           phase' \in {"polling", "interrupted"}
  BY PlanFixed DEF LanesInsideRun, Lanes
<1>1. TypeOK /\ IdleBeforeStart
  BY DEF IInv
<1>2. ASSUME NEW l \in LaneKeys, LaneStep(l)
      PROVE  /\ lpc'[m] # "idle" => m \in Lanes
             /\ lpc'[m] \notin {"idle", "closed", "errored"} =>
                    phase' \in {"polling", "interrupted"}
  BY <1>1, <1>2, LaneStepFrame DEF LanesInsideRun
<1>3. CASE StartLanes
  BY <1>3 DEF StartLanes
<1>4. CASE ProbeServers \/ ProbeRaises \/ CreateConfig \/ ConfigRaises
  BY <1>1, <1>4 DEF ProbeServers, ProbeRaises, CreateConfig, ConfigRaises, IdleBeforeStart, laneVars
<1>5. CASE CloseRun
  BY <1>5 DEF CloseRun, LanesInsideRun, laneVars, Ended
<1>6. CASE Interrupt
  BY <1>6 DEF Interrupt, LanesInsideRun, laneVars
<1>7. CASE \/ \E i \in Jobs : BackendExits(i)
           \/ \E s \in Sources : SizeKnown(s)
           \/ \E c \in Callers : SetCancel(c) \/ CancelStep(c)
           \/ UNCHANGED vars
  BY <1>7 DEF BackendExits, SizeKnown, SetCancel, CancelStep, CopyActive, Terminate,
              CancelReturns, LanesInsideRun, laneVars, mainVars, vars
<1> QED
  BY <1>2, <1>3, <1>4, <1>5, <1>6, <1>7 DEF Next, MainStep, Rest

LEMMA AtHandStep == IInv /\ ConfigsAtHand /\ [Next]_vars => ConfigsAtHand'
<1> SUFFICES ASSUME IInv, ConfigsAtHand, [Next]_vars, phase' \in {"polling", "interrupted"}
             PROVE  Unconfigured' = {}
  BY DEF ConfigsAtHand
<1>1. TypeOK /\ IdleBeforeStart
  BY DEF IInv
<1>2. /\ phase \in {"polling", "interrupted"} \/ StartLanes
      /\ configs' = configs /\ phase # "new"
  <2>1. CASE MainStep \/ Interrupt
    BY <1>1, <2>1 DEF MainStep, ProbeServers, ProbeRaises, CreateConfig, ConfigRaises, StartLanes, CloseRun,
                Interrupt, TypeOK
  <2>2. CASE \E l \in LaneKeys : LaneStep(l)
    <3>1. PICK l \in LaneKeys : LaneStep(l)
      BY <2>2
    <3>2. configs' = configs
      BY <3>1 DEF LaneStep, TakeJob, StopTaking, WaitTimesOut, LookAtCancel, BeginJob, Spawn, Register,
           Reap, JudgeCancelled, Judge, Record, JobRaises, mainVars
    <3> QED
      BY <1>1, <3>1, <3>2, LaneStepFrame
  <2>3. CASE \/ \E i \in Jobs : BackendExits(i)
             \/ \E s \in Sources : SizeKnown(s)
             \/ \E c \in Callers : SetCancel(c) \/ CancelStep(c)
             \/ UNCHANGED vars
    BY <2>3 DEF BackendExits, SizeKnown, SetCancel, CancelStep, CopyActive, Terminate,
                CancelReturns, mainVars, vars
  <2> QED
    BY <2>1, <2>2, <2>3 DEF Next, Rest
<1>3. Unconfigured = {}
  BY <1>2 DEF StartLanes, ConfigsAtHand
<1>4. Runnable' = Runnable /\ jobs' = jobs
  BY <1>2, RunnableFixed, PlanFixed
<1> QED
  BY <1>2, <1>3, <1>4 DEF Unconfigured

LEMMA HousedInvariance == Spec => []HousedInv
<1>1. IInv /\ HousedInv /\ [Next]_vars => HousedInv'
  BY AliveStep, InsideStep, AtHandStep DEF HousedInv
<1> QED
  BY <1>1, InitHoused, Invariance, PTL DEF Spec

(* No backend outlives its lane's _run_job or run() itself, and an rclone  *)
(* process always finds the temporary config it was given.                 *)
THEOREM BackendsHoused == Spec => []BackendInsideRun
<1>1. IInv /\ HousedInv => BackendInsideRun
  <2> SUFFICES ASSUME IInv, HousedInv, NEW i \in Jobs, backend[i] = "alive"
               PROVE  /\ AtWork(i)
                      /\ phase \in {"polling", "interrupted"}
                      /\ jobs[i].type = "rclone" => jobs[i].server \in configs
    BY DEF BackendInsideRun
  <2>1. LaneOf(jobs, i) \in LaneKeys
    BY JobHasLaneKey DEF IInv, TypeOK, Jobs
  <2>2. cur[LaneOf(jobs, i)] = i /\ lpc[LaneOf(jobs, i)] \in {"spawned", "streaming"}
    BY DEF HousedInv, AliveInLane
  <2>3. phase \in {"polling", "interrupted"}
    BY <2>1, <2>2 DEF HousedInv, LanesInsideRun
  <2>4. i \in Runnable
    BY <2>1, <2>2 DEF IInv, BusyWithOwnJob, BusyPCs, WorkPCs
  <2> QED
    BY <2>2, <2>3, <2>4 DEF AtWork, WorkPCs, HousedInv, ConfigsAtHand, Unconfigured
<1> QED
  BY <1>1, HousedInvariance, Invariance, PTL

------------------------------------------------------------------------------
(* SyncRunner implements JobSchedule: threads, done events, exceptions and *)
(* cancellation included, the jobs of a run start, and end, as the         *)
(* schedule allows.                                                        *)

(* What a lane has not reached, or is still waiting for, has not started.  *)
FreshAhead ==
    \A l \in LaneKeys : \A i \in LaneJobs(jobs, l) :
        \/ i > cur[l]
        \/ i = cur[l] /\ lpc[l] \in {"waiting", "timed_out"}
        => ~ Started(i)

LEMMA InitFresh == Init => FreshAhead
<1> SUFFICES ASSUME Init, NEW l \in LaneKeys, NEW i \in LaneJobs(jobs, l)
             PROVE  ~ Started(i)
  BY DEF FreshAhead
<1>1. i \in Jobs
  BY LaneJobsDisjoint DEF Jobs
<1> QED
  BY <1>1 DEF Init, Started

LEMMA FreshStep == IInv /\ FreshAhead /\ [Next]_vars => FreshAhead'
<1> SUFFICES ASSUME IInv, FreshAhead, [Next]_vars, NEW m \in LaneKeys, NEW i \in LaneJobs(jobs, m),
                    \/ i > cur'[m]
                    \/ i = cur'[m] /\ lpc'[m] \in {"waiting", "timed_out"}
             PROVE  ~ Started(i)'
  BY PlanFixed DEF FreshAhead
<1>1. TypeOK /\ i \in Jobs
  BY LaneJobsDisjoint DEF IInv, Jobs
<1>2. i \in Nat /\ \A l \in LaneKeys : cur[l] \in Nat
  BY <1>1, IndexesAreNaturals DEF TypeOK, Jobs
<1>3. CASE phase = "new"
  BY <1>1, <1>3, FirstStepFrame DEF IInv, FreshAhead, Started, ProbeServers, IdleBeforeStart
<1>4. CASE phase # "new" /\ \A l \in LaneKeys : ~ LaneStep(l)
  BY <1>1, <1>4, OtherStepFrame DEF FreshAhead, Started, StartLanes
<1>5. ASSUME phase # "new", NEW l \in LaneKeys, LaneStep(l)
      PROVE  ~ Started(i)'
  <2>1. CASE m # l
    <3>1. lpc[l] \in BusyPCs => i # cur[l]
      BY <2>1, LaneJobsDisjoint DEF IInv, BusyWithOwnJob
    <3> QED
      BY <1>1, <1>5, <2>1, <3>1, LaneStepFrame, LaneStatusFrame DEF FreshAhead, Started
  <2>2. CASE m = l
    <3> USE DEF GoTo, EndLane, laneVars, TypeOK
    <3>1. CASE TakeJob(l)
      <4>1. cur'[l] \in Later(l) /\ status' = status
        BY <1>1, <3>1 DEF TakeJob
      <4>2. cur'[l] \in Nat /\ cur'[l] > cur[l]
        BY <1>1, <4>1, IndexesAreNaturals, LaneJobsDisjoint DEF Later
      <4>3. i >= cur'[l]
        BY <1>2, <2>2, <4>2
      <4>4. i > cur[l]
        BY <1>2, <4>2, <4>3
      <4> QED
        BY <2>2, <4>1, <4>4 DEF FreshAhead, Started
    <3>2. CASE StopTaking(l) \/ WaitTimesOut(l) \/ LookAtCancel(l)
      BY <1>1, <2>2, <3>2 DEF StopTaking, WaitTimesOut, LookAtCancel, FreshAhead, Started
    <3>3. CASE BeginJob(l) \/ Judge(l) \/ JudgeCancelled(l)
      BY <1>1, <1>2, <2>2, <3>3 DEF BeginJob, Judge, JudgeCancelled, FreshAhead, Started
    <3>4. CASE Spawn(l) \/ Register(l) \/ Reap(l) \/ Record(l) \/ JobRaises(l)
      BY <1>1, <2>2, <3>4 DEF Spawn, Register, Reap, Record, JobRaises, FreshAhead, Started
    <3> QED
      BY <1>5, <3>1, <3>2, <3>3, <3>4 DEF LaneStep
  <2> QED
    BY <2>1, <2>2
<1> QED
  BY <1>3, <1>4, <1>5

------------------------------------------------------------------------------
(* The operators of the planner as JobSchedule sees them.                  *)

LEMMA SameOperators ==
    /\ \A plan : Schedule!Index(plan) = Index(plan)
    /\ \A j, k : Schedule!Contend(j, k) <=> Contend(j, k)
  BY DEF Schedule!Index, Index, Schedule!Contend, Contend, Schedule!PathsOverlap, PathsOverlap,
         Schedule!WritePath, WritePath, Schedule!ReadPath, ReadPath, Schedule!NormalizeLocalPath,
         NormalizeLocalPath, Schedule!IsLoopback, IsLoopback, Schedule!IsPrefix, IsPrefix

LEMMA InitImplements == Init => Schedule!SInit
<1> SUFFICES ASSUME Init
             PROVE  Schedule!SInit
  OBVIOUS
<1>1. ScheduleState = [i \in Jobs |-> "waiting"]
  BY DEF Init, ScheduleState, Started
<1> QED
  BY <1>1, SameOperators DEF Init, Schedule!SInit, Jobs

(* A step that starts no job and sets no done event is a stutter.          *)
LEMMA QuietStep ==
    ASSUME [Next]_vars, done' = done, \A i \in Jobs : Started(i)' <=> Started(i)
    PROVE  UNCHANGED Schedule!svars
  BY PlanFixed DEF Schedule!svars, ScheduleState

(* A step that only sets done events settles those jobs.                   *)
LEMMA DoneStep ==
    ASSUME [Next]_vars, TypeOK, done \subseteq done', done' \subseteq Jobs,
           \A i \in Jobs : Started(i)' <=> Started(i)
    PROVE  [Schedule!SNext]_(Schedule!svars)
<1>1. jobs' = jobs /\ Jobs' = Jobs
  BY PlanFixed
<1>2. CASE done' = done
  BY <1>2, QuietStep
<1>3. CASE done' # done
  <2> DEFINE S == done' \ done
  <2>1. S \in SUBSET Schedule!Index(jobs) /\ S # {}
    BY <1>3, SameOperators DEF Jobs
  <2>2. \A i \in S : ScheduleState[i] # "over"
    BY DEF ScheduleState
  <2>3. ScheduleState' = [i \in Schedule!Index(jobs) |->
                            IF i \in S THEN "over" ELSE ScheduleState[i]]
    BY <1>1, SameOperators DEF ScheduleState, Jobs
  <2>4. Schedule!Settle(S)
    BY <1>1, <2>1, <2>2, <2>3 DEF Schedule!Settle
  <2> QED
    BY <2>1, <2>4 DEF Schedule!SNext
<1> QED
  BY <1>2, <1>3

LEMMA BeginImplements ==
    ASSUME IInv, FreshAhead, [Next]_vars, phase # "new", NEW l \in LaneKeys, BeginJob(l)
    PROVE  [Schedule!SNext]_(Schedule!svars)
<1> DEFINE i == cur[l]
<1>1. jobs' = jobs /\ Jobs' = Jobs /\ TypeOK
  BY PlanFixed DEF IInv
<1>2. /\ lpc[l] = "waiting" /\ done' = done
      /\ status' = [status EXCEPT ![i] = "RUNNING"]
  BY DEF BeginJob
<1>3. i \in LaneJobs(jobs, l) /\ i \in Jobs
  BY <1>2, LaneJobsDisjoint DEF IInv, BusyWithOwnJob, BusyPCs, Jobs
<1>4. i \notin done /\ ~ Started(i)
  <2>1. ~ Passed(l, i)
    BY <1>2, <1>3, IndexesAreNaturals DEF Passed, BusyPCs, IInv, TypeOK, Jobs
  <2> QED
    BY <1>2, <1>3, <2>1 DEF IInv, LaneOrder, Ended, FreshAhead
<1>5. ScheduleState[i] = "waiting"
  BY <1>3, <1>4 DEF ScheduleState
<1>6. Schedule!Clear(i)
  <2>1. SUFFICES ASSUME NEW k \in 1 .. (i - 1), Contend(jobs[k], jobs[i])
                 PROVE  ScheduleState[k] = "over"
    BY SameOperators DEF Schedule!Clear
  <2>2. k \in Jobs /\ k < i
    BY <1>1, <1>3, PlannerAssumption DEF TypeOK, Jobs, Index
  <2>3. k \in done
    BY <2>1, <2>2, BeginInOrder
  <2> QED
    BY <2>2, <2>3 DEF ScheduleState
<1>7. ScheduleState' = [ScheduleState EXCEPT ![i] = "working"]
  BY <1>1, <1>2, <1>3, <1>4 DEF ScheduleState, Started, TypeOK
<1>8. Schedule!Start(i)
  BY <1>1, <1>5, <1>6, <1>7 DEF Schedule!Start
<1> QED
  BY <1>3, <1>8, SameOperators DEF Schedule!SNext, Jobs

LEMMA StepImplements ==
    ASSUME IInv, IInv', FreshAhead, [Next]_vars
    PROVE  [Schedule!SNext]_(Schedule!svars)
<1>1. TypeOK /\ done' \subseteq Jobs
  BY PlanFixed DEF IInv, TypeOK
<1>2. CASE phase = "new"
  <2>1. \A i \in Jobs : Started(i)' <=> Started(i)
    <3>1. CASE ProbeServers
      <4>1. \A l \in LaneKeys : cur[l] = 0
        BY <1>2 DEF IInv, IdleBeforeStart
      <4>2. SUFFICES ASSUME NEW i \in Jobs
                     PROVE  ~ Started(i) /\ ~ Started(i)'
        OBVIOUS
      <4>3. ~ Started(i)
        BY <1>1, <4>1, JobHasLaneKey, IndexesAreNaturals DEF FreshAhead, TypeOK, Jobs
      <4> QED
        BY <3>1, <4>3 DEF ProbeServers, Started
    <3>2. CASE status' = status
      BY <3>2 DEF Started
    <3> QED
      BY <1>2, <3>1, <3>2, FirstStepFrame DEF IInv
  <2> QED
    BY <1>2, <2>1, QuietStep, FirstStepFrame DEF IInv
<1>3. CASE phase # "new" /\ \A l \in LaneKeys : ~ LaneStep(l)
  BY <1>3, OtherStepFrame, QuietStep DEF IInv, Started
<1>4. ASSUME phase # "new", NEW l \in LaneKeys, LaneStep(l), ~ BeginJob(l)
      PROVE  [Schedule!SNext]_(Schedule!svars)
  <2>1. \A i \in Jobs : Started(i)' <=> Started(i)
    <3>1. CASE lpc[l] \in WorkPCs
      <4>1. Started(cur[l])
        BY <3>1 DEF IInv, StatusOfWork, Started
      <4> QED
        BY <1>4, <4>1, LaneStatusFrame DEF Started
    <3>2. CASE lpc[l] \notin WorkPCs
      <4>1. CASE TakeJob(l) \/ StopTaking(l) \/ WaitTimesOut(l) \/ LookAtCancel(l)
        BY <4>1 DEF TakeJob, StopTaking, WaitTimesOut, LookAtCancel, Started
      <4>2. CASE Spawn(l) \/ Register(l) \/ Reap(l) \/ JudgeCancelled(l) \/ Judge(l)
        BY <3>2, <4>2 DEF Spawn, Register, Reap, JudgeCancelled, Judge, WorkPCs
      <4>3. CASE Record(l) \/ JobRaises(l)
        BY <3>2, <4>3 DEF Record, JobRaises, WorkPCs
      <4> QED
        BY <1>4, <4>1, <4>2, <4>3 DEF LaneStep
    <3> QED
      BY <3>1, <3>2
  <2> QED
    BY <1>1, <1>4, <2>1, LaneDoneFrame, DoneStep
<1> QED
  BY <1>2, <1>3, <1>4, BeginImplements

(* Every behaviour of a run is, job by job, a behaviour of the schedule.   *)
THEOREM Implementation == Spec => ImplementsSchedule
<1>1. IInv /\ IInv' /\ FreshAhead /\ [Next]_vars => [Schedule!SNext]_(Schedule!svars)
  BY StepImplements
<1>2. Spec => []FreshAhead
  BY InitFresh, FreshStep, Invariance, PTL DEF Spec
<1> QED
  BY <1>1, <1>2, InitImplements, Invariance, PTL DEF Spec, ImplementsSchedule, Schedule!SSpec
==============================================================================
