------------------------------ MODULE LiveFeed -------------------------------
(***************************************************************************)
(* The job cards of a browser: the events a run emits about its jobs       *)
(* (src/sshsync/runner.py), the feed that carries them (web/app.py) and    *)
(* what src/sshsync/web/static/app.js makes of them.                       *)
(*                                                                         *)
(* An event refers to the job states of its run and gets its contents when *)
(* it is sent.  A run is that of SyncRunner as far as statuses go, and one *)
(* follows the other as in RunManager.  The queue and the running flag of  *)
(* a browser are modelled there.                                           *)
(***************************************************************************)
EXTENDS Naturals, Sequences

CONSTANTS
    Jobs,           \* the selectors of jobs
    NoCard,         \* a job that is not of a run, or has no live state
    Batches,        \* the sets of jobs that a run may have
    Lane,           \* the lane of each job: its server, or the local one
    MaxRuns,        \* bound: runs
    MaxConnects,    \* bound: connections the browser opens
    MaxFeed,        \* bound: events waiting to be sent
    MaxWire         \* bound: messages on their way

(* "ENDED" is any of TERMINAL_STATUSES.                                    *)
Statuses == {"PENDING", "RUNNING", "ENDED"}

ASSUME FeedAssumption ==
    /\ NoCard \notin Statuses
    /\ Batches \subseteq (SUBSET Jobs) \ {{}}
    /\ DOMAIN Lane = Jobs
    /\ MaxRuns \in Nat /\ MaxConnects \in Nat
    /\ MaxFeed \in Nat \ {0} /\ MaxWire \in Nat \ {0}

VARIABLES
    (* The server. *)
    run,        \* the run in progress, or the last one; 0 at first
    phase,      \* how far it is
    states,     \* job_states of every run
    cancelled,  \* cancel() was called for the run
    raised,     \* jobs of the run that ended with an exception
    owed,       \* jobs with a change of status that their lane is to emit
    walks,      \* <<r, j>>: the walk of its source will report job j of run r
    feed,       \* the subscriber's asyncio queue
    (* The browser. *)
    connects,   \* connections opened
    connected,
    wire,       \* messages sent and not received
    live,       \* state.live
    timers,     \* resultTimers: jobs whose result is lingering
    loads,      \* for each job, how many of its timers await loadHistory()
    (* What an observer remembers. *)
    disturbed   \* jobs that an earlier run reaches into the display of this one

runVars == <<run, phase, states, cancelled, raised, owed, walks>>
linkVars == <<feed, connects, connected, wire>>
cardVars == <<live, timers, loads, disturbed>>
vars == <<runVars, linkVars, cardVars>>

Init ==
    /\ run = 0
    /\ phase = "idle"
    /\ states = [r \in 1 .. MaxRuns |-> [j \in Jobs |-> NoCard]]
    /\ cancelled = FALSE
    /\ raised = {} /\ owed = {} /\ walks = {}
    /\ feed = << >>
    /\ connects = 0
    /\ connected = FALSE
    /\ wire = << >>
    /\ live = [j \in Jobs |-> NoCard]
    /\ timers = {}
    /\ loads = [j \in Jobs |-> 0]
    /\ disturbed = {}

------------------------------------------------------------------------------
(* A run.                                                                  *)

(* Emit: _publish hands the event to the browser, if it is subscribed.     *)
Emit(event) ==
    /\ Len(feed) < MaxFeed
    /\ feed' = IF connected THEN Append(feed, event) ELSE feed
    /\ UNCHANGED <<connects, connected, wire, cardVars>>

AllJobs(type) == [type |-> type, run |-> run]
Updated(r, j) == [type |-> "job_updated", run |-> r, job |-> j]

SetStatus(j, status) == states' = [states EXCEPT ![run][j] = status]

(* The manager registers a run of the jobs; its thread announces it.       *)
Register(jobs) ==
    /\ phase = "idle"
    /\ run < MaxRuns
    /\ run' = run + 1
    /\ phase' = "registered"
    /\ states' = [states EXCEPT ![run + 1] =
                    [j \in Jobs |-> IF j \in jobs THEN "PENDING" ELSE NoCard]]
    /\ cancelled' = FALSE
    /\ raised' = {}
    /\ UNCHANGED <<owed, walks, linkVars, cardVars>>

Announce ==
    /\ phase = "registered"
    /\ phase' = "checking"
    /\ Emit(AllJobs("run_started"))
    /\ UNCHANGED <<run, states, cancelled, raised, owed, walks>>

SkipOffline(j) ==
    /\ phase = "checking"
    /\ states[run][j] = "PENDING"
    /\ SetStatus(j, "ENDED")
    /\ Emit(Updated(run, j))
    /\ UNCHANGED <<run, phase, cancelled, raised, owed, walks>>

(* The sources of all jobs are walked, the skipped ones' too.              *)
StartLanes ==
    /\ phase = "checking"
    /\ \E j \in Jobs : states[run][j] = "PENDING"
    /\ phase' = "running"
    /\ walks' = walks \cup {<<run, j>> : j \in {k \in Jobs : states[run][k] # NoCard}}
    /\ UNCHANGED <<run, states, cancelled, raised, owed, linkVars, cardVars>>

(* In an order that SyncRunner determines, and also after a cancel that    *)
(* came between the check and the start.                                   *)
BeginJob(j) ==
    /\ phase = "running"
    /\ states[run][j] = "PENDING"
    /\ SetStatus(j, "RUNNING")
    /\ owed' = owed \cup {j}
    /\ UNCHANGED <<run, phase, cancelled, raised, walks, linkVars, cardVars>>

(* Seeded fault: a job ends with a status no browser knows.                *)
EndJob_NewStatus(j) ==
    /\ phase = "running"
    /\ states[run][j] = "RUNNING"
    /\ j \notin raised \cup owed
    /\ SetStatus(j, "TIMEOUT")
    /\ owed' = owed \cup {j}
    /\ UNCHANGED <<run, phase, cancelled, raised, walks, linkVars, cardVars>>

EndJob(j) ==
    /\ phase = "running"
    /\ states[run][j] = "RUNNING"
    /\ j \notin raised \cup owed
    /\ SetStatus(j, "ENDED")
    /\ owed' = owed \cup {j}
    /\ UNCHANGED <<run, phase, cancelled, raised, walks, linkVars, cardVars>>

EmitJob(j) ==
    /\ j \in owed
    /\ owed' = owed \ {j}
    /\ Emit(Updated(run, j))
    /\ UNCHANGED <<run, phase, states, cancelled, raised, walks>>

(* The backend reports progress (on_update).                               *)
Progress(j) ==
    /\ phase = "running"
    /\ states[run][j] = "RUNNING"
    /\ j \notin raised \cup owed
    /\ Emit(Updated(run, j))
    /\ UNCHANGED runVars

(* Before the outcome: the status stays RUNNING.                           *)
JobRaises(j) ==
    /\ phase = "running"
    /\ states[run][j] = "RUNNING"
    /\ j \notin raised \cup owed
    /\ raised' = raised \cup {j}
    /\ UNCHANGED <<run, phase, states, cancelled, owed, walks, linkVars, cardVars>>

(* append_job_stats raises between the change to OK or FAIL and the event  *)
(* about it, which is then never emitted.                                  *)
RecordRaises(j) ==
    /\ phase = "running"
    /\ states[run][j] = "ENDED"
    /\ j \in owed
    /\ owed' = owed \ {j}
    /\ raised' = raised \cup {j}
    /\ UNCHANGED <<run, phase, states, cancelled, walks, linkVars, cardVars>>

Cancel ==
    /\ phase # "idle" /\ ~cancelled
    /\ cancelled' = TRUE
    /\ UNCHANGED <<run, phase, states, raised, owed, walks, linkVars, cardVars>>

(* The size of a source is known, perhaps when the run is long over.       *)
SizeKnown(r, j) ==
    /\ <<r, j>> \in walks
    /\ walks' = walks \ {<<r, j>>}
    /\ Emit(Updated(r, j))
    /\ UNCHANGED <<run, phase, states, cancelled, raised, owed>>

(* A job is settled, or its lane will not reach it.                        *)
Passed(j) ==
    \/ states[run][j] \in {"ENDED", NoCard}
    \/ j \in raised
    \/ states[run][j] = "PENDING" /\ (cancelled \/ \E k \in raised : Lane[k] = Lane[j])

FinishRun ==
    /\ phase \in {"checking", "running"}
    /\ phase = "checking" => \A j \in Jobs : states[run][j] # "PENDING"
    /\ \A j \in Jobs : Passed(j) /\ j \notin owed
    /\ phase' = "idle"
    /\ Emit(AllJobs("run_finished"))
    /\ UNCHANGED <<run, states, cancelled, raised, owed, walks>>

(* run() raises before the lanes start.                                    *)
FailRun ==
    /\ phase = "checking"
    /\ phase' = "idle"
    /\ Emit(AllJobs("run_failed"))
    /\ UNCHANGED <<run, states, cancelled, raised, owed, walks>>

------------------------------------------------------------------------------
(* The connection.                                                         *)

Connect ==
    /\ ~connected
    /\ connects < MaxConnects
    /\ connects' = connects + 1
    /\ connected' = TRUE
    /\ feed' = <<AllJobs("snapshot")>>
    /\ UNCHANGED <<wire, runVars, cardVars>>

Disconnect ==
    /\ connected
    /\ connected' = FALSE
    /\ feed' = << >>
    /\ wire' = << >>
    /\ UNCHANGED <<connects, runVars, cardVars>>

JobsOf(r) == IF r = 0 THEN [j \in Jobs |-> NoCard] ELSE states[r]

(* send_json: what the job states hold now is what the browser will get.   *)
Rendered(event) ==
    IF event.type = "job_updated"
    THEN [event |-> event, jobs |-> [j \in {event.job} |-> states[event.run][j]]]
    ELSE [event |-> event, jobs |-> JobsOf(event.run)]

Send ==
    /\ feed # << >>
    /\ Len(wire) < MaxWire
    /\ feed' = Tail(feed)
    /\ wire' = Append(wire, Rendered(Head(feed)))
    /\ UNCHANGED <<connects, connected, runVars, cardVars>>

------------------------------------------------------------------------------
(* The browser.                                                            *)

Ended(jobs) == {j \in DOMAIN jobs : jobs[j] = "ENDED"}

(* Seeded fault: the timers of the run before go on.                       *)
ReplaceLiveJobs_KeepTimers(jobs) ==
    /\ live' = jobs
    /\ timers' = timers \cup Ended(jobs)
    /\ disturbed' = {j \in Jobs : loads[j] > 0}

ReplaceLiveJobs(jobs) ==
    /\ live' = jobs
    /\ timers' = Ended(jobs)
    /\ disturbed' = {j \in Jobs : loads[j] > 0}

(* Seeded fault: the result of a job that had none before is not retired.  *)
UpdateLiveJob_KnownOnly(message) ==
    LET j == message.event.job IN
    /\ live' = [live EXCEPT ![j] = message.jobs[j]]
    /\ timers' = IF live[j] = NoCard THEN timers ELSE timers \cup Ended(message.jobs)
    /\ disturbed' = IF message.event.run < run THEN disturbed \cup {j} ELSE disturbed

UpdateLiveJob(message) ==
    LET j == message.event.job IN
    /\ live' = [live EXCEPT ![j] = message.jobs[j]]
    /\ timers' = timers \cup Ended(message.jobs)
    /\ disturbed' = IF message.event.run < run THEN disturbed \cup {j} ELSE disturbed

(* applyEvent; run_failed leaves the cards alone.                          *)
Receive ==
    /\ wire # << >>
    /\ wire' = Tail(wire)
    /\ LET message == Head(wire) IN
       CASE message.event.type \in {"snapshot", "run_started", "run_finished"} ->
                ReplaceLiveJobs(message.jobs)
         [] message.event.type = "job_updated" -> UpdateLiveJob(message)
         [] message.event.type = "run_failed" -> UNCHANGED <<live, timers, disturbed>>
    /\ UNCHANGED <<loads, feed, connects, connected, runVars>>

(* The result has lingered: the history is asked for first, ...            *)
TimerFires(j) ==
    /\ j \in timers
    /\ timers' = timers \ {j}
    /\ loads' = [loads EXCEPT ![j] = @ + 1]
    /\ UNCHANGED <<live, disturbed, linkVars, runVars>>

(* ... and then the card is given back, whatever it shows by then.         *)
Retire(j) ==
    /\ loads[j] > 0
    /\ loads' = [loads EXCEPT ![j] = @ - 1]
    /\ live' = [live EXCEPT ![j] = NoCard]
    /\ UNCHANGED <<timers, disturbed, linkVars, runVars>>

------------------------------------------------------------------------------
JobStep(j) ==
    \/ SkipOffline(j) \/ BeginJob(j) \/ Progress(j) \/ EndJob(j) \/ EmitJob(j)
    \/ JobRaises(j) \/ RecordRaises(j)
    \/ \E r \in 1 .. run : SizeKnown(r, j)

RunStep ==
    \/ \E jobs \in Batches : Register(jobs)
    \/ Announce \/ StartLanes \/ Cancel \/ FinishRun \/ FailRun

LinkStep == Connect \/ Disconnect \/ Send \/ Receive
CardStep(j) == TimerFires(j) \/ Retire(j)

Next == RunStep \/ LinkStep \/ \E j \in Jobs : JobStep(j) \/ CardStep(j)

Spec == Init /\ [][Next]_vars

(* Timers fire and requests are answered, with an error if need be.        *)
FairSpec == Spec /\ \A j \in Jobs : WF_vars(TimerFires(j)) /\ WF_vars(Retire(j))

------------------------------------------------------------------------------
(* Properties.                                                             *)

Events ==
    [type : {"snapshot", "run_started", "run_finished", "run_failed"}, run : 0 .. MaxRuns]
    \cup [type : {"job_updated"}, run : 1 .. MaxRuns, job : Jobs]
CardStates == Statuses \cup {NoCard}

TypeOK ==
    /\ run \in 0 .. MaxRuns
    /\ phase \in {"idle", "registered", "checking", "running"}
    /\ states \in [1 .. MaxRuns -> [Jobs -> CardStates]]
    /\ cancelled \in BOOLEAN
    /\ raised \subseteq Jobs /\ owed \subseteq Jobs
    /\ walks \subseteq (1 .. MaxRuns) \X Jobs
    /\ feed \in Seq(Events)
    /\ connects \in 0 .. MaxConnects
    /\ connected \in BOOLEAN
    /\ \A i \in DOMAIN wire : wire[i].event \in Events
    /\ Len(wire) <= MaxWire
    /\ live \in [Jobs -> CardStates]
    /\ timers \subseteq Jobs
    /\ loads \in [Jobs -> Nat]
    /\ disturbed \subseteq Jobs

CaughtUp == connected /\ feed = << >> /\ wire = << >> /\ owed = {} /\ phase # "registered"

(* A browser that has received everything shows the run: a job that is     *)
(* waiting or running has its card, with its status, and a card that went  *)
(* away is that of a job that has ended; across runs that follow one       *)
(* another, lost connections and lingering results, unless an earlier run  *)
(* still reaches in: a result of it was being retired when this one began, *)
(* or a walk of it reports late (replaceLiveJobs, retireResult).  A job    *)
(* whose outcome could not be recorded shows RUNNING, but only while its   *)
(* run goes on (_run_job, run_finished).                                   *)
CardsFollowTheRun ==
    CaughtUp => \A j \in Jobs \ disturbed :
        \/ live[j] = JobsOf(run)[j]
        \/ live[j] = NoCard /\ JobsOf(run)[j] = "ENDED"
        \/ live[j] = "RUNNING" /\ JobsOf(run)[j] = "ENDED" /\ j \in raised /\ phase = "running"

(* A result never stays: "it lingers just long enough to read and then     *)
(* gives the card back", on whatever event it arrived (retireResult).      *)
ResultsRetire ==
    \A j \in Jobs : live[j] = "ENDED" ~> live[j] # "ENDED"

(* isInActiveRun: "Is this selector part of the run that is happening      *)
(* right now?"                                                             *)
ActiveCardsAreOfTheRun ==
    CaughtUp /\ phase = "idle" =>
        \A j \in Jobs \ disturbed : live[j] \in {"ENDED", NoCard}
==============================================================================
