----------------------------- MODULE RunManager ------------------------------
(***************************************************************************)
(* The web server's run queue: class RunManager of                         *)
(* src/sshsync/web/manager.py, the request handlers of web/app.py that     *)
(* call it, and the Close item of src/tray.py.                             *)
(*                                                                         *)
(* Handlers run on the threads of a pool, every run on a thread of its own.*)
(* The manager's lock makes one step of what a thread does while it holds  *)
(* it; between two such sections other threads run.  Events are published  *)
(* after the lock is released, to each subscriber in turn.                 *)
(*                                                                         *)
(* A queue entry and the run made of it have one number, the entry's id.   *)
(* Ids grow along the queue, so the queue is kept as a set of ids.  A run  *)
(* is a black box that returns or raises: see SyncRunner.                  *)
(***************************************************************************)
EXTENDS Naturals, Sequences, FiniteSets

CONSTANTS
    Selectors,      \* job selectors
    Configs,        \* contents config.json may have
    Unreadable,     \* config.json is missing or invalid
    Batches,        \* bodies of POST /api/run: sequences of selector sets
    Handlers,       \* threads that serve requests
    Closer,         \* the handler thread of the tray's Close item
    Subscribers,    \* browsers that may open the live feed
    Nothing,        \* what a browser that is not connected shows
    MaxEntries,     \* bound: queue entries ever made
    MaxCalls,       \* bound: calls of handlers
    MaxEdits        \* bound: changes of config.json

(* A config: its enabled jobs, and those of them select_jobs finds under   *)
(* their own selector (not so when two jobs share one).                    *)
Config == [enabled : SUBSET Selectors, named : SUBSET Selectors]

ASSUME ManagerAssumption ==
    /\ Configs \subseteq Config
    /\ Unreadable \notin Configs
    /\ Batches \subseteq Seq(SUBSET Selectors)
    /\ Closer \in Handlers
    /\ MaxEntries \in Nat /\ MaxCalls \in Nat /\ MaxEdits \in Nat
    /\ Handlers \cap (1 .. MaxEntries) = {}
    /\ Subscribers \cap (Handlers \cup 1 .. MaxEntries) = {}
    /\ Nothing \notin [running : BOOLEAN, queue : SUBSET (1 .. MaxEntries)]

RunPCs == {"unborn", "built", "inside", "ending", "loaded", "closing", "ended"}
HandlerPCs == {"idle", "resolved", "answering", "stopping", "cancelling",
               "waiting", "joining", "joined", "closed"}

Runs == 1 .. MaxEntries
Threads == Handlers \cup Runs

VARIABLES
    config,     \* what config.json holds
    waiting,    \* _queue: the ids of its entries
    asked,      \* the selectors of each entry
    seq,        \* _queue_seq
    running,    \* _state["running"]
    active,     \* _active_selectors
    current,    \* the run of _runner and _thread, 0 at first
    rpc,        \* where each run's thread is
    failed,     \* runs whose runner.run() raised
    hpc,        \* where each handler is
    request,    \* the requests a handler has resolved
    held,       \* the config each thread has loaded
    toStart,    \* the thread each thread will start, 0 for none
    toStop,     \* the runner each handler will cancel, 0 for none
    joins,      \* the thread wait() joins
    outbox,     \* events each thread still has to publish
    sending,    \* subscribers its first event still has to reach
    view,       \* what each browser shows, Nothing before it connects
    calls, edits

queueVars == <<waiting, asked, seq>>
stateVars == <<running, active, current>>
runVars == <<rpc, failed>>
callVars == <<hpc, request, toStop, joins, calls>>
feedVars == <<sending, view>>
vars == <<config, queueVars, stateVars, runVars, callVars, held, toStart,
          outbox, feedVars, edits>>

QueueUpdated(queue) == [type |-> "queue_updated", queue |-> queue]
RunStarted == [type |-> "run_started"]
RunOver == [type |-> "run_over"]      \* run_finished or run_failed

------------------------------------------------------------------------------
Init ==
    /\ config \in Configs
    /\ waiting = {} /\ asked = [e \in Runs |-> {}] /\ seq = 0
    /\ running = FALSE /\ active = {} /\ current = 0
    /\ rpc = [r \in Runs |-> "unborn"]
    /\ failed = {}
    /\ hpc = [h \in Handlers |-> "idle"]
    /\ request = [h \in Handlers |-> << >>]
    /\ held = [t \in Threads |-> Unreadable]
    /\ toStart = [t \in Threads |-> 0]
    /\ toStop = [h \in Handlers |-> 0]
    /\ joins = 0
    /\ outbox = [t \in Threads |-> << >>]
    /\ sending = [t \in Threads |-> {}]
    /\ view = [s \in Subscribers |-> Nothing]
    /\ calls = 0 /\ edits = 0

(* select_jobs: no selectors stand for every enabled job.                  *)
Resolves(cfg, selectors) == selectors \subseteq cfg.named
Chosen(cfg, selectors) ==
    IF selectors = {} THEN cfg.enabled
    ELSE IF Resolves(cfg, selectors) THEN selectors ELSE {}

------------------------------------------------------------------------------
(* Publishing.                                                             *)

Free(t) == outbox[t] = << >>

(* Seeded fault: an event replaces what is shown instead of updating it.   *)
Shown_Replaced(v, event) ==
    CASE event.type = "queue_updated" -> [queue |-> event.queue]
      [] event.type = "run_started"   -> [running |-> TRUE]
      [] event.type = "run_over"      -> [running |-> FALSE]

(* What a browser shows after an event (applyEvent of app.js).             *)
Shown(v, event) ==
    CASE event.type = "queue_updated" -> [v EXCEPT !.queue = event.queue]
      [] event.type = "run_started"   -> [v EXCEPT !.running = TRUE]
      [] event.type = "run_over"      -> [v EXCEPT !.running = FALSE]

(* Under the lock the event joins the history and the subscribers are      *)
(* copied; t itself stays in sending[t] until all of them are served.      *)
Publish(t) ==
    /\ ~ Free(t)
    /\ sending[t] = {}
    /\ LET open == {s \in Subscribers : view[s] # Nothing} IN
        IF open = {}
        THEN outbox' = [outbox EXCEPT ![t] = Tail(@)] /\ UNCHANGED sending
        ELSE sending' = [sending EXCEPT ![t] = open \cup {t}] /\ UNCHANGED outbox
    /\ UNCHANGED <<config, queueVars, stateVars, runVars, callVars, held,
                   toStart, view, edits>>

(* The event loop puts the event on a subscriber's queue, from where the   *)
(* web socket sends it: browsers see events in the order of these calls.   *)
Deliver(t, s) ==
    /\ s \in sending[t] \ {t}
    /\ view' = [view EXCEPT ![s] = Shown(@, Head(outbox[t]))]
    /\ sending' = [sending EXCEPT ![t] = @ \ {s}]
    /\ UNCHANGED <<config, queueVars, stateVars, runVars, callVars, held,
                   toStart, outbox, edits>>

Published(t) ==
    /\ sending[t] = {t}
    /\ sending' = [sending EXCEPT ![t] = {}]
    /\ outbox' = [outbox EXCEPT ![t] = Tail(@)]
    /\ UNCHANGED <<config, queueVars, stateVars, runVars, callVars, held,
                   toStart, view, edits>>

(* A browser connects: it is sent a snapshot, then the events.             *)
Subscribe(s) ==
    /\ view[s] = Nothing
    /\ view' = [view EXCEPT ![s] = [running |-> running, queue |-> waiting]]
    /\ UNCHANGED <<config, queueVars, stateVars, runVars, callVars, held,
                   toStart, outbox, sending, edits>>

(* Its queue is dropped; what is still put on it nobody reads.             *)
Unsubscribe(s) ==
    /\ view[s] # Nothing
    /\ view' = [view EXCEPT ![s] = Nothing]
    /\ sending' = [t \in Threads |-> sending[t] \ {s}]
    /\ UNCHANGED <<config, queueVars, stateVars, runVars, callVars, held,
                   toStart, outbox, edits>>

------------------------------------------------------------------------------
(* The entry the queue promotes.                                           *)
Front(live) == {e \in live : \A k \in live : e <= k}

(* Seeded fault: the entry added last is promoted first.                   *)
LaunchNext_FromTheBack(t, cfg, q, asks, pcs) ==
    LET live == {e \in q : Chosen(cfg, asks[e]) # {}} IN
    \/ /\ live = {}
       /\ waiting' = {}
       /\ running' = FALSE
       /\ active' = {}
       /\ rpc' = pcs
       /\ UNCHANGED <<current, toStart>>
    \/ \E e \in {k \in live : \A n \in live : n <= k} :
        /\ waiting' = {k \in q : k < e}
        /\ running' = TRUE
        /\ active' = Chosen(cfg, asks[e])
        /\ current' = e
        /\ rpc' = [pcs EXCEPT ![e] = "built"]
        /\ toStart' = [toStart EXCEPT ![t] = e]

(* Seeded fault: one entry is looked at, not the first that can run.       *)
LaunchNext_OneEntry(t, cfg, q, asks, pcs) ==
    \/ /\ \A e \in Front(q) : Chosen(cfg, asks[e]) = {}
       /\ waiting' = q \ Front(q)
       /\ running' = FALSE
       /\ active' = {}
       /\ rpc' = pcs
       /\ UNCHANGED <<current, toStart>>
    \/ \E e \in Front(q) :
        /\ Chosen(cfg, asks[e]) # {}
        /\ waiting' = q \ {e}
        /\ running' = TRUE
        /\ active' = Chosen(cfg, asks[e])
        /\ current' = e
        /\ rpc' = [pcs EXCEPT ![e] = "built"]
        /\ toStart' = [toStart EXCEPT ![t] = e]

(* _launch_next_locked and _build_and_register_locked, on thread t, with   *)
(* the queue q: entries whose jobs are gone are dropped until one is left  *)
(* to run.  pcs are the places of the other run threads.                   *)
LaunchNext(t, cfg, q, asks, pcs) ==
    LET live == {e \in q : Chosen(cfg, asks[e]) # {}} IN
    \/ /\ live = {}
       /\ waiting' = {}
       /\ running' = FALSE
       /\ active' = {}
       /\ rpc' = pcs
       /\ UNCHANGED <<current, toStart>>
    \/ \E e \in Front(live) :
        /\ waiting' = {k \in q : k > e}
        /\ running' = TRUE
        /\ active' = Chosen(cfg, asks[e])
        /\ current' = e
        /\ rpc' = [pcs EXCEPT ![e] = "built"]
        /\ toStart' = [toStart EXCEPT ![t] = e]

(* thread.start(), if there is one to start; its runner first emits        *)
(* run_started.  pcs as above.                                             *)
StartThread(t, pcs) ==
    LET r == toStart[t] IN
    /\ rpc' = IF r = 0 THEN pcs ELSE [pcs EXCEPT ![r] = "inside"]
    /\ outbox' = IF r = 0 THEN outbox ELSE [outbox EXCEPT ![r] = <<RunStarted>>]
    /\ toStart' = [toStart EXCEPT ![t] = 0]

------------------------------------------------------------------------------
(* Handlers.                                                               *)

Call(h, pc) ==
    /\ h # Closer
    /\ hpc[h] = "idle"
    /\ calls < MaxCalls
    /\ calls' = calls + 1
    /\ hpc' = [hpc EXCEPT ![h] = pc]

(* submit() loads the config and resolves every request.  A call that      *)
(* fails here changes nothing.                                             *)
Submit(h, batch) ==
    /\ Call(h, "resolved")
    /\ config # Unreadable
    /\ \A i \in DOMAIN batch : Resolves(config, batch[i])
    /\ request' = [request EXCEPT ![h] =
                    [i \in DOMAIN batch |-> Chosen(config, batch[i])]]
    /\ held' = [held EXCEPT ![h] = config]
    /\ UNCHANGED <<config, queueVars, stateVars, runVars, toStop, joins,
                   toStart, outbox, feedVars, edits>>

(* Seeded fault: the jobs of the run in progress are not taken.            *)
Taken_QueueOnly == UNION {asked[e] : e \in waiting}

Taken == (IF running THEN active ELSE {}) \cup UNION {asked[e] : e \in waiting}

(* The requests of a batch that join the queue: none of their jobs is      *)
(* running, queued or in an earlier request of the batch.                  *)
Accepted(batch, in) ==
    \A i \in DOMAIN batch :
        i \in in <=>
            batch[i] \cap (Taken \cup UNION {batch[k] : k \in {j \in in : j < i}}) = {}

(* The id the i-th request gets.                                           *)
IdOf(in, i) == seq + Cardinality({k \in in : k <= i})

(* Seeded fault: the first request starts whether or not a run is on.      *)
Enqueue_NoRunningCheck(h) ==
    /\ hpc[h] = "resolved"
    /\ \E in \in SUBSET DOMAIN request[h] :
        /\ Accepted(request[h], in)
        /\ seq + Cardinality(in) <= MaxEntries
        /\ seq' = seq + Cardinality(in)
        /\ asked' = [e \in Runs |->
                        IF \E i \in in : IdOf(in, i) = e
                        THEN request[h][CHOOSE i \in in : IdOf(in, i) = e]
                        ELSE asked[e]]
        /\ LaunchNext(h, held[h], waiting \cup {IdOf(in, i) : i \in in}, asked', rpc)
    /\ outbox' = [outbox EXCEPT ![h] = <<QueueUpdated(waiting')>>]
    /\ hpc' = [hpc EXCEPT ![h] = "answering"]
    /\ request' = [request EXCEPT ![h] = << >>]
    /\ held' = [held EXCEPT ![h] = Unreadable]
    /\ UNCHANGED <<config, failed, toStop, joins, calls, feedVars, edits>>

(* The locked section of submit().                                         *)
Enqueue(h) ==
    /\ hpc[h] = "resolved"
    /\ \E in \in SUBSET DOMAIN request[h] :
        LET q == waiting \cup {IdOf(in, i) : i \in in} IN
        /\ Accepted(request[h], in)
        /\ seq + Cardinality(in) <= MaxEntries
        /\ seq' = seq + Cardinality(in)
        /\ asked' = [e \in Runs |->
                        IF \E i \in in : IdOf(in, i) = e
                        THEN request[h][CHOOSE i \in in : IdOf(in, i) = e]
                        ELSE asked[e]]
        /\ IF running
           THEN waiting' = q /\ UNCHANGED <<stateVars, rpc, toStart>>
           ELSE LaunchNext(h, held[h], q, asked', rpc)
    /\ outbox' = [outbox EXCEPT ![h] = <<QueueUpdated(waiting')>>]
    /\ hpc' = [hpc EXCEPT ![h] = "answering"]
    /\ request' = [request EXCEPT ![h] = << >>]
    /\ held' = [held EXCEPT ![h] = Unreadable]
    /\ UNCHANGED <<config, failed, toStop, joins, calls, feedVars, edits>>

(* The event is out: the thread is started and the call returns.           *)
Answer(h) ==
    /\ hpc[h] = "answering"
    /\ Free(h)
    /\ StartThread(h, rpc)
    /\ hpc' = [hpc EXCEPT ![h] = "idle"]
    /\ UNCHANGED <<config, queueVars, stateVars, failed, request,
                   toStop, joins, calls, held, feedVars, edits>>

Dequeue(h, e) ==
    /\ Call(h, "answering")
    /\ e \in waiting
    /\ waiting' = waiting \ {e}
    /\ outbox' = [outbox EXCEPT ![h] = <<QueueUpdated(waiting')>>]
    /\ UNCHANGED <<config, asked, seq, stateVars, runVars, request, toStop, joins,
                   held, toStart, feedVars, edits>>

(* The locked section of cancel().                                         *)
TakeRunner(h) ==
    /\ waiting' = {}
    /\ toStop' = [toStop EXCEPT ![h] = IF running THEN current ELSE 0]
    /\ outbox' = IF waiting = {} THEN outbox
                 ELSE [outbox EXCEPT ![h] = <<QueueUpdated({})>>]
    /\ UNCHANGED <<config, asked, seq, stateVars, runVars, request, joins, held,
                   toStart, feedVars, edits>>

Cancel(h) == Call(h, "stopping") /\ TakeRunner(h)

(* runner.cancel(), or an error if no run was in progress.                 *)
StopRun(h) ==
    /\ hpc[h] = "stopping"
    /\ Free(h)
    /\ hpc' = [hpc EXCEPT ![h] = IF h # Closer THEN "idle"
                                 ELSE IF toStop[h] = 0 THEN "closed" ELSE "waiting"]
    /\ toStop' = [toStop EXCEPT ![h] = 0]
    /\ UNCHANGED <<config, queueVars, stateVars, rpc, failed, request, joins,
                   calls, held, toStart, outbox, feedVars, edits>>

------------------------------------------------------------------------------
(* The tray's Close item: is_running, cancel(), wait(timeout=30).          *)

CloseTray ==
    /\ hpc[Closer] = "idle"
    /\ hpc' = [hpc EXCEPT ![Closer] = IF running THEN "cancelling" ELSE "closed"]
    /\ UNCHANGED <<config, queueVars, stateVars, runVars, request, toStop, joins,
                   calls, held, toStart, outbox, feedVars, edits>>

CancelForClose ==
    /\ hpc[Closer] = "cancelling"
    /\ hpc' = [hpc EXCEPT ![Closer] = "stopping"]
    /\ TakeRunner(Closer)
    /\ UNCHANGED calls

(* wait() takes the thread.  Joining one that was not started is an error, *)
(* which on_close swallows.                                                *)
Wait ==
    /\ hpc[Closer] = "waiting"
    /\ joins' = current
    /\ hpc' = [hpc EXCEPT ![Closer] = IF rpc[current] = "built" THEN "closed" ELSE "joining"]
    /\ UNCHANGED <<config, queueVars, stateVars, runVars, request, toStop, calls,
                   held, toStart, outbox, feedVars, edits>>

(* The thread has ended, or 30 seconds are over.                           *)
WaitReturns ==
    /\ hpc[Closer] = "joining"
    /\ \/ rpc[joins] = "ended" /\ hpc' = [hpc EXCEPT ![Closer] = "joined"]
       \/ rpc[joins] # "ended" /\ hpc' = [hpc EXCEPT ![Closer] = "closed"]
    /\ UNCHANGED <<config, queueVars, stateVars, runVars, request, toStop, joins,
                   calls, held, toStart, outbox, feedVars, edits>>

------------------------------------------------------------------------------
(* A run's thread: _run.                                                   *)

(* runner.run() returns, after emitting run_finished, or raises.           *)
RunReturns(r) ==
    /\ rpc[r] = "inside"
    /\ Free(r)
    /\ \/ outbox' = [outbox EXCEPT ![r] = <<RunOver>>] /\ UNCHANGED failed
       \/ failed' = failed \cup {r} /\ UNCHANGED outbox
    /\ rpc' = [rpc EXCEPT ![r] = "ending"]
    /\ UNCHANGED <<config, queueVars, stateVars, callVars, held,
                   toStart, feedVars, edits>>

LoadConfig(r) ==
    /\ rpc[r] = "ending"
    /\ Free(r)
    /\ held' = [held EXCEPT ![r] = config]
    /\ rpc' = [rpc EXCEPT ![r] = "loaded"]
    /\ UNCHANGED <<config, queueVars, stateVars, failed, callVars,
                   toStart, outbox, feedVars, edits>>

(* The locked section of _run.  Without a config nothing is promoted.      *)
FinishRun(r) ==
    /\ rpc[r] = "loaded"
    /\ LET pcs == [rpc EXCEPT ![r] = "closing"] IN
        IF held[r] # Unreadable
        THEN LaunchNext(r, held[r], waiting, asked, pcs)
        ELSE /\ rpc' = pcs
             /\ running' = FALSE
             /\ active' = {}
             /\ UNCHANGED <<waiting, current, toStart>>
    /\ outbox' = [outbox EXCEPT ![r] =
                    (IF r \in failed THEN <<RunOver>> ELSE << >>) \o
                    (IF running' THEN <<QueueUpdated(waiting')>> ELSE << >>)]
    /\ held' = [held EXCEPT ![r] = Unreadable]
    /\ UNCHANGED <<config, asked, seq, failed, callVars, feedVars, edits>>

(* Seeded fault: the promoted run's thread is not started.                 *)
EndThread_NoStart(r) ==
    /\ rpc[r] = "closing"
    /\ Free(r)
    /\ rpc' = [rpc EXCEPT ![r] = "ended"]
    /\ UNCHANGED <<config, queueVars, stateVars, failed, callVars, toStart, outbox,
                   held, feedVars, edits>>

EndThread(r) ==
    /\ rpc[r] = "closing"
    /\ Free(r)
    /\ StartThread(r, [rpc EXCEPT ![r] = "ended"])
    /\ UNCHANGED <<config, queueVars, stateVars, failed, callVars,
                   held, feedVars, edits>>

------------------------------------------------------------------------------
(* PUT /api/config, or a text editor.                                      *)
EditConfig ==
    /\ edits < MaxEdits
    /\ edits' = edits + 1
    /\ config' \in (Configs \cup {Unreadable}) \ {config}
    /\ UNCHANGED <<queueVars, stateVars, runVars, callVars, held, toStart,
                   outbox, feedVars>>

HandlerStep(h) == Enqueue(h) \/ Answer(h) \/ StopRun(h)
CloserStep == CancelForClose \/ Wait \/ WaitReturns
RunStep(r) == RunReturns(r) \/ LoadConfig(r) \/ FinishRun(r) \/ EndThread(r)
FeedStep(t) == Publish(t) \/ Published(t) \/ \E s \in Subscribers : Deliver(t, s)

Next ==
    \/ \E h \in Handlers :
        \/ \E batch \in Batches : Submit(h, batch)
        \/ \E e \in Runs : Dequeue(h, e)
        \/ Cancel(h)
        \/ HandlerStep(h)
    \/ CloseTray \/ CloserStep
    \/ \E r \in Runs : RunStep(r)
    \/ \E t \in Threads : FeedStep(t)
    \/ \E s \in Subscribers : Subscribe(s) \/ Unsubscribe(s)
    \/ EditConfig

Spec == Init /\ [][Next]_vars

(* Fairness.  Threads go on with what they have begun, and a run ends: the *)
(* runner's own liveness, for backends that end.  Nothing is assumed of    *)
(* requests, browsers, edits or the tray.                                  *)
Fairness ==
    /\ \A h \in Handlers : WF_vars(HandlerStep(h))
    /\ \A r \in Runs : WF_vars(RunStep(r))
    /\ \A t \in Threads : WF_vars(FeedStep(t))
    /\ WF_vars(CloserStep)

FairSpec == Spec /\ Fairness

------------------------------------------------------------------------------
(* Properties.                                                             *)

Views == [running : BOOLEAN, queue : SUBSET Runs] \cup {Nothing}
Events == [type : {"queue_updated"}, queue : SUBSET Runs]
          \cup [type : {"run_started", "run_over"}]

TypeOK ==
    /\ config \in Configs \cup {Unreadable}
    /\ waiting \subseteq Runs
    /\ asked \in [Runs -> SUBSET Selectors]
    /\ seq \in 0 .. MaxEntries
    /\ running \in BOOLEAN
    /\ active \subseteq Selectors
    /\ current \in Runs \cup {0}
    /\ rpc \in [Runs -> RunPCs]
    /\ failed \subseteq Runs
    /\ hpc \in [Handlers -> HandlerPCs]
    /\ request \in [Handlers -> Seq(SUBSET Selectors)]
    /\ held \in [Threads -> Configs \cup {Unreadable}]
    /\ toStart \in [Threads -> Runs \cup {0}]
    /\ toStop \in [Handlers -> Runs \cup {0}]
    /\ joins \in Runs \cup {0}
    /\ outbox \in [Threads -> Seq(Events)]
    /\ sending \in [Threads -> SUBSET (Subscribers \cup Threads)]
    /\ view \in [Subscribers -> Views]
    /\ calls \in 0 .. MaxCalls
    /\ edits \in 0 .. MaxEdits

(* The run has been set up and has not left the manager's state yet.       *)
InProgress(r) == rpc[r] \in {"built", "inside", "ending", "loaded"}

(* runner.run() is on the stack of run r's thread.                         *)
Inside(r) == rpc[r] = "inside" \/ (rpc[r] = "ending" /\ ~ Free(r))

(* Two runs are never in progress together, whichever threads launch them: *)
(* the flag, the promotion at the end of a run and the start of a thread   *)
(* outside the lock add up to one run at a time (submit, _run).            *)
OneRunAtATime == \A r, k \in Runs : Inside(r) /\ Inside(k) => r = k

(* No job a run or queue entry was asked for is asked for by another entry *)
(* that waits: neither two requests at once, nor a request during a        *)
(* promotion, line a job up twice.                                         *)
LinedUpOnce ==
    \A e \in waiting :
        /\ \A k \in waiting : k # e => asked[k] \cap asked[e] = {}
        /\ running => asked[current] \cap asked[e] = {}

(* Runs start in the order their requests joined the queue, and an entry   *)
(* that was dequeued, or dropped by a cancel, never runs.                  *)
QueueOrder ==
    [][\A e \in Runs : rpc[e] = "unborn" /\ rpc'[e] # "unborn" =>
          /\ e \in waiting \/ e > seq
          /\ \A k \in Runs : k > e => rpc'[k] = "unborn"]_vars

(* What has become of an entry.                                            *)
Stage(e) ==
    CASE rpc[e] = "built" -> "called"
      [] rpc[e] \in {"inside", "ending", "loaded"} -> "running"
      [] rpc[e] \in {"closing", "ended"} -> "over"
      [] rpc[e] = "unborn" -> IF e > seq THEN "new"
                              ELSE IF e \in waiting THEN "waiting" ELSE "dropped"

Queue == INSTANCE RunQueue WITH
            Jobs <- Selectors,
            Looks <- {{s \in SUBSET Selectors : Chosen(cfg, s) # {}} : cfg \in Configs},
            stage <- [e \in Runs |-> Stage(e)]

(* Threads, locked sections and starts outside of them implement the       *)
(* queue: requests run one at a time and in order, whichever thread        *)
(* promotes them, and only those are passed over that cannot run by the    *)
(* config the promoting thread has loaded.                                 *)
ImplementsQueue == Queue!QSpec

(* When the tray's wait() has joined a thread, no run up to that one is    *)
(* still in progress: closing leaves no earlier run thread to be killed    *)
(* with the process (wait, on_close).                                      *)
WaitCoversEarlierRuns ==
    hpc[Closer] = "joined" => \A r \in Runs : r <= joins => ~ InProgress(r)

(* A run that was set up is started and ends, and the manager is ready for *)
(* the next: no thread is lost between the lock and its start.             *)
RunsEnd == \A r \in Runs : rpc[r] = "built" ~> rpc[r] = "ended"

(* As long as config.json can be read, every entry leaves the queue.       *)
QueueDrains ==
    [](config # Unreadable) => \A e \in Runs : e \in waiting ~> e \notin waiting

------------------------------------------------------------------------------
(* What the docstrings say and the code does not do.                       *)

(* Nothing is on its way to a browser.                                     *)
Quiet == \A t \in Threads : Free(t)

(* "a browser that connects late still sees the whole picture".            *)
ClientsSeeTheRun ==
    Quiet /\ (\A r \in Runs : rpc[r] \in {"unborn", "inside", "ended"})
        => \A s \in Subscribers : view[s] # Nothing => view[s].running = running
==============================================================================
