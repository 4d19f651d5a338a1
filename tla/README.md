# Verification of ssh-sync

ssh-sync mirrors directory trees: robocopy jobs copy between local drives,
rclone jobs upload over SFTP. A run executes several jobs at once, one lane of
threads per server; it can be started from the command line or from a web
interface with a queue, and cancelled from either. Its outcome goes into a
history and a failure log, and to the job cards of every browser. This
directory holds TLA+ models of the parts where order, concurrency and failure
decide whether that works, the TLC configurations that check them on small
instances, and proofs, checked by TLAPS, that the central properties hold for
every instance.

`PROJECT.json` is the index: every component, run, property, definition with
the source lines it stands for, hazard, finding and theorem.

    tlasany M.tla                              parse a module
    tlc -workers 2 -config X.cfg M             check a configuration
    tlapm RunManagerProofs.tla                 check the proofs of a module

## 1. The system

| component | state | operations | talks to |
|---|---|---|---|
| planner (`planner.py`) | none | lanes, local read/write trees, overlap, dependencies, required servers | called once per run by the runner |
| runner (`runner.py`) | job states, done events, cancel event, active processes, failures, temporary configs | `run`, `cancel`; threads: main, one per lane, a pool that walks source trees | planner, executor, history, failure log, a listener for events |
| executor (`executor.py`) | the child process, parsed counters, bounded buffers | spawn, stream, parse, finalize, unregister | the backend; `_track_process` of the runner |
| commands (`commands.py`) | none | argv, tuning, temporary rclone config, server probe | runner, web app |
| web manager (`web/manager.py`) | lock, queue, current runner and thread, run state, event history, subscribers | `submit`, `dequeue`, `cancel`, `wait`, `_run`, `subscribe`, `unsubscribe`, `_publish` | handlers call it, run threads are its own, it writes to each browser's queue |
| web app (`web/app.py`) | none of its own | HTTP handlers on a thread pool, `live_feed` on the event loop | manager, config store, history, logs |
| browser (`web/static/app.js`) | config, queue, running flag, live jobs, timers | `applyEvent`, `applyServerState`, dialogs, requests, server checks | HTTP and WebSocket |
| tray (`tray.py`) | icon, server thread | Open, Copy, Close | manager: `is_running`, `cancel`, `wait` |
| config store (`config.py`) | `config.json` | load, validate, atomic save, `select_jobs` | runner's callers, manager, app |
| history (`stats.py`) | append-only log, older single-file store, summary cache | append, migrate, tail read, summarise | runner writes, app and command line read |
| failure log (`logs.py`) | a file per day | append a section; list and read back | runner writes, app reads |
| cli, ui, paths, utils, launcher | a terminal | formatting and I/O | |

What is hard in it, and what makes it correct:

- **planner**: a missing edge lets two backends work on one tree; a
  superfluous one serialises lanes. Dependencies must be exactly the pairs that
  share a written local place.
- **runner**: lanes wait for one another's done events; a lane may raise, be
  cancelled, or skip offline jobs at any point; `cancel()` runs on any thread
  between any two steps, also between a process's birth and its registration.
  Contending jobs must never overlap, cancellation must reach every backend, a
  killed backend must not be judged by its exit code, nothing may be built on a
  tree that was cut short, every wait must end, and the result must account for
  every job.
- **executor and failure log**: buffers drop lines, two places decide what an
  exit code means, and lanes that fail together write to one file, which may be
  full. Verdict and counters must agree, the errors must reach the log in a
  section of their own, and logging must hold up nobody.
- **manager**: the flag, the queue and the current thread change under a lock,
  but threads start and events leave after it is released. One run at a time,
  in queue order, no job twice, no thread lost, browsers not misled.
- **browser cards**: an event gets its contents when it is sent, not when it is
  emitted; results linger on timers and on an awaited request; walks of an
  earlier run report late. A browser that has received everything must show
  the run, and a result must go away.
- **config store**: a save is several steps, each of which may fail or be the
  last one before a crash; two tabs replace the whole document; jobs are named
  by selectors that depend on their texts. The file must stay whole and valid,
  and a selector must find its job and never guess.
- **history**: a write may be cut inside a character, the older store is
  converted by whoever comes first and readers take no lock, two processes
  share only the files, entries arrive out of order, and a summary is cached by
  the size of the log. Nothing acknowledged may be lost, no summary stale.

The full list of hazards, each at its line and with the property that would
catch it or the reason why none does, is in `PROJECT.json`.

## 2. The modules

| module | role |
|---|---|
| `Planner` | the pure scheduling rules: lanes, paths, `Contend`, `Dependencies` |
| `JobPlans`, `MCPlanner` | the plans a config can give, and the places their jobs really share, to compare the dependencies with |
| `JobSchedule` | abstract: what a run promises about its jobs |
| `SyncRunner`, `MCSyncRunner` | one run, with every thread of it and the backends; EXTENDS `Planner`, instantiates `JobSchedule` |
| `BackendOutput`, `MCBackendOutput` | what becomes of a backend's output: parsers, buffers, verdict, failure log |
| `RunQueue` | abstract: what the manager promises about requests |
| `RunManager`, `MCRunManager` | the run queue, its handlers, run threads, feed, and the tray's Close; instantiates `RunQueue` |
| `LiveFeed`, `MCLiveFeed` | the job cards of a browser: events of runs, the connection, `applyEvent`, timers |
| `Selectors`, `ConfigStore`, `MCConfig` | validation and selectors; the edits of two tabs and the saves they cause |
| `History`, `MCHistory` | the log, the conversion of the older store, tail read, summary and cache |
| `PlannerProofs`, `SyncRunnerProofs`, `OutputProofs`, `RunManagerProofs`, `LiveFeedProofs` | proofs about the module they are named after, `OutputProofs` about `BackendOutput` |
| `ConfigStoreProofs` | proofs about `Selectors` and `ConfigStore` |
| `HistoryReadProofs`, `HistoryProofs` | what parsing, the tail read and the summary return, for every log; proofs about `History` |

How they fit together. To `RunManager` a run is a thread that is inside
`runner.run()` until it returns or raises (`RunReturns`), and that this happens
is `RunEnds` of `SyncRunner`; `SyncRunner` in turn sees the manager as one of
the `Cancellers`. `BackendOutput` opens up what `SyncRunner` takes as one step
(`Reap` to `Record`): the lines a backend prints and what is made of them.
`LiveFeed` has of a run only the statuses of its jobs, in the order in which
`SyncRunner` changes them, and of the manager that one run follows the other.
`History` is the other side of `Record`, and `Selectors` is what `RunManager`
calls resolving.

### Planner

A plan is the sequence of job records of a run in config order; a path is the
sequence of its segments, so that "equal or below" is `IsPrefix` and the text
work of `normalize_local_path` (separators, case, trailing slashes) is
abstracted. `NoPath` is the empty text. The root directory loses its only
character in the code and becomes the empty text, which overlaps nothing:
`NormalizeLocalPath` keeps that, and `JobPlans` leaves the root out of its
paths, because there the dependencies would not be exact. The tool's local
trees are Windows drives (`d:`), whose root keeps its letter. `JobPlans` gives
a path its meaning, the set of places at or below it (`Tree`), without the text
of the path: `SharePlaces` is what `Contend` is meant to find out.

### SyncRunner

Each thread has a program counter: the main thread `phase` ("new",
"configuring", "polling", "interrupted", "finished", "raised"), each lane
`lpc` (before a job, waiting for prerequisites, building the command, spawned
but not registered, streaming, exited, recording, closed, errored), each caller
of `cancel()` `cpc`. A step is what the code does between two points at which
another thread can see or change shared state.

| code | actions |
|---|---|
| `run` up to the lanes | `ProbeServers`, `ProbeRaises`, `CreateConfig`, `ConfigRaises`, `StartLanes` |
| `run` polling, Ctrl+C, `finally`, `_finish` | `Interrupt`, `CloseRun` |
| `_start_source_sizing` | `SizeKnown` |
| `_run_lane` | `TakeJob`, `StopTaking`, `EndLane` (its outer `finally`) |
| `_wait_for_dependencies` | `WaitTimesOut`, `LookAtCancel`, `BeginJob` |
| `_run_job`, `stream_command`, `_track_process` | `Spawn`, `Register`, `Reap`, `JobRaises`, `JudgeCancelled`, `Judge`, `Record` |
| `cancel` | `SetCancel`, `CopyActive`, `Terminate`, `CancelReturns` |
| the backend (external) | `BackendExits` |

Left out: event payloads, progress counters, timing, latency and concurrency
tuning, the text of results and logs. `BackendExits` gives a killed backend
either exit code, because a terminated robocopy exits with a code below 8,
which counts as success.

### BackendOutput

A line is known by its place in the output and by its kind: noise, an error, a
summary, robocopy's table of failed files. `tail` and `errors` are the two
bounded buffers of `stream_command`, `stats` the counters of the parser.

| code | actions |
|---|---|
| `stream_command`, `feed` of the parsers | `PrintLine`, with `Feed`, `Push` and `IsErrorLine` |
| the exit, `finalize` | `Exit`, with `Finalize` |
| `_run_job` after the exit | `Judge`, `Record` |
| `write_failure_log` | `TakeLogLock`, `WriteHead`, `WriteBody`, `LogFails` |

A section of the log is longer than a write buffer, so it reaches the disk in
pieces, of which there are two here. Cancelled jobs are left to `SyncRunner`.

### RunManager

Handlers (`Handlers`) serve one call at a time; run `r` has a thread of its
own, named by the id of its queue entry. Ids are handed out in queue order and
entries are only ever removed, so the queue is the set `waiting` of ids, and
its front the smallest. One locked section is one step.

| code | actions |
|---|---|
| `submit`: load and resolve; the locked section; publish, start, return | `Submit`, `Enqueue`, `Answer` |
| `dequeue` | `Dequeue`, `Answer` |
| `cancel`: the locked section; publish, stop the runner | `Cancel`, `StopRun` |
| `_launch_next_locked`, `_build_and_register_locked` | `LaunchNext`, part of `Enqueue` and `FinishRun` |
| `_run`: `runner.run()`; load the config; locked section; publish and start | `RunReturns`, `LoadConfig`, `FinishRun`, `EndThread` |
| `_publish`: copy the subscribers; one call to the loop for each; return | `Publish`, `Deliver`, `Published` |
| `subscribe` and the snapshot, `unsubscribe` | `Subscribe`, `Unsubscribe` |
| `tray.py` `on_close` | `CloseTray`, `CancelForClose`, `StopRun`, `Wait`, `WaitReturns` |
| `PUT /api/config` or an editor | `EditConfig` |

`toStart[t]` is the local variable `thread` of thread `t`: a run that is
registered but not started. `held[t]` is the config it loaded before the lock.
`outbox[t]` is what it still has to publish, `sending[t]` the subscribers the
first of these has not reached. `view` is what a browser shows of the queue
and of the running flag, by `applyEvent`. A config is the set of enabled jobs
and those that `select_jobs` finds by their selector; an entry with no
selectors stands for every enabled job, as in the code. A run's `dry_run`, the
last result and the event history carry no control and are left out. `submit`
that fails to load or resolve changes nothing and is no step.

### LiveFeed

The server half has a run's job states and the events it emits, the browser
half `state.live`, the timers of results and the requests they wait for.

| code | actions |
|---|---|
| `_build_and_register_locked`, `run_started` | `Register`, `Announce` |
| `run`: offline servers; the lanes and walks; the end | `SkipOffline`, `StartLanes`, `FinishRun`, `FailRun` |
| `_run_job`: change a status, then emit it; progress | `BeginJob`, `EndJob`, `EmitJob`, `Progress` |
| the exception of a job: before its outcome; in `append_job_stats`, so that the event is never emitted | `JobRaises`; `RecordRaises` |
| `_start_source_sizing` | `SizeKnown` |
| `cancel` | `Cancel` |
| `connectLiveFeed`, `subscribe`, `live_feed` | `Connect`, `Disconnect`, `Send` |
| `applyEvent`, `replaceLiveJobs`, `updateLiveJob` | `Receive`, with `ReplaceLiveJobs` and `UpdateLiveJob` |
| `retireResult`: the timer; after `loadHistory()` | `TimerFires`, `Retire` |

The job objects in an event are shared with the runner and turned into text by
`send_json`, so `feed` holds events without contents and `Rendered` reads the
job states when one is sent; the browser may see a later status than the one
that was emitted, never an earlier one. `disturbed` marks the jobs into whose
display an earlier run still reaches (next section), `raised` those whose
exception ended their lane; `owed` holds the changes of status that an event
is still to follow.

### Selectors and ConfigStore

A text is the sequence of the words between its colons, and `Lower` and `Strip`
are functions on words, so a name that contains a colon, differs in case only
or repeats the name of a type is an ordinary value.

| code | definitions |
|---|---|
| `validate_config` | `Valid`, `ValidServers`, `ValidJob` |
| `job_selector`, `parse_selector`, `_job_matches`, `select_jobs` | `JobSelector`, `WellFormed`, `Matches`, `Accepts` and `SelectJobs` |
| the dialogs and `persistConfig` of `app.js` | `SaveJob`, `DeleteJob`, `AddServer`, `EditServer`, `DeleteServer`, by `Send` |
| `put_config`, `save_config` | `Validate`, `OpenTemp`, `WriteTemp`, `Replace`, `CleanUp`, `Answer`, `Refuse` |
| `get_config` | `Reload` |
| the server is killed (external) | `Crash` |

`temps` holds the temporary files on disk, `Broken` between creation and the
last write.

### History

An entry is a number, in the order of the ends of the jobs. Its line has four
bytes: text, a character of two bytes outside ASCII, the line feed; so a cut
can fall before, inside and after the character.

| code | actions and operators |
|---|---|
| `append_job_stats` | `MakeEntry`, `TakeLock`, `WriteEntry`, `WriteFails` |
| `_migrate_legacy_store` | `CheckStores`, `ReadLegacy`, `FillTemp`, `ReplaceLog`, `RenameLegacy` |
| `_read_tail_lines`, `load_entries` | `ReadTail`, `Load`; `TailStart`, `TailBytes`, `ParseEntries`, `TailEntries` |
| `summarize`, `_history_fingerprint`, `_accumulate` | `AskSummary`, `LookInCache`, `Load`, `Compare`, `Store`, `Return`; `Summarize` |
| a process dies (external) | `Crash` |

The lock and the cache are per process. The fingerprint is the size of the
log: the time of the last change can only make a hit rarer, and a coarse clock
not even that. `overlapped` becomes true when two threads convert the older
store at the same time with no lock between them (next section).

### Seeded faults

Operators that follow the comment "Seeded fault" (`Register_NoRecheck`,
`Taken_QueueOnly`, ...) are what a plausible mistake would make of the
definition they are named after. No specification uses them. `PROJECT.json`
("mutants") pairs each property with one: put in the place of the real
definition, the property must fail, which shows that the run can see the
mistake at all.

## 3. What is checked

| run | instance | states | properties |
|---|---|---|---|
| planner | every list of up to 3 jobs; 2 servers (one loopback), nested, equal and disjoint paths | 47,989 | `DependenciesAreExact` |
| runner_safety | 4 plans: fan-out with a job that has two prerequisites, chain with an overwritten source, a mirror second in its lane, two lanes waiting for each other; 1 canceller and Ctrl+C; 1 walker | 548,756 | `TypeOK` `NoOverlap` `CancelReachesBackends` `KilledIsNotJudged` `BackendInsideRun` `EveryJobAccounted` `CutShortIsNotBuiltOn` `ImplementsSchedule` |
| runner_liveness | 3 plans: one with a cross-lane wait, one where two jobs share a source, one where two lanes wait for each other | 123,170 | `CancelEndsRun` `RunEnds` `JobsSettle` |
| output | a lane with up to 3 lines and one with 1, each robocopy or rclone; exit codes 0, 7, 8; buffers of 2 lines and of 1 error; 1 failed write | 418,145 | `TypeOK` `StatusMatchesErrors` `ErrorsReachTheLog` `SectionsAreWhole` `LoggingNeverBlocks` |
| manager_safety | 2 request threads and the tray, 1 browser, 3 entries, 2 calls, 1 edit of the config; request threads symmetric | 825,577 | `TypeOK` `OneRunAtATime` `LinedUpOnce` `WaitCoversEarlierRuns` |
| manager_liveness | 1 request thread and the tray, 3 jobs in one batch, one of which may stop resolving, 2 calls, 1 edit | 59,202 | `ImplementsQueue` `RunsEnd` `QueueDrains` |
| live | 2 runs of one job each, the same or another; 2 connections; 1 event waiting, 1 message on its way | 511,157 | `TypeOK` `CardsFollowTheRun` `ResultsRetire` |
| config | 2 symmetric tabs, 2 saves, 2 faults; 4 jobs the dialog may save; 2 configs to start from, with names that differ in case, hold a colon or an outer blank | 252,316 | `TypeOK` `ConfigStaysValid` `StraysAreExplained` `EditsNeverDangle` `SelectorsFind` `SelectionIsUnambiguous` |
| history | 2 symmetric lanes and a dashboard request in one process, the command line in another; 4 entries, with an older store of 2 or none; chunks of 3 bytes, a margin of 1 line; 1 cut write or crash | 392,365 | `TypeOK` `CutsCostOneEntry` `LegacyIsCarriedOver` `CacheIsCurrent` `SummaryIsFresh` `TailIsExact` `SummaryAddsUp` |

Why the bounds suffice.

- An edge of the planner depends on two jobs; the third lets one be in the
  middle. Every hazard of the runner involves at most two lanes, a caller of
  `cancel()` and a backend; the plans give each lane a job before and after its
  dependency, and `Crossed` (for liveness the smaller `ThereAndBack`) has waits
  in both directions. One walker and two sources make a queued walk.
- In the manager three entries are one running, one promoted and one behind it;
  two calls on two threads race each other, the end of a run and the tray, and
  one edit makes an entry vanish between its request and its turn.
- In `output` three lines overflow both buffers, and the codes are success and
  the two sides of robocopy's limit; the second lane fails while the first
  writes its section.
- In `live` cards affect one another only through a cancelled run or a lane
  that raised, so a run of one job at a time is enough; two runs are one and
  the one it reaches into, two connections a lost one and its successor.
- In `config` two saves race each other, and two faults are what a leftover
  file takes. In `history` a line is longer than a chunk, so that a tail read
  ends at every place of a line; one fault makes a cut, and every other thread
  can come between any two steps of a conversion.

Each bound stands in the guard of the actions it limits: `MaxJobs` in `AddJob`;
`MaxEntries`, `MaxCalls` and `MaxEdits` of the manager in `Enqueue`, `Call` and
`EditConfig`; `MaxLines` in `PrintLine`; `MaxRuns`, `MaxConnects`, `MaxFeed` and
`MaxWire` in `Register`, `Connect`, `Emit` and `Send`; `MaxSaves` in the
dialogs' `Send`; `MaxEntries` of the history in `MakeEntry`; `MaxFaults` in
every step that fails. The code's feed is unbounded: a full one makes the run
wait in the model. The proof about the cards holds for every bound.

Some properties speak of what is left after a known weakness, and each says so.
`overlapped` excuses the history when two threads convert the older store at
once: a reader takes no lock, and its replacement of the log may undo an append
made meanwhile. `disturbed` excuses a card into which an earlier run still
reaches: a walk of it reported late, or a result of it was being retired when
the next run began. `CardsFollowTheRun` lets a card say RUNNING of a job whose
outcome could not be recorded, for as long as the run goes on, and
`CutsCostOneEntry` and `SummaryIsFresh` concede one recorded entry to each cut;
the documentation promises more in both places (below).

Deadlock is checked for the runner, whose `Rest` step stands for a run that is
over, and for the history, where somebody can always ask. It is not where the
system rests: the manager when nobody asks for anything, the browser, the
config editor when the bounds are used up, the lanes of `output` when they have
recorded their jobs; nor for the planner, which only builds lists.

### Fairness

`SyncRunner!FairSpec`: threads are scheduled by the operating system, so a
lane, the main thread or a caller of `cancel()` that can go on goes on; a walk
of a tree ends; a terminated process goes away. A backend left alone may run
for ever: `RunEnds` has "no backend stays alive for ever" as a hypothesis,
`CancelEndsRun` does without it, and `JobsSettle` is about one job whose own
backend has exited, whatever the others do.

`BackendOutput!FairSpec`: a lane goes on after its backend has exited. Nothing
is assumed of backends. Weak fairness of one lane as a whole is enough for the
lock, because each lane takes it once.

`RunManager!FairSpec`: threads finish what they have begun, events that were
scheduled on the loop arrive, and a run ends (the property above). Requests,
browsers, edits and the tray may never come. `QueueDrains` assumes that
`config.json` is never unreadable, since otherwise the code does get stuck (next
section).

`LiveFeed!FairSpec`: timers fire, and a request for the history is answered, if
only with an error. Nothing is assumed of runs or of the connection.

### Where the code differs from what it says

Three runs are expected to fail. Each checks one sentence of the documentation,
and TLC's trace shows how the code departs from it; the findings in
`PROJECT.json` quote the lines.

| run | what happens |
|---|---|
| manager_late | a browser that connects just after `run_finished` is told a run is on, and never that it is over |
| history_unreadable | an append cut inside a character makes every later read of the whole log raise, and the summary with it |
| live_idle_cards | after a run that was cancelled or failed, cards of jobs it never reached stay active, and "Run all" leaves them out |

The models also have the following departures, for which no run is kept; a
reader can follow each in the definitions named. The first three contradict a
sentence of the documentation, and TLC refutes each in an invariant that states
it.

- A write cut short costs two runs: its own, and the next one recorded, whose
  line is glued to the piece that the cut left and does not parse, although
  `append_job_stats` returned (`WritePart`, then `WriteEntry`; stats.py:190
  appends without a look at how the log ends). `src/ARCHITECTURE.md:166-167`
  says "a truncated final write only costs that one line". With
  `acked \subseteq Readable` in place of `CutsCostOneEntry`, TLC finds the loss
  after one fault; `CutsCostOneEntry` says that there is no other.
- A disabled job never runs: a selector that matches disabled jobs only is
  refused with "Enable them in config.json first." (`Resolves`, config.py:236).
  `src/README.md:114` says "Disabled jobs are skipped unless selected
  explicitly." The selector properties are therefore about what an accepted
  request selects and which enabled jobs a selector finds.
- A job whose outcome cannot be recorded keeps the card of a running one, with
  its stop button, until the run ends: `append_job_stats` (runner.py:556) stands
  between the new status (539, 554) and the event about it (565), and when it
  raises the event is never emitted (`EndJob`, `RecordRaises`).
  `src/README.md:167-168` says "A finished job shows its result for three
  seconds, then settles back". The third disjunct of `CardsFollowTheRun` is
  this case; without it TLC refutes the property.
- A cancelled run reports `ok`, and by its summary that all jobs completed
  (`CloseRun`: the failures are empty).
- A job starts although `cancel()` cut its prerequisite short: the event is
  looked at only after a wait that timed out (`BeginJob`). The new backend is
  terminated at once, and the job is never reported OK (`CutShortIsNotBuiltOn`).
- The first temporary rclone config stays on disk when the second cannot be
  written (`ConfigRaises`).
- A job whose backend has exited waits for the walk of its source, and its
  dependents with it (`Record`); it does settle (`JobsSettle`).
- The queue is not promoted if `config.json` cannot be read at the moment a run
  ends (`LoadConfig`, `FinishRun`).
- Two events about the queue overtake each other, and a browser keeps the older
  one (`Deliver` of two threads).
- Entries recorded while a reader converts the older store are overwritten by
  the conversion (`ReplaceLog`).
- The result of an earlier run, or a late walk, reaches into the card of the
  same job in the next run (`Retire`, `UpdateLiveJob`).

## 4. What is proved

The theorems hold for every value of the constants under the named assumptions
`PlannerAssumption`, `PlansAssumption`, `RunnerAssumption`, `OutputAssumption`,
`ManagerAssumption`, `FeedAssumption`, `WordsAssumption`, `StoreAssumption` and
`HistoryAssumption` (types, that the names of different things differ, that an
older store holds an entry once, that no path offered to a plan is the root,
and of `Lower` and `Strip` that they are idempotent, commute and keep the names
of types), which TLC evaluates in the runs.

| theorem | statement |
|---|---|
| `PlannerProofs!ContendIsSharing` | `Contend(j, k) <=> SharePlaces(j, k)` for any two jobs that may be offered |
| `PlannerProofs!DependenciesExact` | `Spec => []DependenciesAreExact` |
| `SyncRunnerProofs!TypeCorrect` | `Spec => []TypeOK` |
| `SyncRunnerProofs!Exclusion` | `Spec => []NoOverlap` |
| `SyncRunnerProofs!CancelReaches` | `Spec => []CancelReachesBackends` |
| `SyncRunnerProofs!KilledNotJudged` | `Spec => []KilledIsNotJudged` |
| `SyncRunnerProofs!ResultAccounts` | `Spec => []EveryJobAccounted` |
| `SyncRunnerProofs!CutShortNotBuiltOn` | `Spec => []CutShortIsNotBuiltOn` |
| `SyncRunnerProofs!BackendsHoused` | `Spec => []BackendInsideRun` |
| `SyncRunnerProofs!Implementation` | `Spec => ImplementsSchedule` |
| `OutputProofs!TypeCorrect` | `Spec => []TypeOK` |
| `OutputProofs!ErrorsReach` | `Spec => []ErrorsReachTheLog` |
| `OutputProofs!StatusFitsErrors` | `Spec => []StatusMatchesErrors` |
| `OutputProofs!SectionsWhole` | `Spec => []SectionsAreWhole` |
| `RunManagerProofs!TypeCorrect` | `Spec => []TypeOK` |
| `RunManagerProofs!OneRun` | `Spec => []OneRunAtATime` |
| `RunManagerProofs!InOrder` | `Spec => QueueOrder` |
| `RunManagerProofs!Implementation` | `Spec => ImplementsQueue` |
| `RunManagerProofs!LinedUp` | `Spec => []LinedUpOnce` |
| `RunManagerProofs!WaitCovers` | `Spec => []WaitCoversEarlierRuns` |
| `LiveFeedProofs!TypeCorrect` | `Spec => []TypeOK` |
| `LiveFeedProofs!CardsFollow` | `Spec => []CardsFollowTheRun` |
| `ConfigStoreProofs!SelectorFindsItsJob` | `SelectorFinds(jobs)` for every list of jobs |
| `ConfigStoreProofs!NothingGuessed` | `NothingIsGuessed(jobs, requests)` for every list and every set of requests |
| `ConfigStoreProofs!TypeCorrect` | `Spec => []TypeOK` |
| `ConfigStoreProofs!ConfigValid` | `Spec => []ConfigStaysValid` |
| `ConfigStoreProofs!SelectorsFound` | `Spec => []SelectorsFind` |
| `ConfigStoreProofs!SelectionUnambiguous` | `Spec => []SelectionIsUnambiguous` |
| `ConfigStoreProofs!StraysExplained` | `Spec => []StraysAreExplained` |
| `ConfigStoreProofs!NoEditDangles` | `Spec => []EditsNeverDangle` |
| `HistoryProofs!TypeCorrect` | `Spec => []TypeOK` |
| `HistoryProofs!CacheCurrent` | `Spec => []CacheIsCurrent` |
| `HistoryProofs!LogGrowsOnly` | `Spec => [][LogOnlyGrows]_vars` |
| `HistoryProofs!CutsCost` | `Spec => []CutsCostOneEntry` |
| `HistoryProofs!LegacyCarried` | `Spec => []LegacyIsCarriedOver` |
| `HistoryProofs!SummaryFresh` | `Spec => []SummaryIsFresh` |
| `HistoryProofs!TailExact` | `Spec => []TailIsExact` |
| `HistoryProofs!SummaryAdds` | `Spec => []SummaryAddsUp` |

**The planner.** A path and a path below it share the places of the lower one;
two paths of which neither is above the other share none, because a place has
one segment at each position. That is `ContendIsSharing`, for trees of any
depth and any width. What `DependenciesExact` adds is that the plan at hand
holds offered jobs only.

**The runner.** `NoOverlap` is not inductive: that two jobs do not overlap now
says nothing of the next step. `IInv` adds why. A lane is busy only with a
runnable job of its own (`BusyWithOwnJob`); until it ends, the jobs of it that
are done are exactly those it has passed (`LaneOrder`), so a done event cannot
be set early; offline jobs come by whole lanes (`SkippedByLane`), so a lane's
end cannot release them one by one; and a job that has started found every
earlier contender done (`StartedInOrder`). For two contending jobs of one lane
the order of the lane does it, for two of different lanes the dependency. Of
the refinement, `FreshAhead` (what a lane has not reached has not started)
gives `Start` its precondition and every other step is a `Settle` or a stutter.

**Its outcome.** `OutcomeInv` says of every job, from its status, where its
lane is with it (`StatusTells`), and that what was noted of a job stays true
because a job is begun only once (`NotedOnce`); at the end no lane is anywhere
but at its end (`OverWhenEnded`). `HousedInv` follows a backend the same way:
alive only in a lane that is at work (`AliveInLane`), lanes work only while
`run()` is in its loop (`LanesInsideRun`), and configs are complete by then
(`ConfigsAtHand`). `CutShortNotBuiltOn` uses the first part and
`StartedInOrder`: what is judged after a cancel is not judged by its exit code,
and what a cancel cuts short had not released the job behind it.

**Output and failure log.** `VerdictInv`: the corrected counters fit the exit
code (`CountsFitCode`), so does the verdict (`VerdictFitsCode`), and the history
repeats both. `SectionInv`: who writes has the lock (`WriterHasLock`), its head
is the last piece of the log until its body follows (`HeadIsLast`,
`BodiesFollowHeads`), and the failed jobs with no section are at most as many
as the writes that failed (`FaultsCount`), by the theorems on cardinalities.
`BufferInv` is about the contents: each buffer is, in order, the newest of what
was pushed on it (`Newest`, kept by `Push` whether or not it is full), the last
error of a parser is one of its output and the very last (`LaneBuffers`: for
robocopy only because nothing sets it before the exit), and what a head in the
log repeats does not change any more (`HeadsAreOfLanes`).

**The manager.** `MInv` has, beside the types: whatever run is in progress is
the one named by `_runner`, with the flag set (`Alone`); entries wait in front
of every run ever set up (`QueueAhead`); a thread that was handed over is set
up, not started, and one thread's alone to start (`StartsOnce`). Together they
are inductive: a launch happens only where no run is in progress, and then
nobody holds a thread to start. `OneRun` and `InOrder` follow from them.
`WaitCovers` adds `Joined` (the joined thread is over and not later than the
current one), `LinedUp` adds `OwnJobsTaken` (the current run's jobs are in
`_active_selectors`) and rests on the lemma `EnqueueAdds`: ids of one batch are
new and distinct and leave no gap, so each entry keeps the request it came
from. `Implementation` maps an entry to what has become of it (`Stage`) and a
look at the config to the sets of jobs it can run. `StepImplements` takes each
step to one of the queue: a submit is `Arrive`, which calls an entry itself
where nothing is on (`Busy`: the flag is set only while the current run is in
progress, so nobody finds it set without a run that will call the next), the
locked end of a run is `End`, a `Thread.start` is `Begin`, dequeue and cancel
are `Drop`, and everything else stutters. That the entries of a step share no
job with those that wait or run comes from `OwnJobsTaken`.

**The cards.** Events and messages follow one another in any number between a
job and its card, so the invariant says what the last one about the job holds
(`Following`): if the feed has an event about it, the last is of the run in
progress or will read its status when sent (`FeedFresh`); else the last message
on the wire is abreast of the job (`WireFresh`); else the card is, or shows
that its result was retired (`CardFresh`). A status is `Abreast` of a job if it
is the one the job has, or the one before a change whose event is still owed,
or will never come because recording the outcome failed; the latter only while
the run goes on, since the end of a run repeats every status. `Retiring` ties the timers to results of this run, `EndedStay`
says that a result is final, and `NothingAhead` that nothing is about a run
that has not begun. Jobs in `disturbed` are exempt. The theorem then reads the
invariant where feed, wire and `owed` are empty.

**Config and selectors.** `SelectorFindsItsJob` and `NothingGuessed` are about
operators alone: the selector of a tidy job finds it, and an accepted request
has a job that it means and no two tidy ones; they unfold `Matches` by the number of parts and use the rules
of `Lower` and `Strip`. `StoreInv`: two saves at work have different temporary
files (`OwnTemp`), and what is renamed is what was validated
(`DraftsAreChecked`); both are why the file stays valid. `SelectorsFound`
and `SelectionUnambiguous` combine it with the first two theorems, and
`AllBound` carries the absence of dangling servers through every dialog and
every reload. That a stray file takes two faults is not inductive, since a
fault comes before its file is left behind: `StrayInv` counts the files that
are about to be removed for one fault each.

**The history.** That the size of the log identifies its contents is true only
of a log that grows, so `HInv` says why it does. An append past the lock holds
that of its process (`AppenderHasLock`), hence appends never convert side by
side. A conversion with nobody beside it finds no log until it puts one there,
and whoever writes or reads the log has passed the check for an older store
(`Exclusive`): no append can come before the replacement and be lost in it.
Therefore each step only adds bytes (`Grown`), and a summary under a key is
that of any log which still has that length (`Fits`), in a thread's frame
between `Load` and `Store` as in the cache. The proof needs the order of
`AskSummary` and `Load`: a fingerprint taken first is never longer than the
log that is read. What parsing and summing compute plays no part in this.

`KInv` adds what the log holds. No entry is written twice (`WrittenOnce`: the
clock is ahead of every entry, and who is about to append has the only copy).
Every acknowledged entry has a whole line, except one for each cut, of which a
cut at the very end has not cost its entry yet (`Accounted`); the next append
is then glued to the cut, and pays for it. The entries of the older store are
in it until the log has them (`Carried`), so an interrupted conversion can start
again. `Covered` relates a summary to the log as it was: under a key lies the
summary of that much of the log (`OfPrefix`), a longer prefix has every entry
of a shorter one, and therefore an answer counts what was acknowledged when it
was asked for.

`HistoryReadProofs` is about bytes alone. Lines that parse begin at a set of
places (`Starts`), and appending moves none of them; a tail read that starts
at any byte finds the same places behind its first line feed; and it reads far
enough back to have `limit` of them unless the margin is used up. The summary
is a recursive function over the entries, whose value for every log needs
induction. The library's induction theorems cannot be instantiated here, but
`WFMin`, which takes a relation, can: a property that fails for some prefix
fails for a least one (`LeastOf`), and one step of the function contradicts it.

## 5. What is only checked by TLC

- The liveness properties: `CancelEndsRun`, `RunEnds`, `JobsSettle`, `RunsEnd`,
  `QueueDrains`, `LoggingNeverBlocks`, `ResultsRetire`. The prover treats
  neither fairness nor ENABLED.
- The three expected failures: each run shows one counterexample.

Every invariant, every action property and both refinements that a run checks
are also theorems.

## 6. What could follow

The answers of the browser's own requests, which `applyServerState` applies
beside the events, and its overlapping server checks.

## 7. Not modelled

- Progress counters, transfer rates, latency and concurrency tuning, terminal
  and HTML rendering, log wording, command lines: data without control.
- The event history replayed by a snapshot: it fills the activity list only.
- Server probes as such: `ProbeServers` lets any subset be offline. That a job
  names a server nobody knows, for which `_check_servers` has an exception,
  cannot happen in a validated config. Of the web
  interface's own server checks the flag they share only holds back the
  automatic recheck.
- The answers to a browser's own requests, and a reload of the page.
- Two processes that write the failure log at once, and reading it back.
- An editor that changes `config.json` by hand while it is saved; `EditConfig`
  of the manager stands for whatever the file may become.
- Conversions of the older history that overlap without a lock, beyond the
  fact that they do (`overlapped`).
- Crash of the process in mid-run: nothing it leaves behind is read again,
  except the history and the config, where `Crash` is an action.
- `cli.py`, `ui.py`, `serve.py` and the tray's icon: arguments, rendering and
  start-up.
