--------------------------- MODULE LiveFeedProofs ----------------------------
(***************************************************************************)
(* The cards of a browser follow the run, for any jobs, any number of      *)
(* runs and connections and any backlog of events and messages.            *)
(*                                                                         *)
(* What a card will show is decided by the last event that is about it, of *)
(* those still in the feed, or else of the messages on their way, or else  *)
(* by the card.  The invariant says in turn that this event is of the run  *)
(* in progress, that this message is abreast of the job, and that the card *)
(* is: it has the status of the job, or the one before a change whose      *)
(* event is owed or will never come.                                       *)
(***************************************************************************)
EXTENDS LiveFeed, Integers, TLAPS

------------------------------------------------------------------------------
(* Events and messages.                                                    *)

Wide == [type : {"snapshot", "run_started", "run_finished"}, run : 0 .. MaxRuns]
Failures == [type : {"run_failed"}, run : 0 .. MaxRuns]
Updates == [type : {"job_updated"}, run : 1 .. MaxRuns, job : Jobs]
EventsOn(j) == Wide \cup {e \in Updates : e.job = j}

Messages ==
    [event : Wide \cup Failures, jobs : [Jobs -> CardStates]]
    \cup UNION {[event : {e \in Updates : e.job = j}, jobs : [{j} -> CardStates]] : j \in Jobs}
MessagesOn(j) == {m \in Messages : m.event \in EventsOn(j)}
WideMessages == {m \in Messages : m.event \in Wide}

(* No element of s is in A; the last element of s that is in A is in B.    *)
None(s, A) == \A i \in DOMAIN s : s[i] \notin A
LastIn(s, A, B) ==
    \A i \in DOMAIN s :
        s[i] \in A /\ (\A k \in DOMAIN s : k > i => s[k] \notin A) => s[i] \in B

------------------------------------------------------------------------------
(* The inductive invariant.                                                *)

Shown(j) == JobsOf(run)[j]

FreshEvents == {e \in Events : e.run = run \/ e \in Updates}
CurrentEvents == {e \in Events : e.run = run}

(* A status is that of the job, or the one before a change that is owed or *)
(* will not be told.                                                       *)
Abreast(status, j) ==
    \/ status = Shown(j)
    \/ j \in owed /\ Shown(j) = "RUNNING"
    \/ /\ j \in owed \cup raised
       /\ phase = "running" /\ Shown(j) = "ENDED" /\ status = "RUNNING"

FreshMessages(j) ==
    {m \in Messages :
        \/ m.event \in Updates /\ m.event.run < run
        \/ m.event.run = run /\ Abreast(m.jobs[j], j)}
CurrentMessages == {m \in Messages : m.event.run = run}

Shapes ==
    /\ TypeOK
    /\ wire \in Seq(Messages)
    /\ phase # "idle" => run > 0
    /\ owed # {} => phase = "running"
    /\ walks \subseteq (1 .. run) \X Jobs
    /\ ~connected => feed = << >> /\ wire = << >>

NothingAhead ==
    /\ \A i \in DOMAIN feed : feed[i].run <= run
    /\ \A i \in DOMAIN wire : wire[i].event.run <= run

(* A job that a message calls ended has not come back to life in its run.  *)
EndedStay ==
    \A i \in DOMAIN wire : \A j \in Jobs :
        /\ wire[i].event.run = run
        /\ wire[i].event \in EventsOn(j)
        /\ wire[i].jobs[j] = "ENDED"
        => Shown(j) = "ENDED"

FeedFresh(j) == LastIn(feed, EventsOn(j), FreshEvents)
WireFresh(j) == None(feed, EventsOn(j)) => LastIn(wire, MessagesOn(j), FreshMessages(j))
CardFresh(j) ==
    None(feed, EventsOn(j)) /\ None(wire, MessagesOn(j)) =>
        \/ j \in disturbed
        \/ Abreast(live[j], j)
        \/ live[j] = NoCard /\ Shown(j) = "ENDED"

WideFresh ==
    /\ LastIn(feed, Wide, CurrentEvents)
    /\ None(feed, Wide) => LastIn(wire, WideMessages, CurrentMessages)

(* A result is lingering or being retired only where it is the run's.      *)
Retiring(j) ==
    None(feed, Wide) /\ None(wire, WideMessages) /\ (j \in timers \/ loads[j] > 0) =>
        j \in disturbed \/ Shown(j) = "ENDED"

Following ==
    connected /\ phase # "registered" =>
        /\ WideFresh
        /\ \A j \in Jobs : FeedFresh(j) /\ WireFresh(j) /\ CardFresh(j) /\ Retiring(j)

FInv == Shapes /\ NothingAhead /\ EndedStay /\ Following

------------------------------------------------------------------------------
(* Sequences.                                                              *)

LEMMA Appended ==
    ASSUME NEW S, NEW s \in Seq(S), NEW x \in S, NEW A, NEW B
    PROVE  /\ None(Append(s, x), A) => None(s, A) /\ x \notin A
           /\ x \in A /\ x \in B => LastIn(Append(s, x), A, B)
           /\ x \notin A /\ LastIn(s, A, B) => LastIn(Append(s, x), A, B)
<1> DEFINE t == Append(s, x)
<1>1. /\ Len(s) \in Nat /\ DOMAIN s = 1 .. Len(s) /\ DOMAIN t = 1 .. Len(s) + 1
      /\ \A i \in 1 .. Len(s) : t[i] = s[i]
      /\ t[Len(s) + 1] = x
  OBVIOUS
<1> HIDE DEF t
<1>2. None(t, A) => None(s, A) /\ x \notin A
  BY <1>1 DEF None
<1>3. x \in A /\ x \in B => LastIn(t, A, B)
  <2> SUFFICES ASSUME x \in A, x \in B,
                      NEW i \in DOMAIN t, \A k \in DOMAIN t : k > i => t[k] \notin A
               PROVE  t[i] \in B
    BY DEF LastIn
  <2>1. ~(Len(s) + 1 > i)
    BY <1>1
  <2>2. i = Len(s) + 1
    BY <1>1, <2>1
  <2> QED
    BY <1>1, <2>2
<1>4. x \notin A /\ LastIn(s, A, B) => LastIn(t, A, B)
  <2> SUFFICES ASSUME x \notin A, LastIn(s, A, B),
                      NEW i \in DOMAIN t, t[i] \in A,
                      \A k \in DOMAIN t : k > i => t[k] \notin A
               PROVE  t[i] \in B
    BY DEF LastIn
  <2>1. i \in DOMAIN s /\ s[i] \in A /\ t[i] = s[i]
    BY <1>1
  <2>2. \A k \in DOMAIN s : k > i => s[k] \notin A
    BY <1>1
  <2> QED
    BY <2>1, <2>2 DEF LastIn
<1> QED
  BY <1>2, <1>3, <1>4 DEF t

LEMMA Removed ==
    ASSUME NEW S, NEW s \in Seq(S), s # << >>, NEW A, NEW B
    PROVE  /\ None(Tail(s), A) /\ Head(s) \notin A => None(s, A)
           /\ LastIn(s, A, B) => LastIn(Tail(s), A, B)
           /\ LastIn(s, A, B) /\ None(Tail(s), A) /\ Head(s) \in A => Head(s) \in B
<1> DEFINE t == Tail(s)
<1>1. /\ Len(s) \in Nat \ {0} /\ DOMAIN s = 1 .. Len(s) /\ DOMAIN t = 1 .. Len(s) - 1
      /\ \A i \in 1 .. Len(s) - 1 : t[i] = s[i + 1]
      /\ Head(s) = s[1]
  OBVIOUS
<1> HIDE DEF t
<1>2. \A k \in DOMAIN s : k > 1 => k - 1 \in DOMAIN t /\ s[k] = t[k - 1]
  BY <1>1
<1>3. None(t, A) /\ Head(s) \notin A => None(s, A)
  <2> SUFFICES ASSUME None(t, A), Head(s) \notin A, NEW k \in DOMAIN s
               PROVE  s[k] \notin A
    BY DEF None
  <2>1. CASE k = 1
    BY <1>1, <2>1
  <2>2. CASE k > 1
    BY <1>2, <2>2 DEF None
  <2> QED
    BY <1>1, <2>1, <2>2
<1>4. LastIn(s, A, B) => LastIn(t, A, B)
  <2> SUFFICES ASSUME LastIn(s, A, B),
                      NEW i \in DOMAIN t, t[i] \in A,
                      \A k \in DOMAIN t : k > i => t[k] \notin A
               PROVE  t[i] \in B
    BY DEF LastIn
  <2>1. i + 1 \in DOMAIN s /\ s[i + 1] = t[i]
    BY <1>1
  <2>2. ASSUME NEW k \in DOMAIN s, k > i + 1
        PROVE  s[k] \notin A
    <3>1. k > 1 /\ k - 1 > i
      BY <1>1, <2>2
    <3> QED
      BY <1>2, <3>1
  <2> QED
    BY <2>1, <2>2 DEF LastIn
<1>5. LastIn(s, A, B) /\ None(t, A) /\ Head(s) \in A => Head(s) \in B
  <2> SUFFICES ASSUME LastIn(s, A, B), None(t, A), Head(s) \in A
               PROVE  Head(s) \in B
    OBVIOUS
  <2>1. 1 \in DOMAIN s /\ s[1] \in A
    BY <1>1
  <2>2. \A k \in DOMAIN s : k > 1 => s[k] \notin A
    BY <1>2 DEF None
  <2> QED
    BY <1>1, <2>1, <2>2 DEF LastIn
<1> QED
  BY <1>3, <1>4, <1>5 DEF t

LEMMA Weakened ==
    ASSUME NEW s, NEW A, NEW B, NEW C, LastIn(s, A, B),
           \A i \in DOMAIN s : s[i] \in A /\ s[i] \in B => s[i] \in C
    PROVE  LastIn(s, A, C)
BY DEF LastIn

(* What is in a sequence stays in it.                                      *)
LEMMA Elements ==
    ASSUME NEW S, NEW s \in Seq(S)
    PROVE  /\ \A i \in DOMAIN s : s[i] \in S
           /\ s # << >> => Head(s) \in S /\ Tail(s) \in Seq(S) /\ Head(s) = s[1] /\ 1 \in DOMAIN s
           /\ s # << >> => \A i \in DOMAIN Tail(s) : i + 1 \in DOMAIN s /\ Tail(s)[i] = s[i + 1]
           /\ \A x \in S : /\ Append(s, x) \in Seq(S)
                           /\ \A i \in DOMAIN Append(s, x) :
                                 \/ Append(s, x)[i] = x
                                 \/ i \in DOMAIN s /\ Append(s, x)[i] = s[i]
<1>1. \A i \in DOMAIN s : s[i] \in S
  OBVIOUS
<1>2. s # << >> => Head(s) \in S /\ Tail(s) \in Seq(S) /\ Head(s) = s[1] /\ 1 \in DOMAIN s
  OBVIOUS
<1>3. s # << >> => \A i \in DOMAIN Tail(s) : i + 1 \in DOMAIN s /\ Tail(s)[i] = s[i + 1]
  OBVIOUS
<1>4. ASSUME NEW x \in S
      PROVE  /\ Append(s, x) \in Seq(S)
             /\ \A i \in DOMAIN Append(s, x) :
                   \/ Append(s, x)[i] = x
                   \/ i \in DOMAIN s /\ Append(s, x)[i] = s[i]
  OBVIOUS
<1> QED
  BY <1>1, <1>2, <1>3, <1>4

------------------------------------------------------------------------------
(* What events and messages are.                                           *)

LEMMA EventFacts ==
    ASSUME NEW e \in Events
    PROVE  /\ e.run \in 0 .. MaxRuns
           /\ e \in Wide \/ e \in Failures \/ e \in Updates
           /\ e \in Wide <=> e.type \in {"snapshot", "run_started", "run_finished"}
           /\ e \in Failures <=> e.type = "run_failed"
           /\ e \in Updates <=> e.type = "job_updated"
           /\ e \in Updates => e.job \in Jobs /\ e.run \in 1 .. MaxRuns
           /\ \A j : e \in EventsOn(j) <=> e \in Wide \/ (e \in Updates /\ e.job = j)
BY FeedAssumption DEF Events, Wide, Failures, Updates, EventsOn

LEMMA MessageFacts ==
    ASSUME NEW m \in Messages
    PROVE  /\ m.event \in Events
           /\ m.event \in Updates => m.jobs \in [{m.event.job} -> CardStates]
           /\ m.event \notin Updates => m.jobs \in [Jobs -> CardStates]
<1>1. CASE m \in [event : Wide \cup Failures, jobs : [Jobs -> CardStates]]
  <2>1. m.event \in Events /\ m.event \in Wide \cup Failures
    BY <1>1 DEF Events, Wide, Failures
  <2>2. m.event \notin Updates
    BY <2>1, EventFacts DEF Wide, Failures
  <2> QED
    BY <1>1, <2>1, <2>2
<1>2. ASSUME NEW j \in Jobs,
             m \in [event : {e \in Updates : e.job = j}, jobs : [{j} -> CardStates]]
      PROVE  /\ m.event \in Events /\ m.event \in Updates
             /\ m.jobs \in [{m.event.job} -> CardStates]
  BY <1>2 DEF Events, Updates
<1> QED
  BY <1>1, <1>2 DEF Messages

LEMMA JobsOfType ==
    ASSUME TypeOK, NEW r \in 0 .. MaxRuns
    PROVE  JobsOf(r) \in [Jobs -> CardStates]
BY FeedAssumption DEF TypeOK, JobsOf, CardStates

LEMMA RenderedType ==
    ASSUME TypeOK, NEW e \in Events
    PROVE  /\ Rendered(e) \in Messages
           /\ Rendered(e).event = e
           /\ \A j \in Jobs : e \in EventsOn(j) => Rendered(e).jobs[j] = JobsOf(e.run)[j]
<1>1. CASE e \in Updates
  <2>1. e.type = "job_updated" /\ e.job \in Jobs /\ e.run \in 1 .. MaxRuns
    BY <1>1, EventFacts
  <2>2. Rendered(e) = [event |-> e, jobs |-> [j \in {e.job} |-> states[e.run][j]]]
    BY <2>1 DEF Rendered
  <2>3. [j \in {e.job} |-> states[e.run][j]] \in [{e.job} -> CardStates]
    BY <2>1 DEF TypeOK
  <2>4. e \in {d \in Updates : d.job = e.job}
    BY <1>1
  <2>5. Rendered(e) \in [event : {d \in Updates : d.job = e.job}, jobs : [{e.job} -> CardStates]]
    BY <2>2, <2>3, <2>4
  <2>6. Rendered(e) \in Messages
    BY <2>1, <2>5 DEF Messages
  <2>7. JobsOf(e.run) = states[e.run]
    BY <2>1, FeedAssumption DEF JobsOf
  <2>8. \A j \in Jobs : e \in EventsOn(j) => j = e.job
    BY <2>1, EventFacts
  <2> QED
    BY <2>2, <2>6, <2>7, <2>8
<1>2. CASE e \notin Updates
  <2>1. e.type # "job_updated" /\ e \in Wide \cup Failures /\ e.run \in 0 .. MaxRuns
    BY <1>2, EventFacts
  <2>2. Rendered(e) = [event |-> e, jobs |-> JobsOf(e.run)]
    BY <2>1 DEF Rendered
  <2>3. Rendered(e) \in [event : Wide \cup Failures, jobs : [Jobs -> CardStates]]
    BY <2>1, <2>2, JobsOfType
  <2> QED
    BY <2>2, <2>3 DEF Messages
<1> QED
  BY <1>1, <1>2

LEMMA EndedType ==
    ASSUME NEW m \in Messages
    PROVE  Ended(m.jobs) \subseteq Jobs
<1>1. m.event \in Updates => DOMAIN m.jobs = {m.event.job} /\ m.event.job \in Jobs
  BY MessageFacts, EventFacts
<1>2. m.event \notin Updates => DOMAIN m.jobs = Jobs
  BY MessageFacts
<1> QED
  BY <1>1, <1>2 DEF Ended

------------------------------------------------------------------------------
(* Types.                                                                  *)

LEMMA EmitTypes ==
    ASSUME Shapes, NEW event \in Events, Emit(event)
    PROVE  /\ feed' \in Seq(Events)
           /\ UNCHANGED <<connects, connected, wire, live, timers, loads, disturbed>>
           /\ ~connected => feed' = feed
           /\ connected => feed' = Append(feed, event)
BY DEF Emit, Shapes, TypeOK, cardVars

LEMMA AllJobsType ==
    ASSUME run \in 0 .. MaxRuns
    PROVE  /\ AllJobs("snapshot") \in Wide /\ AllJobs("run_started") \in Wide
           /\ AllJobs("run_finished") \in Wide /\ AllJobs("run_failed") \in Failures
           /\ \A type : AllJobs(type).run = run
           /\ \A type \in {"snapshot", "run_started", "run_finished", "run_failed"} :
                 AllJobs(type) \in Events
BY DEF AllJobs, Wide, Failures, Events

LEMMA UpdatedType ==
    ASSUME NEW r \in 1 .. MaxRuns, NEW j \in Jobs
    PROVE  /\ Updated(r, j) \in Updates /\ Updated(r, j) \in Events
           /\ Updated(r, j).run = r /\ Updated(r, j).job = j
BY DEF Updated, Updates, Events

LEMMA InitShapes == Init => Shapes
<1> SUFFICES ASSUME Init
             PROVE  Shapes
  OBVIOUS
<1>1. wire = << >> /\ feed = << >>
  BY DEF Init
<1>2. wire \in Seq(Messages) /\ feed \in Seq(Events)
  BY <1>1
<1>3. Len(wire) <= MaxWire /\ DOMAIN wire = {}
  BY <1>1, FeedAssumption
<1>4. /\ 0 \in 0 .. MaxRuns /\ 0 \in 0 .. MaxConnects
      /\ [j \in Jobs |-> NoCard] \in [Jobs -> CardStates]
  BY FeedAssumption DEF CardStates
<1>5. /\ states \in [1 .. MaxRuns -> [Jobs -> CardStates]]
      /\ live \in [Jobs -> CardStates] /\ loads \in [Jobs -> Nat]
  BY <1>4 DEF Init
<1>6. TypeOK
  BY <1>2, <1>3, <1>4, <1>5 DEF Init, TypeOK
<1> QED
  BY <1>2, <1>6 DEF Init, Shapes

LEMMA RunShapes ==
    ASSUME Shapes,
           \/ \E jobs \in Batches : Register(jobs)
           \/ Announce \/ StartLanes \/ Cancel \/ FinishRun \/ FailRun
    PROVE  Shapes'
<1> USE DEF runVars, linkVars, cardVars
<1>0. run \in 0 .. MaxRuns /\ run \in Int /\ MaxRuns \in Nat
  BY FeedAssumption DEF Shapes, TypeOK
<1>1. ASSUME NEW jobs \in Batches, Register(jobs)
      PROVE  Shapes'
  <2>1. run + 1 \in 1 .. MaxRuns /\ jobs \subseteq Jobs
    BY <1>0, <1>1, FeedAssumption DEF Register
  <2>2. states' \in [1 .. MaxRuns -> [Jobs -> CardStates]]
    BY <1>1, <2>1 DEF Register, Shapes, TypeOK, CardStates, Statuses
  <2>3. walks \subseteq (1 .. run + 1) \X Jobs
    BY <1>0 DEF Shapes
  <2>4. /\ run' = run + 1 /\ phase' = "registered" /\ cancelled' = FALSE /\ raised' = {}
        /\ UNCHANGED <<owed, walks, feed, connects, connected, wire, live, timers, loads, disturbed>>
        /\ phase = "idle"
    BY <1>1 DEF Register
  <2>5. TypeOK'
    <3>1. run' \in 0 .. MaxRuns
      BY <1>0, <2>1, <2>4
    <3>2. phase' \in {"idle", "registered", "checking", "running"} /\ cancelled' \in BOOLEAN
      BY <2>4
    <3> QED
      BY <2>2, <2>4, <3>1, <3>2 DEF Shapes, TypeOK
  <2>6. run' > 0 /\ walks' \subseteq (1 .. run') \X Jobs
    BY <1>0, <2>3, <2>4
  <2>7. owed' = {}
    BY <2>4 DEF Shapes
  <2> QED
    BY <2>4, <2>5, <2>6, <2>7 DEF Shapes
<1>2. ASSUME Announce
      PROVE  Shapes'
  <2>1. AllJobs("run_started") \in Events
    BY <1>0, AllJobsType
  <2>2. Emit(AllJobs("run_started"))
    BY <1>2 DEF Announce
  <2>3. /\ phase = "registered" /\ phase' = "checking"
        /\ UNCHANGED <<run, states, cancelled, raised, owed, walks>>
    BY <1>2 DEF Announce
  <2>4. /\ feed' \in Seq(Events)
        /\ UNCHANGED <<connects, connected, wire, live, timers, loads, disturbed>>
        /\ ~connected => feed' = feed
    BY <2>1, <2>2, EmitTypes
  <2>5. TypeOK'
    BY <2>3, <2>4 DEF Shapes, TypeOK
  <2> QED
    BY <2>3, <2>4, <2>5 DEF Shapes
<1>3. ASSUME StartLanes
      PROVE  Shapes'
  <2>1. run \in 1 .. run /\ run \in 1 .. MaxRuns
    BY <1>0, <1>3 DEF StartLanes, Shapes
  <2>2. walks' \subseteq (1 .. run) \X Jobs /\ walks' \subseteq (1 .. MaxRuns) \X Jobs
    BY <1>3, <2>1 DEF StartLanes, Shapes, TypeOK
  <2> QED
    BY <1>3, <2>2 DEF StartLanes, Shapes, TypeOK
<1>4. ASSUME Cancel
      PROVE  Shapes'
  BY <1>4 DEF Cancel, Shapes, TypeOK
<1>5. ASSUME FinishRun
      PROVE  Shapes'
  <2>1. AllJobs("run_finished") \in Events
    BY <1>0, AllJobsType
  <2>2. Emit(AllJobs("run_finished"))
    BY <1>5 DEF FinishRun
  <2> QED
    BY <1>5, <2>1, <2>2, EmitTypes DEF FinishRun, Shapes, TypeOK
<1>6. ASSUME FailRun
      PROVE  Shapes'
  <2>1. AllJobs("run_failed") \in Events
    BY <1>0, AllJobsType
  <2>2. Emit(AllJobs("run_failed"))
    BY <1>6 DEF FailRun
  <2> QED
    BY <1>6, <2>1, <2>2, EmitTypes DEF FailRun, Shapes, TypeOK
<1> QED
  BY <1>1, <1>2, <1>3, <1>4, <1>5, <1>6

LEMMA StatusType ==
    ASSUME Shapes, NEW j \in Jobs, NEW status \in CardStates, SetStatus(j, status)
    PROVE  states' \in [1 .. MaxRuns -> [Jobs -> CardStates]]
BY DEF SetStatus, Shapes, TypeOK

LEMMA JobShapes ==
    ASSUME Shapes, NEW j \in Jobs, JobStep(j)
    PROVE  Shapes'
<1> USE DEF runVars, linkVars, cardVars
<1>0. run \in 0 .. MaxRuns /\ run \in Int /\ MaxRuns \in Nat
  BY FeedAssumption DEF Shapes, TypeOK
<1>s. "PENDING" \in CardStates /\ "RUNNING" \in CardStates /\ "ENDED" \in CardStates
  BY DEF CardStates, Statuses
<1>1. ASSUME SkipOffline(j)
      PROVE  Shapes'
  <2>1. run \in 1 .. MaxRuns
    BY <1>0, <1>1 DEF SkipOffline, Shapes
  <2>2. Updated(run, j) \in Events /\ Emit(Updated(run, j)) /\ SetStatus(j, "ENDED")
    BY <1>1, <2>1, UpdatedType DEF SkipOffline
  <2>3. states' \in [1 .. MaxRuns -> [Jobs -> CardStates]]
    BY <1>s, <2>2, StatusType
  <2> QED
    BY <1>1, <2>2, <2>3, EmitTypes DEF SkipOffline, Shapes, TypeOK
<1>2. ASSUME BeginJob(j)
      PROVE  Shapes'
  <2>1. states' \in [1 .. MaxRuns -> [Jobs -> CardStates]]
    BY <1>s, <1>2, StatusType DEF BeginJob
  <2> QED
    BY <1>2, <2>1 DEF BeginJob, Shapes, TypeOK
<1>3. ASSUME EndJob(j)
      PROVE  Shapes'
  <2>1. states' \in [1 .. MaxRuns -> [Jobs -> CardStates]]
    BY <1>s, <1>3, StatusType DEF EndJob
  <2> QED
    BY <1>3, <2>1 DEF EndJob, Shapes, TypeOK
<1>4. ASSUME JobRaises(j)
      PROVE  Shapes'
  BY <1>4 DEF JobRaises, Shapes, TypeOK
<1>5. ASSUME EmitJob(j), run > 0
      PROVE  Shapes'
  <2>1. run \in 1 .. MaxRuns
    BY <1>0, <1>5
  <2>2. Updated(run, j) \in Events /\ Emit(Updated(run, j))
    BY <1>5, <2>1, UpdatedType DEF EmitJob
  <2> QED
    BY <1>5, <2>2, EmitTypes DEF EmitJob, Shapes, TypeOK
<1>6. ASSUME NEW r \in 1 .. run, SizeKnown(r, j)
      PROVE  Shapes'
  <2>1. r \in 1 .. MaxRuns
    BY <1>0
  <2>2. Updated(r, j) \in Events /\ Emit(Updated(r, j))
    BY <1>6, <2>1, UpdatedType DEF SizeKnown
  <2> QED
    BY <1>6, <2>2, EmitTypes DEF SizeKnown, Shapes, TypeOK
<1>7. EmitJob(j) \/ Progress(j) => run > 0
  BY <1>0 DEF EmitJob, Progress, Shapes
<1>8. ASSUME Progress(j), run > 0
      PROVE  Shapes'
  <2>1. run \in 1 .. MaxRuns
    BY <1>0, <1>8
  <2>2. Updated(run, j) \in Events /\ Emit(Updated(run, j))
    BY <1>8, <2>1, UpdatedType DEF Progress
  <2> QED
    BY <1>8, <2>2, EmitTypes DEF Progress, Shapes, TypeOK
<1>9. ASSUME RecordRaises(j)
      PROVE  Shapes'
  BY <1>9 DEF RecordRaises, Shapes, TypeOK
<1> QED
  BY <1>1, <1>2, <1>3, <1>4, <1>5, <1>6, <1>7, <1>8, <1>9 DEF JobStep

LEMMA LinkShapes ==
    ASSUME Shapes, LinkStep
    PROVE  Shapes'
<1> USE DEF runVars, linkVars, cardVars
<1>0. run \in 0 .. MaxRuns
  BY DEF Shapes, TypeOK
<1>1. ASSUME Connect
      PROVE  Shapes'
  <2>1. AllJobs("snapshot") \in Events
    BY <1>0, AllJobsType
  <2>2. feed' \in Seq(Events)
    BY <1>1, <2>1 DEF Connect
  <2>3. connects' \in 0 .. MaxConnects
    BY <1>1, FeedAssumption DEF Connect, Shapes, TypeOK
  <2> QED
    BY <1>1, <2>2, <2>3 DEF Connect, Shapes, TypeOK
<1>2. ASSUME Disconnect
      PROVE  Shapes'
  <2>1. feed' = << >> /\ wire' = << >>
    BY <1>2 DEF Disconnect
  <2>2. feed' \in Seq(Events) /\ wire' \in Seq(Messages)
    BY <2>1
  <2>3. Len(wire') <= MaxWire /\ DOMAIN wire' = {}
    BY <2>1, FeedAssumption
  <2> QED
    BY <1>2, <2>1, <2>2, <2>3 DEF Disconnect, Shapes, TypeOK
<1>3. ASSUME Send
      PROVE  Shapes'
  <2>1. feed \in Seq(Events) /\ feed # << >> /\ wire \in Seq(Messages) /\ TypeOK
    BY <1>3 DEF Send, Shapes, TypeOK
  <2>2. Head(feed) \in Events /\ Tail(feed) \in Seq(Events)
    BY <2>1
  <2>3. Rendered(Head(feed)) \in Messages
    BY <2>1, <2>2, RenderedType
  <2>4. wire' \in Seq(Messages) /\ feed' \in Seq(Events) /\ Len(wire') = Len(wire) + 1
    BY <1>3, <2>1, <2>2, <2>3 DEF Send
  <2>5. Len(wire') <= MaxWire
    BY <1>3, <2>1, <2>4, FeedAssumption DEF Send
  <2>6. \A i \in DOMAIN wire' : wire'[i].event \in Events
    BY <2>4, Elements, MessageFacts
  <2>7. connected
    BY <1>3 DEF Send, Shapes
  <2> QED
    BY <1>3, <2>4, <2>5, <2>6, <2>7 DEF Send, Shapes, TypeOK
<1>4. ASSUME Receive
      PROVE  Shapes'
  <2> DEFINE m == Head(wire)
  <2>1. wire \in Seq(Messages) /\ wire # << >> /\ wire' = Tail(wire)
    BY <1>4 DEF Receive, Shapes
  <2>2. m \in Messages /\ wire' \in Seq(Messages) /\ Len(wire') <= Len(wire)
    BY <2>1
  <2>3. Len(wire') <= MaxWire
    BY <2>1, <2>2, FeedAssumption DEF Shapes, TypeOK
  <2>4. \A i \in DOMAIN wire' : wire'[i].event \in Events
    BY <2>2, Elements, MessageFacts
  <2>5. live' \in [Jobs -> CardStates] /\ timers' \subseteq Jobs /\ disturbed' \subseteq Jobs
    <3>1. /\ m.event \in Events
          /\ m.event \in Updates => m.jobs \in [{m.event.job} -> CardStates]
          /\ m.event \notin Updates => m.jobs \in [Jobs -> CardStates]
          /\ Ended(m.jobs) \subseteq Jobs
      BY <2>2, MessageFacts, EndedType
    <3>2. CASE m.event \in Wide
      <4>1. m.event.type \in {"snapshot", "run_started", "run_finished"}
        BY <3>1, <3>2, EventFacts
      <4>2. m.event.type # "job_updated" /\ m.event \notin Updates
        BY <3>1, <4>1, EventFacts
      <4>3. ReplaceLiveJobs(m.jobs)
        BY <1>4, <4>1 DEF Receive
      <4> QED
        BY <3>1, <4>2, <4>3 DEF ReplaceLiveJobs
    <3>3. CASE m.event \in Updates
      <4>1. m.event.type = "job_updated" /\ m.event.job \in Jobs
        BY <3>1, <3>3, EventFacts
      <4>2. UpdateLiveJob(m)
        BY <1>4, <4>1 DEF Receive
      <4> QED
        BY <3>1, <3>3, <4>1, <4>2 DEF UpdateLiveJob, Shapes, TypeOK
    <3>4. CASE m.event \in Failures
      <4>1. m.event.type = "run_failed"
        BY <3>1, <3>4, EventFacts
      <4> QED
        BY <1>4, <4>1 DEF Receive, Shapes, TypeOK
    <3> QED
      BY <3>1, <3>2, <3>3, <3>4, EventFacts
  <2>6. UNCHANGED <<loads, feed, connects, connected, runVars>>
    BY <1>4 DEF Receive
  <2>7. connected
    BY <2>1 DEF Shapes
  <2> QED
    BY <2>2, <2>3, <2>4, <2>5, <2>6, <2>7 DEF Shapes, TypeOK
<1> QED
  BY <1>1, <1>2, <1>3, <1>4 DEF LinkStep

LEMMA CardShapes ==
    ASSUME Shapes, NEW j \in Jobs, CardStep(j)
    PROVE  Shapes'
<1> USE DEF runVars, linkVars, cardVars
<1>1. CASE TimerFires(j)
  BY <1>1 DEF TimerFires, Shapes, TypeOK
<1>2. CASE Retire(j)
  <2>1. loads' \in [Jobs -> Nat]
    BY <1>2 DEF Retire, Shapes, TypeOK
  <2> QED
    BY <1>2, <2>1 DEF Retire, Shapes, TypeOK, CardStates
<1> QED
  BY <1>1, <1>2 DEF CardStep

LEMMA StepShapes ==
    ASSUME Shapes, [Next]_vars
    PROVE  Shapes'
<1>1. CASE UNCHANGED vars
  BY <1>1 DEF vars, runVars, linkVars, cardVars, Shapes, TypeOK
<1>2. CASE Next
  BY <1>2, RunShapes, JobShapes, LinkShapes, CardShapes DEF Next, RunStep
<1> QED
  BY <1>1, <1>2

------------------------------------------------------------------------------
(* The invariant is kept.                                                  *)

(* A step of a run that emits an event: of each job either the event tells *)
(* of it, or nothing about it has changed.                                 *)
LEMMA Emitting ==
    ASSUME FInv, NEW event \in Events, Emit(event), run' = run,
           event.run <= run,
           event \in Updates \/ event.run = run,
           phase = "registered" /\ phase' # "registered" => event \in Wide,
           \A j \in Jobs : event \in EventsOn(j) \/ (\A status : Abreast(status, j) => Abreast(status, j)'),
           \A j \in Jobs : Shown(j) = "ENDED" => Shown(j)' = "ENDED"
    PROVE  NothingAhead' /\ EndedStay' /\ Following'
<1>0. /\ feed \in Seq(Events) /\ wire \in Seq(Messages)
      /\ UNCHANGED <<connects, connected, wire, live, timers, loads, disturbed>>
      /\ ~connected => feed' = feed
      /\ connected => feed' = Append(feed, event)
      /\ connected \in BOOLEAN
  BY EmitTypes DEF FInv, Shapes, TypeOK
<1>1. NothingAhead'
  BY <1>0, Elements DEF FInv, NothingAhead
<1>2. EndedStay'
  BY <1>0 DEF FInv, EndedStay
<1>3. ASSUME connected', phase' # "registered"
      PROVE  /\ WideFresh'
             /\ \A j \in Jobs : FeedFresh(j)' /\ WireFresh(j)' /\ CardFresh(j)' /\ Retiring(j)'
  <2>1. connected /\ feed' = Append(feed, event)
    BY <1>0, <1>3
  <2>2. phase # "registered" \/ event \in Wide
    BY <1>3
  <2>3. FreshEvents' = FreshEvents /\ CurrentEvents' = CurrentEvents /\ CurrentMessages' = CurrentMessages
    BY DEF FreshEvents, CurrentEvents, CurrentMessages
  <2>4. event \in FreshEvents
    BY DEF FreshEvents
  <2>5. event \in Wide => event \in CurrentEvents
    BY EventFacts DEF CurrentEvents
  <2>6. WideFresh'
    <3>1. LastIn(feed', Wide, CurrentEvents)
      BY <1>0, <2>1, <2>2, <2>5, Appended DEF FInv, Following, WideFresh
    <3>2. None(feed', Wide) => LastIn(wire, WideMessages, CurrentMessages)
      <4>1. None(feed', Wide) => None(feed, Wide) /\ event \notin Wide
        BY <1>0, <2>1, Appended
      <4> QED
        BY <2>1, <2>2, <4>1 DEF FInv, Following, WideFresh
    <3> QED
      BY <1>0, <2>3, <3>1, <3>2 DEF WideFresh
  <2>7. ASSUME NEW j \in Jobs
        PROVE  FeedFresh(j)' /\ WireFresh(j)' /\ CardFresh(j)' /\ Retiring(j)'
    <3>1. event \in Wide => event \in EventsOn(j)
      BY DEF EventsOn
    <3>2. None(feed', EventsOn(j)) => None(feed, EventsOn(j)) /\ event \notin EventsOn(j)
      BY <1>0, <2>1, Appended
    <3>3. None(feed', Wide) => None(feed, Wide) /\ event \notin Wide
      BY <1>0, <2>1, Appended
    <3>4. FeedFresh(j)'
      <4>1. LastIn(feed', EventsOn(j), FreshEvents)
        BY <1>0, <2>1, <2>2, <2>4, <3>1, Appended DEF FInv, Following, FeedFresh
      <4> QED
        BY <2>3, <4>1 DEF FeedFresh, EventsOn
    <3>5. event \notin EventsOn(j) => FreshMessages(j) \subseteq FreshMessages(j)'
      BY DEF FreshMessages
    <3>6. WireFresh(j)'
      <4>1. None(feed', EventsOn(j)) => LastIn(wire, MessagesOn(j), FreshMessages(j))
        BY <2>1, <2>2, <3>1, <3>2 DEF FInv, Following, WireFresh
      <4>2. None(feed', EventsOn(j)) => LastIn(wire, MessagesOn(j), FreshMessages(j)')
        BY <3>2, <3>5, <4>1, Weakened
      <4> QED
        BY <1>0, <4>2 DEF WireFresh
    <3>7. CardFresh(j)'
      BY <1>0, <2>1, <2>2, <3>1, <3>2 DEF FInv, Following, CardFresh
    <3>8. Retiring(j)'
      BY <1>0, <2>1, <2>2, <3>3 DEF FInv, Following, Retiring
    <3> QED
      BY <3>4, <3>6, <3>7, <3>8
  <2> QED
    BY <2>6, <2>7
<1> QED
  BY <1>1, <1>2, <1>3 DEF Following

(* A step of a run that does not: a status that changes is owed, or its    *)
(* lane raises.                                                            *)
LEMMA Silent ==
    ASSUME FInv, run' = run, UNCHANGED <<feed, connected, wire, live, timers, loads, disturbed>>,
           phase' # "registered" => phase # "registered",
           \A j \in Jobs :
               /\ \A status : Abreast(status, j) => Abreast(status, j)'
               /\ Shown(j) = "ENDED" => Shown(j)' = "ENDED"
    PROVE  NothingAhead' /\ EndedStay' /\ Following'
<1>1. NothingAhead'
  BY DEF FInv, NothingAhead
<1>2. EndedStay'
  BY DEF FInv, EndedStay
<1>3. ASSUME connected', phase' # "registered"
      PROVE  /\ WideFresh'
             /\ \A j \in Jobs : FeedFresh(j)' /\ WireFresh(j)' /\ CardFresh(j)' /\ Retiring(j)'
  <2>1. WideFresh /\ \A j \in Jobs : FeedFresh(j) /\ WireFresh(j) /\ CardFresh(j) /\ Retiring(j)
    BY <1>3 DEF FInv, Following
  <2>2. FreshEvents' = FreshEvents /\ CurrentEvents' = CurrentEvents /\ CurrentMessages' = CurrentMessages
    BY DEF FreshEvents, CurrentEvents, CurrentMessages
  <2>3. WideFresh'
    BY <2>1, <2>2 DEF WideFresh
  <2>4. ASSUME NEW j \in Jobs
        PROVE  FeedFresh(j)' /\ WireFresh(j)' /\ CardFresh(j)' /\ Retiring(j)'
    <3>1. FeedFresh(j)'
      BY <2>1, <2>2 DEF FeedFresh
    <3>2. FreshMessages(j) \subseteq FreshMessages(j)'
      BY DEF FreshMessages
    <3>3. WireFresh(j)'
      BY <2>1, <3>2, Weakened DEF WireFresh
    <3>4. CardFresh(j)'
      BY <2>1 DEF CardFresh
    <3>5. Retiring(j)'
      BY <2>1 DEF Retiring
    <3> QED
      BY <3>1, <3>3, <3>4, <3>5
  <2> QED
    BY <2>3, <2>4
<1> QED
  BY <1>1, <1>2, <1>3 DEF Following

LEMMA InitFollows == Init => FInv
<1> SUFFICES ASSUME Init
             PROVE  FInv
  OBVIOUS
<1>1. Shapes
  BY InitShapes
<1>2. feed = << >> /\ wire = << >> /\ ~connected
  BY DEF Init
<1>3. NothingAhead /\ EndedStay
  BY <1>2 DEF NothingAhead, EndedStay
<1> QED
  BY <1>1, <1>2, <1>3 DEF Following, FInv

LEMMA RunFollows ==
    ASSUME FInv,
           \/ \E jobs \in Batches : Register(jobs)
           \/ Announce \/ StartLanes \/ Cancel \/ FinishRun \/ FailRun
    PROVE  NothingAhead' /\ EndedStay' /\ Following'
<1> USE DEF runVars, linkVars, cardVars
<1>0. run \in 0 .. MaxRuns /\ run \in Int
  BY FeedAssumption DEF FInv, Shapes, TypeOK
<1>1. ASSUME NEW jobs \in Batches, Register(jobs)
      PROVE  NothingAhead' /\ EndedStay' /\ Following'
  <2>1. run' = run + 1 /\ phase' = "registered" /\ UNCHANGED <<feed, wire>>
    BY <1>1 DEF Register
  <2>2. \A i \in DOMAIN feed : feed[i].run \in Int /\ feed[i].run <= run
    BY Elements, EventFacts DEF FInv, Shapes, TypeOK, NothingAhead
  <2>3. \A i \in DOMAIN wire : wire[i].event.run \in Int /\ wire[i].event.run <= run
    BY EventFacts DEF FInv, Shapes, TypeOK, NothingAhead
  <2>4. NothingAhead'
    BY <1>0, <2>1, <2>2, <2>3 DEF NothingAhead
  <2>5. EndedStay'
    BY <1>0, <2>1, <2>3 DEF EndedStay
  <2> QED
    BY <2>1, <2>4, <2>5 DEF Following
<1>2. ASSUME Announce
      PROVE  NothingAhead' /\ EndedStay' /\ Following'
  <2>1. /\ Emit(AllJobs("run_started")) /\ UNCHANGED <<run, states, owed>>
    BY <1>2 DEF Announce
  <2>2. /\ AllJobs("run_started") \in Wide /\ AllJobs("run_started") \in Events
        /\ AllJobs("run_started").run = run
    BY <1>0, AllJobsType
  <2>3. \A j \in Jobs : AllJobs("run_started") \in EventsOn(j)
    BY <2>2 DEF EventsOn
  <2>4. \A j \in Jobs : Shown(j)' = Shown(j)
    BY <2>1 DEF Shown, JobsOf
  <2> QED
    BY <1>0, <2>1, <2>2, <2>3, <2>4, Emitting
<1>3. ASSUME StartLanes \/ Cancel
      PROVE  NothingAhead' /\ EndedStay' /\ Following'
  <2>1. /\ UNCHANGED <<run, states, owed, raised, feed, connected, wire, live, timers, loads, disturbed>>
        /\ phase' # "registered" => phase # "registered"
        /\ phase = "running" => phase' = "running"
    BY <1>3 DEF StartLanes, Cancel
  <2>2. \A j \in Jobs : Shown(j)' = Shown(j)
    BY <2>1 DEF Shown, JobsOf
  <2>3. \A j \in Jobs : \A status : Abreast(status, j) => Abreast(status, j)'
    BY <2>1, <2>2 DEF Abreast
  <2> QED
    BY <2>1, <2>2, <2>3, Silent
<1>4. ASSUME FinishRun
      PROVE  NothingAhead' /\ EndedStay' /\ Following'
  <2>1. /\ Emit(AllJobs("run_finished")) /\ UNCHANGED <<run, states, owed>>
        /\ phase # "registered"
    BY <1>4 DEF FinishRun
  <2>2. /\ AllJobs("run_finished") \in Wide /\ AllJobs("run_finished") \in Events
        /\ AllJobs("run_finished").run = run
    BY <1>0, AllJobsType
  <2>3. \A j \in Jobs : AllJobs("run_finished") \in EventsOn(j)
    BY <2>2 DEF EventsOn
  <2>4. \A j \in Jobs : Shown(j)' = Shown(j)
    BY <2>1 DEF Shown, JobsOf
  <2> QED
    BY <1>0, <2>1, <2>2, <2>3, <2>4, Emitting
<1>5. ASSUME FailRun
      PROVE  NothingAhead' /\ EndedStay' /\ Following'
  <2>1. /\ Emit(AllJobs("run_failed")) /\ UNCHANGED <<run, states, owed, raised>>
        /\ phase = "checking"
    BY <1>5 DEF FailRun
  <2>2. AllJobs("run_failed") \in Events /\ AllJobs("run_failed").run = run
    BY <1>0, AllJobsType
  <2>3. \A j \in Jobs : Shown(j)' = Shown(j)
    BY <2>1 DEF Shown, JobsOf
  <2>4. \A j \in Jobs : \A status : Abreast(status, j) => Abreast(status, j)'
    BY <2>1, <2>3 DEF Abreast
  <2> QED
    BY <1>0, <2>1, <2>2, <2>3, <2>4, Emitting
<1> QED
  BY <1>1, <1>2, <1>3, <1>4, <1>5

(* The status of one job changes.                                          *)
LEMMA StatusSet ==
    ASSUME Shapes, run > 0, run' = run, NEW j \in Jobs, NEW status, SetStatus(j, status)
    PROVE  /\ Shown(j)' = status
           /\ \A k \in Jobs : k # j => Shown(k)' = Shown(k)
           /\ Shown(j) = states[run][j]
<1>1. run \in 1 .. MaxRuns /\ run # 0
  BY FeedAssumption DEF Shapes, TypeOK
<1>2. states' = [states EXCEPT ![run] = [states[run] EXCEPT ![j] = status]]
  BY DEF SetStatus
<1>3. states'[run] = [states[run] EXCEPT ![j] = status] /\ states[run] \in [Jobs -> CardStates]
  BY <1>1, <1>2 DEF Shapes, TypeOK
<1> QED
  BY <1>1, <1>3 DEF Shown, JobsOf

LEMMA JobFollows ==
    ASSUME FInv, NEW j \in Jobs, JobStep(j)
    PROVE  NothingAhead' /\ EndedStay' /\ Following'
<1> USE DEF runVars, linkVars, cardVars
<1>0. run \in 0 .. MaxRuns /\ run \in Int /\ MaxRuns \in Nat /\ Shapes
  BY FeedAssumption DEF FInv, Shapes, TypeOK
<1>1. ASSUME SkipOffline(j)
      PROVE  NothingAhead' /\ EndedStay' /\ Following'
  <2>1. /\ phase = "checking" /\ SetStatus(j, "ENDED") /\ Emit(Updated(run, j))
        /\ UNCHANGED <<run, phase, owed, raised>>
    BY <1>1 DEF SkipOffline
  <2>2. run > 0 /\ run \in 1 .. MaxRuns
    BY <1>0, <2>1 DEF Shapes
  <2>3. /\ Updated(run, j) \in Updates /\ Updated(run, j) \in Events
        /\ Updated(run, j).run = run /\ Updated(run, j) \in EventsOn(j)
    BY <2>2, UpdatedType DEF EventsOn
  <2>4. Shown(j)' = "ENDED" /\ \A k \in Jobs : k # j => Shown(k)' = Shown(k)
    BY <1>0, <2>1, <2>2, StatusSet
  <2>5. \A k \in Jobs : k # j => (\A status : Abreast(status, k) => Abreast(status, k)')
    BY <2>1, <2>4 DEF Abreast
  <2> QED
    BY <1>0, <2>1, <2>3, <2>4, <2>5, Emitting
<1>2. ASSUME BeginJob(j) \/ EndJob(j)
      PROVE  NothingAhead' /\ EndedStay' /\ Following'
  <2>1. /\ phase = "running" /\ owed' = owed \cup {j}
        /\ UNCHANGED <<run, phase, raised, feed, connected, wire, live, timers, loads, disturbed>>
    BY <1>2 DEF BeginJob, EndJob
  <2>2. run > 0
    BY <2>1, <1>0 DEF Shapes
  <2>3. ASSUME BeginJob(j)
        PROVE  /\ Shown(j) # "ENDED" /\ Shown(j)' = "RUNNING"
               /\ \A k \in Jobs : k # j => Shown(k)' = Shown(k)
    BY <1>0, <2>1, <2>2, <2>3, StatusSet DEF BeginJob
  <2>4. ASSUME EndJob(j)
        PROVE  /\ Shown(j) = "RUNNING" /\ j \notin owed /\ Shown(j)' = "ENDED"
               /\ \A k \in Jobs : k # j => Shown(k)' = Shown(k)
    BY <1>0, <2>1, <2>2, <2>4, StatusSet DEF EndJob
  <2>5. \A k \in Jobs : k # j => (\A status : Abreast(status, k) => Abreast(status, k)')
    BY <1>2, <2>1, <2>3, <2>4 DEF Abreast
  <2>6. \A status : Abreast(status, j) => Abreast(status, j)'
    BY <1>2, <2>1, <2>3, <2>4 DEF Abreast
  <2> QED
    BY <1>2, <2>1, <2>3, <2>4, <2>5, <2>6, Silent
<1>3. ASSUME JobRaises(j) \/ RecordRaises(j)
      PROVE  NothingAhead' /\ EndedStay' /\ Following'
  <2>1. /\ UNCHANGED <<run, phase, states, feed, connected, wire, live, timers, loads, disturbed>>
        /\ raised' = raised \cup {j} /\ phase = "running"
        /\ owed' = owed \/ (owed' = owed \ {j} /\ states[run][j] = "ENDED")
    BY <1>3 DEF JobRaises, RecordRaises
  <2>2. \A k \in Jobs : Shown(k)' = Shown(k)
    BY <2>1 DEF Shown, JobsOf
  <2>3. Shown(j) = states[run][j]
    BY <1>0, <2>1 DEF Shown, JobsOf, Shapes
  <2>4. \A k \in Jobs : \A status : Abreast(status, k) => Abreast(status, k)'
    BY <2>1, <2>2, <2>3 DEF Abreast
  <2> QED
    BY <2>1, <2>2, <2>4, Silent
<1>4. ASSUME EmitJob(j) \/ Progress(j)
      PROVE  NothingAhead' /\ EndedStay' /\ Following'
  <2>1. /\ owed' \in {owed, owed \ {j}} /\ Emit(Updated(run, j))
        /\ UNCHANGED <<run, phase, states, raised>>
        /\ phase = "running"
    BY <1>0, <1>4 DEF EmitJob, Progress, Shapes
  <2>2. run \in 1 .. MaxRuns
    BY <1>0, <2>1 DEF Shapes
  <2>3. /\ Updated(run, j) \in Updates /\ Updated(run, j) \in Events
        /\ Updated(run, j).run = run /\ Updated(run, j) \in EventsOn(j)
    BY <2>2, UpdatedType DEF EventsOn
  <2>4. \A k \in Jobs : Shown(k)' = Shown(k)
    BY <2>1 DEF Shown, JobsOf
  <2>5. \A k \in Jobs : k # j => (\A status : Abreast(status, k) => Abreast(status, k)')
    BY <2>1, <2>4 DEF Abreast
  <2> QED
    BY <1>0, <2>1, <2>3, <2>4, <2>5, Emitting
<1>5. ASSUME NEW r \in 1 .. run, SizeKnown(r, j)
      PROVE  NothingAhead' /\ EndedStay' /\ Following'
  <2>1. Emit(Updated(r, j)) /\ UNCHANGED <<run, phase, states, owed, raised>>
    BY <1>5 DEF SizeKnown
  <2>2. r \in 1 .. MaxRuns /\ r <= run
    BY <1>0
  <2>3. Updated(r, j) \in Updates /\ Updated(r, j) \in Events /\ Updated(r, j).run = r
    BY <2>2, UpdatedType
  <2>4. \A k \in Jobs : Shown(k)' = Shown(k)
    BY <2>1 DEF Shown, JobsOf
  <2>5. \A k \in Jobs : \A status : Abreast(status, k) => Abreast(status, k)'
    BY <2>1, <2>4 DEF Abreast
  <2> QED
    BY <2>1, <2>2, <2>3, <2>4, <2>5, Emitting
<1> QED
  BY <1>1, <1>2, <1>3, <1>4, <1>5 DEF JobStep

LEMMA SendFollows ==
    ASSUME FInv, Send
    PROVE  NothingAhead' /\ EndedStay' /\ Following'
<1> DEFINE e == Head(feed)
           m == Rendered(Head(feed))
<1>0. /\ feed \in Seq(Events) /\ wire \in Seq(Messages) /\ feed # << >> /\ TypeOK
      /\ feed' = Tail(feed) /\ wire' = Append(wire, m)
      /\ UNCHANGED <<run, phase, states, owed, raised, connected, live, timers, loads, disturbed>>
  BY DEF FInv, Shapes, TypeOK, Send, runVars, cardVars
<1>1. /\ e \in Events /\ e.run <= run
      /\ m \in Messages /\ m.event = e
      /\ \A j \in Jobs : e \in EventsOn(j) => m.jobs[j] = JobsOf(e.run)[j]
  BY <1>0, Elements, RenderedType DEF FInv, NothingAhead
<1> HIDE DEF e, m
<1>2. NothingAhead'
  <2>1. \A i \in DOMAIN feed' : feed'[i].run <= run
    BY <1>0, Elements DEF FInv, NothingAhead
  <2>2. \A i \in DOMAIN wire' : wire'[i].event.run <= run
    BY <1>0, <1>1, Elements DEF FInv, NothingAhead
  <2> QED
    BY <1>0, <2>1, <2>2 DEF NothingAhead
<1>3. \A j \in Jobs : Shown(j)' = Shown(j) /\ (\A status : Abreast(status, j)' <=> Abreast(status, j))
  BY <1>0 DEF Shown, JobsOf, Abreast
<1>4. EndedStay'
  <2> SUFFICES ASSUME NEW i \in DOMAIN wire', NEW j \in Jobs,
                      wire'[i].event.run = run, wire'[i].event \in EventsOn(j),
                      wire'[i].jobs[j] = "ENDED"
               PROVE  Shown(j) = "ENDED"
    BY <1>0, <1>3 DEF EndedStay
  <2>1. wire'[i] = m \/ (i \in DOMAIN wire /\ wire'[i] = wire[i])
    BY <1>0, <1>1, Elements
  <2>2. CASE wire'[i] = m
    BY <1>1, <2>2 DEF Shown
  <2>3. CASE i \in DOMAIN wire /\ wire'[i] = wire[i]
    BY <2>3 DEF FInv, EndedStay
  <2> QED
    BY <2>1, <2>2, <2>3
<1>5. ASSUME connected, phase # "registered"
      PROVE  /\ WideFresh'
             /\ \A j \in Jobs : FeedFresh(j)' /\ WireFresh(j)' /\ CardFresh(j)' /\ Retiring(j)'
  <2>1. WideFresh /\ \A j \in Jobs : FeedFresh(j) /\ WireFresh(j) /\ CardFresh(j) /\ Retiring(j)
    BY <1>5 DEF FInv, Following
  <2>2. FreshEvents' = FreshEvents /\ CurrentEvents' = CurrentEvents /\ CurrentMessages' = CurrentMessages
    BY <1>0 DEF FreshEvents, CurrentEvents, CurrentMessages
  <2>3. m \in WideMessages <=> e \in Wide
    BY <1>1 DEF WideMessages
  <2>4. None(feed', Wide) /\ e \notin Wide => None(feed, Wide)
    BY <1>0, Removed DEF e
  <2>5. None(wire', WideMessages) => None(wire, WideMessages) /\ e \notin Wide
    BY <1>0, <1>1, <2>3, Appended
  <2>6. WideFresh'
    <3>1. LastIn(feed', Wide, CurrentEvents)
      BY <1>0, <2>1, Removed DEF WideFresh
    <3>2. ASSUME None(feed', Wide)
          PROVE  LastIn(wire', WideMessages, CurrentMessages)
      <4>1. CASE e \in Wide
        <5>1. e \in CurrentEvents
          BY <1>0, <2>1, <3>2, <4>1, Removed DEF WideFresh, e
        <5>2. m \in CurrentMessages /\ m \in WideMessages
          BY <1>1, <2>3, <4>1, <5>1 DEF CurrentEvents, CurrentMessages
        <5> QED
          BY <1>0, <1>1, <5>2, Appended
      <4>2. CASE e \notin Wide
        BY <1>0, <1>1, <2>1, <2>3, <2>4, <3>2, <4>2, Appended DEF WideFresh
      <4> QED
        BY <4>1, <4>2
    <3> QED
      BY <2>2, <3>1, <3>2 DEF WideFresh
  <2>7. ASSUME NEW j \in Jobs
        PROVE  FeedFresh(j)' /\ WireFresh(j)' /\ CardFresh(j)' /\ Retiring(j)'
    <3>1. m \in MessagesOn(j) <=> e \in EventsOn(j)
      BY <1>1 DEF MessagesOn
    <3>2. None(feed', EventsOn(j)) /\ e \notin EventsOn(j) => None(feed, EventsOn(j))
      BY <1>0, Removed DEF e
    <3>3. None(wire', MessagesOn(j)) => None(wire, MessagesOn(j)) /\ e \notin EventsOn(j)
      BY <1>0, <1>1, <3>1, Appended
    <3>4. FreshMessages(j)' = FreshMessages(j)
      BY <1>0, <1>3 DEF FreshMessages
    <3>5. FeedFresh(j)'
      <4>1. LastIn(feed', EventsOn(j), FreshEvents)
        BY <1>0, <2>1, Removed DEF FeedFresh
      <4> QED
        BY <2>2, <4>1 DEF FeedFresh
    <3>6. ASSUME None(feed', EventsOn(j))
          PROVE  LastIn(wire', MessagesOn(j), FreshMessages(j))
      <4>1. CASE e \in EventsOn(j)
        <5>1. e \in FreshEvents
          BY <1>0, <2>1, <3>6, <4>1, Removed DEF FeedFresh, e
        <5>2. m \in FreshMessages(j)
          <6>1. CASE e.run = run
            BY <1>1, <4>1, <6>1 DEF FreshMessages, Abreast, Shown
          <6>2. CASE e.run # run
            <7>1. e \in Updates /\ e.run < run
              BY <1>0, <1>1, <5>1, <6>2, EventFacts DEF FreshEvents, TypeOK
            <7> QED
              BY <1>1, <7>1 DEF FreshMessages
          <6> QED
            BY <6>1, <6>2
        <5> QED
          BY <1>0, <1>1, <3>1, <4>1, <5>2, Appended
      <4>2. CASE e \notin EventsOn(j)
        <5>1. LastIn(wire, MessagesOn(j), FreshMessages(j))
          BY <2>1, <3>2, <3>6, <4>2 DEF WireFresh
        <5> QED
          BY <1>0, <1>1, <3>1, <4>2, <5>1, Appended
      <4> QED
        BY <4>1, <4>2
    <3>7. WireFresh(j)'
      BY <3>4, <3>6 DEF WireFresh
    <3>8. CardFresh(j)'
      BY <1>0, <1>3, <2>1, <3>2, <3>3 DEF CardFresh
    <3>9. Retiring(j)'
      BY <1>0, <1>3, <2>1, <2>4, <2>5 DEF Retiring
    <3> QED
      BY <3>5, <3>7, <3>8, <3>9
  <2> QED
    BY <2>6, <2>7
<1> QED
  BY <1>0, <1>2, <1>4, <1>5 DEF Following

LEMMA ReceiveFollows ==
    ASSUME FInv, Receive
    PROVE  NothingAhead' /\ EndedStay' /\ Following'
<1> DEFINE m == Head(wire)
<1>0. /\ wire \in Seq(Messages) /\ wire # << >> /\ wire' = Tail(wire)
      /\ UNCHANGED <<run, phase, states, owed, raised, feed, connected, loads>>
      /\ live \in [Jobs -> CardStates] /\ timers \subseteq Jobs /\ disturbed \subseteq Jobs
      /\ run \in 0 .. MaxRuns
  BY DEF FInv, Shapes, TypeOK, Receive, runVars
<1>1. /\ m \in Messages /\ m = wire[1] /\ 1 \in DOMAIN wire
      /\ m.event \in Events
      /\ m.event \in Updates => m.jobs \in [{m.event.job} -> CardStates]
      /\ m.event \notin Updates => m.jobs \in [Jobs -> CardStates]
  BY <1>0, Elements, MessageFacts
<1>2. m.event.run <= run
  BY <1>1 DEF FInv, NothingAhead
<1>3. \A j \in Jobs :
        m.event.run = run /\ m.event \in EventsOn(j) /\ m.jobs[j] = "ENDED" => Shown(j) = "ENDED"
  BY <1>1 DEF FInv, EndedStay
<1>4. /\ m.event \in Wide => ReplaceLiveJobs(m.jobs)
      /\ m.event \in Updates => UpdateLiveJob(m)
      /\ m.event \in Failures => UNCHANGED <<live, timers, disturbed>>
  BY <1>1, EventFacts DEF Receive
<1> HIDE DEF m
<1>5. \A i \in DOMAIN wire' : i + 1 \in DOMAIN wire /\ wire'[i] = wire[i + 1]
  BY <1>0, Elements
<1>6. NothingAhead' /\ EndedStay'
  <2>1. NothingAhead'
    BY <1>0, <1>5 DEF FInv, NothingAhead
  <2>2. \A j \in Jobs : Shown(j)' = Shown(j)
    BY <1>0 DEF Shown, JobsOf
  <2>3. EndedStay'
    BY <1>0, <1>5, <2>2 DEF FInv, EndedStay
  <2> QED
    BY <2>1, <2>3
<1>7. ASSUME connected, phase # "registered"
      PROVE  /\ WideFresh'
             /\ \A j \in Jobs : FeedFresh(j)' /\ WireFresh(j)' /\ CardFresh(j)' /\ Retiring(j)'
  <2>1. WideFresh /\ \A j \in Jobs : FeedFresh(j) /\ WireFresh(j) /\ CardFresh(j) /\ Retiring(j)
    BY <1>7 DEF FInv, Following
  <2>2. FreshEvents' = FreshEvents /\ CurrentEvents' = CurrentEvents /\ CurrentMessages' = CurrentMessages
    BY <1>0 DEF FreshEvents, CurrentEvents, CurrentMessages
  <2>3. m \in WideMessages <=> m.event \in Wide
    BY <1>1 DEF WideMessages
  <2>4. WideFresh'
    <3>1. None(feed, Wide) => LastIn(wire', WideMessages, CurrentMessages)
      BY <1>0, <2>1, Removed DEF WideFresh
    <3> QED
      BY <1>0, <2>1, <2>2, <3>1 DEF WideFresh
  <2>5. ASSUME NEW j \in Jobs
        PROVE  FeedFresh(j)' /\ WireFresh(j)' /\ CardFresh(j)' /\ Retiring(j)'
    <3>0. Shown(j)' = Shown(j) /\ \A status : Abreast(status, j)' <=> Abreast(status, j)
      BY <1>0 DEF Shown, JobsOf, Abreast
    <3>1. Shown(j)' = Shown(j) /\ FreshMessages(j)' = FreshMessages(j)
      BY <1>0, <3>0 DEF FreshMessages
    <3>2. FeedFresh(j)'
      BY <1>0, <2>1, <2>2 DEF FeedFresh
    <3>3. WireFresh(j)'
      <4>1. None(feed, EventsOn(j)) => LastIn(wire', MessagesOn(j), FreshMessages(j))
        BY <1>0, <2>1, Removed DEF WireFresh
      <4> QED
        BY <1>0, <3>1, <4>1 DEF WireFresh
    <3>4. m \in MessagesOn(j) <=> m.event \in EventsOn(j)
      BY <1>1 DEF MessagesOn
    <3>5. /\ m.event \in EventsOn(j) => m.event \in Wide \/ (m.event \in Updates /\ m.event.job = j)
          /\ m.event \in Wide => m.event \in EventsOn(j) /\ m.event \notin Updates
      BY <1>1, EventFacts
    (* The card. *)
    <3>6. ASSUME None(feed, EventsOn(j)), None(wire', MessagesOn(j)), m.event \in EventsOn(j)
          PROVE  m \in FreshMessages(j)
      <4>1. LastIn(wire, MessagesOn(j), FreshMessages(j))
        BY <2>1, <3>6 DEF WireFresh
      <4> QED
        BY <1>0, <3>4, <3>6, <4>1, Removed DEF m
    <3>7. CardFresh(j)'
      <4> SUFFICES ASSUME None(feed, EventsOn(j)), None(wire', MessagesOn(j))
                   PROVE  \/ j \in disturbed'
                          \/ Abreast(live'[j], j)
                          \/ live'[j] = NoCard /\ Shown(j) = "ENDED"
        BY <1>0, <3>0, <3>1 DEF CardFresh
      <4>1. CASE m.event \in Wide
        <5>1. m \in FreshMessages(j) /\ live' = m.jobs
          BY <1>4, <3>5, <3>6, <4>1 DEF ReplaceLiveJobs
        <5> QED
          BY <3>5, <4>1, <5>1 DEF FreshMessages
      <4>2. CASE m.event \in Updates /\ m.event.job = j
        <5>1. m.event \in EventsOn(j)
          BY <4>2 DEF EventsOn
        <5>2. m \in FreshMessages(j)
          BY <3>6, <5>1
        <5>3. /\ live'[j] = m.jobs[j]
              /\ m.event.run < run => j \in disturbed'
          BY <1>0, <1>4, <4>2 DEF UpdateLiveJob
        <5> QED
          BY <5>2, <5>3 DEF FreshMessages
      <4>3. CASE m.event \notin EventsOn(j)
        <5>1. None(wire, MessagesOn(j))
          BY <1>0, <3>4, <4>3, Removed DEF m
        <5>2. live'[j] = live[j] /\ disturbed \subseteq disturbed'
          <6>1. CASE m.event \in Updates
            <7>1. m.event.job # j
              BY <4>3, <6>1 DEF EventsOn
            <7> QED
              BY <1>0, <1>4, <6>1, <7>1 DEF UpdateLiveJob
          <6>2. CASE m.event \in Failures
            BY <1>4, <6>2
          <6> QED
            BY <1>1, <4>3, <3>5, <6>1, <6>2, EventFacts
        <5> QED
          BY <2>1, <5>1, <5>2 DEF CardFresh
      <4> QED
        BY <3>5, <4>1, <4>2, <4>3
    (* Its timer. *)
    <3>8. Retiring(j)'
      <4> SUFFICES ASSUME None(feed, Wide), None(wire', WideMessages),
                          j \in timers' \/ loads[j] > 0
                   PROVE  j \in disturbed' \/ Shown(j) = "ENDED"
        BY <1>0, <3>1 DEF Retiring
      <4>1. CASE m.event \in Wide
        <5>1. m \in CurrentMessages
          BY <1>0, <2>1, <2>3, <4>1, Removed DEF WideFresh, m
        <5>2. timers' = Ended(m.jobs) /\ disturbed' = {k \in Jobs : loads[k] > 0}
          BY <1>4, <4>1 DEF ReplaceLiveJobs
        <5>3. j \in timers' => m.jobs[j] = "ENDED"
          BY <5>2 DEF Ended
        <5> QED
          BY <1>3, <3>5, <4>1, <5>1, <5>2, <5>3 DEF CurrentMessages
      <4>2. CASE m.event \notin Wide
        <5>1. None(wire, WideMessages)
          BY <1>0, <2>3, <4>2, Removed DEF m
        <5>2. (j \in timers \/ loads[j] > 0) => j \in disturbed \/ Shown(j) = "ENDED"
          BY <2>1, <5>1 DEF Retiring
        <5>3. CASE m.event \in Updates
          <6>1. timers' = timers \cup Ended(m.jobs) /\ disturbed \subseteq disturbed'
            BY <1>4, <5>3 DEF UpdateLiveJob
          <6>2. ASSUME j \in Ended(m.jobs)
                PROVE  j \in disturbed' \/ Shown(j) = "ENDED"
            <7>1. j = m.event.job /\ m.jobs[j] = "ENDED"
              BY <1>1, <5>3, <6>2 DEF Ended
            <7>2. m.event \in EventsOn(j)
              BY <5>3, <7>1 DEF EventsOn
            <7>3. CASE m.event.run = run
              BY <1>3, <7>1, <7>2, <7>3
            <7>4. CASE m.event.run < run
              BY <1>4, <5>3, <7>1, <7>4 DEF UpdateLiveJob
            <7>5. m.event.run \in 0 .. MaxRuns
              BY <1>1, EventFacts
            <7> QED
              BY <1>0, <1>2, <7>3, <7>4, <7>5, FeedAssumption
          <6> QED
            BY <5>2, <6>1, <6>2
        <5>4. CASE m.event \in Failures
          BY <1>4, <5>2, <5>4
        <5> QED
          BY <1>1, <4>2, <5>3, <5>4, EventFacts
      <4> QED
        BY <4>1, <4>2
    <3> QED
      BY <3>2, <3>3, <3>7, <3>8
  <2> QED
    BY <2>4, <2>5
<1> QED
  BY <1>0, <1>6, <1>7 DEF Following

LEMMA LinkFollows ==
    ASSUME FInv, LinkStep
    PROVE  NothingAhead' /\ EndedStay' /\ Following'
<1> USE DEF runVars, linkVars, cardVars
<1>0. run \in 0 .. MaxRuns
  BY DEF FInv, Shapes, TypeOK
<1>1. ASSUME Connect
      PROVE  NothingAhead' /\ EndedStay' /\ Following'
  <2> DEFINE e == AllJobs("snapshot")
  <2>1. /\ feed' = <<e>> /\ wire = << >> /\ UNCHANGED <<run, phase, states, owed, wire>>
    BY <1>1 DEF Connect, FInv, Shapes
  <2>2. e \in Wide /\ e \in Events /\ e.run = run
    BY <1>0, AllJobsType
  <2> HIDE DEF e
  <2>3. NothingAhead' /\ EndedStay'
    BY <1>0, <2>1, <2>2 DEF NothingAhead, EndedStay
  <2>4. feed'[1] = e /\ DOMAIN feed' = {1}
    BY <2>1
  <2>5. ~None(feed', Wide) /\ \A j \in Jobs : ~None(feed', EventsOn(j))
    BY <2>2, <2>4 DEF None, EventsOn
  <2>6. e \in CurrentEvents' /\ e \in FreshEvents'
    BY <2>1, <2>2 DEF CurrentEvents, FreshEvents
  <2>7. WideFresh'
    BY <2>4, <2>5, <2>6 DEF WideFresh, LastIn
  <2>8. ASSUME NEW j \in Jobs
        PROVE  FeedFresh(j)' /\ WireFresh(j)' /\ CardFresh(j)' /\ Retiring(j)'
    BY <2>4, <2>5, <2>6 DEF FeedFresh, WireFresh, CardFresh, Retiring, LastIn
  <2> QED
    BY <2>3, <2>7, <2>8 DEF Following
<1>2. ASSUME Disconnect
      PROVE  NothingAhead' /\ EndedStay' /\ Following'
  <2>1. feed' = << >> /\ wire' = << >> /\ connected' = FALSE
    BY <1>2 DEF Disconnect
  <2> QED
    BY <2>1 DEF NothingAhead, EndedStay, Following
<1> QED
  BY <1>1, <1>2, SendFollows, ReceiveFollows DEF LinkStep

LEMMA CardFollows ==
    ASSUME FInv, NEW j \in Jobs, CardStep(j)
    PROVE  NothingAhead' /\ EndedStay' /\ Following'
<1>0. /\ UNCHANGED <<run, phase, states, owed, raised, feed, wire, connected, disturbed>>
      /\ loads \in [Jobs -> Nat] /\ live \in [Jobs -> CardStates]
  BY DEF CardStep, TimerFires, Retire, runVars, linkVars, FInv, Shapes, TypeOK
<1>1. \A k \in Jobs :
        /\ Shown(k)' = Shown(k) /\ FreshMessages(k)' = FreshMessages(k)
        /\ \A status : Abreast(status, k)' <=> Abreast(status, k)
  <2>1. \A k \in Jobs : Shown(k)' = Shown(k) /\ \A status : Abreast(status, k)' <=> Abreast(status, k)
    BY <1>0 DEF Shown, JobsOf, Abreast
  <2> QED
    BY <1>0, <2>1 DEF FreshMessages
<1>2. NothingAhead' /\ EndedStay'
  BY <1>0, <1>1 DEF FInv, NothingAhead, EndedStay
<1>3. \A k \in Jobs : k \in timers' \/ loads'[k] > 0 => k \in timers \/ loads[k] > 0
  BY <1>0 DEF CardStep, TimerFires, Retire
<1>4. ASSUME connected, phase # "registered"
      PROVE  /\ WideFresh'
             /\ \A k \in Jobs : FeedFresh(k)' /\ WireFresh(k)' /\ CardFresh(k)' /\ Retiring(k)'
  <2>1. WideFresh /\ \A k \in Jobs : FeedFresh(k) /\ WireFresh(k) /\ CardFresh(k) /\ Retiring(k)
    BY <1>4 DEF FInv, Following
  <2>2. FreshEvents' = FreshEvents /\ CurrentEvents' = CurrentEvents /\ CurrentMessages' = CurrentMessages
    BY <1>0 DEF FreshEvents, CurrentEvents, CurrentMessages
  <2>3. WideFresh'
    BY <1>0, <2>1, <2>2 DEF WideFresh
  <2>4. ASSUME NEW k \in Jobs
        PROVE  FeedFresh(k)' /\ WireFresh(k)' /\ CardFresh(k)' /\ Retiring(k)'
    <3>1. FeedFresh(k)' /\ WireFresh(k)'
      BY <1>0, <1>1, <2>1, <2>2 DEF FeedFresh, WireFresh
    <3>2. Retiring(k)'
      BY <1>0, <1>1, <1>3, <2>1 DEF Retiring
    <3>3. CardFresh(k)'
      <4>1. CASE live'[k] = live[k]
        BY <1>0, <1>1, <2>1, <4>1 DEF CardFresh
      <4>2. CASE Retire(j) /\ k = j
        <5>1. None(feed, EventsOn(k)) => None(feed, Wide)
          BY DEF None, EventsOn
        <5>2. None(wire, MessagesOn(k)) => None(wire, WideMessages)
          BY DEF None, MessagesOn, WideMessages, EventsOn
        <5>3. loads[k] > 0 /\ live'[k] = NoCard
          BY <1>0, <4>2 DEF Retire
        <5> QED
          BY <1>0, <1>1, <2>1, <5>1, <5>2, <5>3 DEF CardFresh, Retiring
      <4>3. live'[k] = live[k] \/ (Retire(j) /\ k = j)
        BY <1>0 DEF CardStep, TimerFires, Retire
      <4> QED
        BY <4>1, <4>2, <4>3
    <3> QED
      BY <3>1, <3>2, <3>3
  <2> QED
    BY <2>3, <2>4
<1> QED
  BY <1>0, <1>2, <1>4 DEF Following

LEMMA StepFollows == FInv /\ [Next]_vars => FInv'
<1> SUFFICES ASSUME FInv, [Next]_vars
             PROVE  FInv'
  OBVIOUS
<1>1. Shapes'
  BY StepShapes DEF FInv
<1>2. CASE UNCHANGED vars
  <2>1. UNCHANGED <<run, phase, states, owed, raised, feed, wire, connected, live, timers, loads, disturbed>>
    BY <1>2 DEF vars, runVars, linkVars, cardVars
  <2>2. \A j \in Jobs : Shown(j)' = Shown(j) /\ \A status : Abreast(status, j) => Abreast(status, j)'
    BY <2>1 DEF Shown, JobsOf, Abreast
  <2> QED
    BY <1>1, <2>1, <2>2, Silent DEF FInv
<1>3. CASE Next
  BY <1>1, <1>3, RunFollows, JobFollows, LinkFollows, CardFollows DEF Next, RunStep, FInv
<1> QED
  BY <1>2, <1>3

LEMMA FollowInvariance == Spec => []FInv
  BY InitFollows, StepFollows, PTL DEF Spec

------------------------------------------------------------------------------
(* The variables keep their types.                                         *)
THEOREM TypeCorrect == Spec => []TypeOK
<1>1. FInv => TypeOK
  BY DEF FInv, Shapes
<1> QED
  BY <1>1, FollowInvariance, PTL

(* A browser that has caught up shows the run: every job that waits or     *)
(* runs has its card with its status, whatever connections were lost,      *)
(* whatever was rendered late and however results lingered, but where an   *)
(* earlier run still reaches in; and an outcome that could not be recorded *)
(* is hidden by RUNNING at most until the run ends.                        *)
THEOREM CardsFollow == Spec => []CardsFollowTheRun
<1>1. FInv => CardsFollowTheRun
  <2> SUFFICES ASSUME FInv, CaughtUp, NEW j \in Jobs \ disturbed
               PROVE  \/ live[j] = JobsOf(run)[j]
                      \/ live[j] = NoCard /\ JobsOf(run)[j] = "ENDED"
                      \/ /\ live[j] = "RUNNING" /\ JobsOf(run)[j] = "ENDED"
                         /\ j \in raised /\ phase = "running"
    BY DEF CardsFollowTheRun
  <2>1. None(feed, EventsOn(j)) /\ None(wire, MessagesOn(j))
    BY DEF CaughtUp, None
  <2>2. CardFresh(j) /\ owed = {}
    BY DEF CaughtUp, FInv, Following
  <2> QED
    BY <2>1, <2>2 DEF CardFresh, Abreast, Shown
<1> QED
  BY <1>1, FollowInvariance, PTL
==============================================================================
