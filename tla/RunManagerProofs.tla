-------------------------- MODULE RunManagerProofs ---------------------------
(***************************************************************************)
(* Safety of RunManager for every set of jobs, configs, batches, handlers  *)
(* and browsers: type correctness, one run at a time, the order of the     *)
(* queue, and what the tray's wait() covers.                               *)
(***************************************************************************)
EXTENDS RunManager, FiniteSetTheorems, SequenceTheorems, TLAPS

(* The flag and _runner name the one run that is in progress.              *)
Alone == \A r \in Runs : InProgress(r) => running /\ r = current

(* Entries wait in front of every run that was ever set up.                *)
QueueAhead ==
    /\ current <= seq
    /\ \A e \in waiting : current < e /\ e <= seq
    /\ \A r \in Runs : rpc[r] # "unborn" => r <= current

(* A thread that was handed over is set up, not started, and one thread's  *)
(* alone to start.                                                         *)
StartsOnce ==
    \A t \in Threads : toStart[t] # 0 =>
        /\ rpc[toStart[t]] = "built"
        /\ \A u \in Threads : toStart[u] = toStart[t] => u = t

(* A handler that has resolved its requests holds the config it used.      *)
HasConfig == \A h \in Handlers : hpc[h] = "resolved" => held[h] \in Configs

(* An event on its way has receivers that are connected, and a run         *)
(* publishes its last events before it takes the lock.                     *)
FeedInOrder ==
    /\ \A t \in Threads : sending[t] # {} => ~ Free(t)
    /\ \A t \in Threads, s \in Subscribers : s \in sending[t] => view[s] # Nothing
    /\ \A r \in Runs : rpc[r] = "loaded" => Free(r)

Control == Alone /\ QueueAhead /\ StartsOnce
MInv == TypeOK /\ Control /\ HasConfig /\ FeedInOrder

------------------------------------------------------------------------------
(* A batch has finitely many requests.                                     *)
LEMMA BatchIsFinite ==
    ASSUME NEW n \in Nat, NEW in \in SUBSET (1 .. n), NEW part \in SUBSET in
    PROVE  /\ IsFiniteSet(part)
           /\ Cardinality(part) \in Nat
           /\ Cardinality(part) <= Cardinality(in)
           /\ Cardinality(part) = Cardinality(in) => part = in
<1>1. IsFiniteSet(1 .. n)
  <2>1. 1 \in Int /\ n \in Int
    OBVIOUS
  <2> QED
    BY <2>1, FS_Interval, Zenon
<1>2. IsFiniteSet(in)
  BY <1>1, FS_Subset, Zenon
<1>3. /\ IsFiniteSet(part)
      /\ Cardinality(part) <= Cardinality(in)
      /\ Cardinality(in) = Cardinality(part) => in = part
  BY <1>2, FS_Subset, Zenon
<1>4. Cardinality(part) \in Nat
  BY <1>3, FS_CardinalityType, Zenon
<1> QED
  BY <1>3, <1>4

(* The ids a batch gets are new, and grow along the batch.                 *)
LEMMA IdsAreNew ==
    ASSUME NEW n \in Nat, NEW in \in SUBSET (1 .. n), seq \in Nat, NEW i \in in
    PROVE  /\ Cardinality(in) \in Nat
           /\ IdOf(in, i) \in Nat
           /\ seq < IdOf(in, i)
           /\ IdOf(in, i) <= seq + Cardinality(in)
<1> DEFINE upTo == {k \in in : k <= i}
<1>1. upTo \in SUBSET in /\ i \in upTo
  OBVIOUS
<1> HIDE DEF upTo
<1>2. /\ IsFiniteSet(upTo)
      /\ Cardinality(upTo) \in Nat
      /\ Cardinality(upTo) <= Cardinality(in)
  BY <1>1, BatchIsFinite
<1>3. Cardinality(in) \in Nat
  BY BatchIsFinite
<1>4. Cardinality(upTo) # 0
  BY <1>1, <1>2, FS_EmptySet
<1>5. IdOf(in, i) = seq + Cardinality(upTo)
  BY DEF IdOf, upTo
<1> QED
  BY <1>2, <1>3, <1>4, <1>5

LEMMA IdsGrow ==
    ASSUME NEW n \in Nat, NEW in \in SUBSET (1 .. n), seq \in Nat,
           NEW i \in in, NEW k \in in, i < k
    PROVE  IdOf(in, i) < IdOf(in, k)
<1> DEFINE low == {j \in in : j <= i}
           high == {j \in in : j <= k}
<1>1. low \subseteq high /\ k \in high /\ k \notin low
  <2>1. i \in Int /\ k \in Int /\ \A j \in in : j \in Int
    OBVIOUS
  <2>2. ~ (k <= i) /\ k <= k /\ \A j \in in : j <= i => j <= k
    BY <2>1
  <2> QED
    BY <2>2, Zenon
<1>2. high \in SUBSET (1 .. n) /\ low \in SUBSET high
  BY <1>1
<1> HIDE DEF low, high
<1>3. /\ Cardinality(low) \in Nat
      /\ Cardinality(low) <= Cardinality(high)
      /\ Cardinality(low) = Cardinality(high) => low = high
  BY <1>2, BatchIsFinite
<1>4. Cardinality(high) \in Nat
  BY <1>2, BatchIsFinite
<1>5. IdOf(in, i) = seq + Cardinality(low) /\ IdOf(in, k) = seq + Cardinality(high)
  BY DEF IdOf, low, high
<1> QED
  BY <1>1, <1>3, <1>4, <1>5

(* What the locked section of submit() puts in the queue.                  *)
LEMMA EnqueueAdds ==
    ASSUME TypeOK, NEW h \in Handlers, Enqueue(h)
    PROVE  /\ seq' \in seq .. MaxEntries
           /\ asked' \in [Runs -> SUBSET Selectors]
           /\ \A e \in Runs : e <= seq \/ seq' < e => asked'[e] = asked[e]
           /\ \E q \in SUBSET Runs :
                /\ waiting \subseteq q
                /\ \A e \in q \ waiting : seq < e /\ e <= seq'
                /\ \A e \in Runs : seq < e /\ e <= seq' => e \in q
                /\ \A e \in q \ waiting : asked'[e] \cap Taken = {}
                /\ \A e, k \in q \ waiting : e # k => asked'[e] \cap asked'[k] = {}
                /\ IF running
                   THEN waiting' = q /\ UNCHANGED <<stateVars, rpc, toStart>>
                   ELSE LaunchNext(h, held[h], q, asked', rpc)
<1> DEFINE batch == request[h]
<1>1. PICK in \in SUBSET DOMAIN batch :
        /\ Accepted(batch, in)
        /\ seq + Cardinality(in) <= MaxEntries
        /\ seq' = seq + Cardinality(in)
        /\ asked' = [e \in Runs |->
                        IF \E i \in in : IdOf(in, i) = e
                        THEN batch[CHOOSE i \in in : IdOf(in, i) = e]
                        ELSE asked[e]]
        /\ IF running
           THEN waiting' = waiting \cup {IdOf(in, i) : i \in in}
                /\ UNCHANGED <<stateVars, rpc, toStart>>
           ELSE LaunchNext(h, held[h], waiting \cup {IdOf(in, i) : i \in in}, asked', rpc)
  BY DEF Enqueue
<1>2. batch \in Seq(SUBSET Selectors) /\ seq \in Nat /\ MaxEntries \in Nat
      /\ waiting \subseteq Runs
  BY ManagerAssumption DEF TypeOK
<1>3. PICK n \in Nat : DOMAIN batch = 1 .. n
  BY <1>2
<1>4. Cardinality(in) \in Nat
  BY <1>3, BatchIsFinite
<1>5. \A i \in in : IdOf(in, i) \in Nat /\ seq < IdOf(in, i) /\ IdOf(in, i) <= seq'
  BY <1>1, <1>2, <1>3, IdsAreNew
<1>6. seq' \in seq .. MaxEntries
  BY <1>1, <1>2, <1>4
<1>7. \A i \in in : IdOf(in, i) \in Runs
  BY <1>2, <1>5, <1>6 DEF Runs
<1>8. \A i \in in : batch[i] \in SUBSET Selectors
  BY <1>2
<1>9. asked' \in [Runs -> SUBSET Selectors]
  BY <1>1, <1>8 DEF TypeOK
<1>10. \A e \in Runs : e <= seq \/ seq' < e => asked'[e] = asked[e]
  <2>1. \A e \in Runs : e <= seq \/ seq' < e => \A i \in in : IdOf(in, i) # e
    BY <1>2, <1>5, <1>6 DEF Runs
  <2> QED
    BY <1>1, <2>1, Zenon
<1> DEFINE ids == {IdOf(in, i) : i \in in}
           q == waiting \cup ids
<1>11. q \in SUBSET Runs
  BY <1>2, <1>7
<1>12. \A e \in q \ waiting : seq < e /\ e <= seq'
  BY <1>5
<1>13. IF running
       THEN waiting' = q /\ UNCHANGED <<stateVars, rpc, toStart>>
       ELSE LaunchNext(h, held[h], q, asked', rpc)
  BY <1>1
<1>14. waiting \subseteq q
  OBVIOUS
<1>15. ASSUME NEW i \in in, NEW k \in in, i # k
       PROVE  IdOf(in, i) # IdOf(in, k)
  <2>1. i < k \/ k < i
    BY <1>3, <1>15
  <2>2. IdOf(in, i) < IdOf(in, k) \/ IdOf(in, k) < IdOf(in, i)
    BY <1>2, <1>3, <2>1, IdsGrow
  <2> QED
    BY <1>5, <2>2
<1>16. \A i \in in : asked'[IdOf(in, i)] = batch[i]
  <2> SUFFICES ASSUME NEW i \in in
               PROVE  asked'[IdOf(in, i)] = batch[i]
    OBVIOUS
  <2>1. asked'[IdOf(in, i)] = batch[CHOOSE k \in in : IdOf(in, k) = IdOf(in, i)]
    BY <1>1, <1>7
  <2>2. (CHOOSE k \in in : IdOf(in, k) = IdOf(in, i)) = i
    BY <1>15
  <2> QED
    BY <2>1, <2>2
<1>17. ASSUME NEW i \in in
       PROVE  batch[i] \cap Taken = {}
  BY <1>1 DEF Accepted
<1>18. ASSUME NEW i \in in, NEW k \in in, i < k
       PROVE  batch[i] \cap batch[k] = {}
  BY <1>1, <1>18 DEF Accepted
<1>19. \A e \in q \ waiting : asked'[e] \cap Taken = {}
  BY <1>16, <1>17
<1>20. ASSUME NEW e \in q \ waiting, NEW k \in q \ waiting, e # k
       PROVE  asked'[e] \cap asked'[k] = {}
  <2>1. PICK i \in in : e = IdOf(in, i)
    OBVIOUS
  <2>2. PICK j \in in : k = IdOf(in, j)
    OBVIOUS
  <2>3. i < j \/ j < i
    BY <1>3, <1>20, <2>1, <2>2
  <2>4. batch[i] \cap batch[j] = {}
    BY <1>18, <2>3
  <2> QED
    BY <1>16, <2>1, <2>2, <2>4
<1>22. ASSUME NEW e \in Runs, seq < e, e <= seq'
       PROVE  e \in q
  <2> DEFINE id == [i \in in |-> IdOf(in, i)]
             slots == seq + 1 .. seq'
  <2>1. id \in [in -> slots]
    <3>1. \A i \in in : IdOf(in, i) \in slots
      BY <1>2, <1>5, <1>6
    <3> QED
      BY <3>1
  <2>2. id \in Injection(in, slots)
    BY <1>15, <2>1 DEF Injection, IsInjective
  <2>3. IsFiniteSet(slots) /\ Cardinality(slots) = Cardinality(in)
    <3>1. seq + 1 \in Int /\ seq' \in Int
      BY <1>2, <1>6
    <3>2. IsFiniteSet(slots) /\ Cardinality(slots) =
                IF seq + 1 > seq' THEN 0 ELSE seq' - (seq + 1) + 1
      BY <3>1, FS_Interval
    <3> QED
      BY <1>1, <1>2, <1>4, <3>2
  <2>4. e \in slots
    BY <1>2, <1>6, <1>22 DEF Runs
  <2> HIDE DEF slots
  <2>5. id \in Surjection(in, slots)
    BY <2>2, <2>3, FS_Injection
  <2>6. PICK i \in in : id[i] = e
    BY <2>4, <2>5 DEF Surjection
  <2> QED
    BY <2>6
<1> HIDE DEF q
<1>21. \E w \in SUBSET Runs :
         /\ waiting \subseteq w
         /\ \A e \in w \ waiting : seq < e /\ e <= seq'
         /\ \A e \in Runs : seq < e /\ e <= seq' => e \in w
         /\ \A e \in w \ waiting : asked'[e] \cap Taken = {}
         /\ \A e, k \in w \ waiting : e # k => asked'[e] \cap asked'[k] = {}
         /\ IF running
            THEN waiting' = w /\ UNCHANGED <<stateVars, rpc, toStart>>
            ELSE LaunchNext(h, held[h], w, asked', rpc)
  <2> WITNESS q \in SUBSET Runs
  <2> QED
    BY <1>12, <1>13, <1>14, <1>19, <1>20, <1>22
<1> QED
  BY <1>6, <1>9, <1>10, <1>21

------------------------------------------------------------------------------
(* Type correctness.                                                       *)

LEMMA Typing ==
    /\ Runs \subseteq Nat \ {0}
    /\ Handlers \subseteq Threads /\ Runs \subseteq Threads
    /\ Handlers \cap Runs = {}
    /\ Subscribers \cap Threads = {}
    /\ Unreadable \notin Configs
    /\ Closer \in Handlers
  BY ManagerAssumption DEF Runs, Threads

LEMMA EventTypes ==
    /\ \A q \in SUBSET Runs : QueueUpdated(q) \in Events
    /\ RunStarted \in Events
    /\ RunOver \in Events
  BY DEF QueueUpdated, RunStarted, RunOver, Events

(* The jobs of an entry are jobs.                                          *)
LEMMA ChosenType ==
    ASSUME NEW cfg \in Configs, NEW jobs \in SUBSET Selectors
    PROVE  Chosen(cfg, jobs) \subseteq Selectors
<1>1. cfg \in Config
  BY ManagerAssumption
<1> QED
  BY <1>1 DEF Config, Chosen

(* What an event shows is not nothing.                                     *)
LEMMA ShownType ==
    ASSUME NEW v \in Views, v # Nothing, NEW event \in Events
    PROVE  Shown(v, event) \in Views \ {Nothing}
<1>1. v \in [running : BOOLEAN, queue : SUBSET Runs]
  BY DEF Views
<1>2. Shown(v, event) \in [running : BOOLEAN, queue : SUBSET Runs]
  <2>1. CASE event \in [type : {"queue_updated"}, queue : SUBSET Runs]
    BY <1>1, <2>1 DEF Shown
  <2>2. CASE event \in [type : {"run_started", "run_over"}]
    BY <1>1, <2>2 DEF Shown
  <2> QED
    BY <2>1, <2>2 DEF Events
<1> QED
  BY <1>2, ManagerAssumption DEF Views, Runs

(* What _launch_next_locked leaves of a well-typed state.                  *)
LEMMA LaunchTypes ==
    ASSUME TypeOK, NEW t \in Threads, NEW cfg \in Configs, NEW q \in SUBSET Runs,
           NEW asks \in [Runs -> SUBSET Selectors],
           NEW pcs \in [Runs -> RunPCs],
           LaunchNext(t, cfg, q, asks, pcs)
    PROVE  /\ waiting' \subseteq Runs
           /\ running' \in BOOLEAN
           /\ active' \subseteq Selectors
           /\ current' \in Runs \cup {0}
           /\ rpc' \in [Runs -> RunPCs]
           /\ toStart' \in [Threads -> Runs \cup {0}]
<1> DEFINE live == {e \in q : Chosen(cfg, asks[e]) # {}}
<1>1. CASE /\ waiting' = {} /\ running' = FALSE /\ active' = {} /\ rpc' = pcs
           /\ UNCHANGED <<current, toStart>>
  BY <1>1 DEF TypeOK, RunPCs
<1>2. CASE \E e \in Front(live) :
              /\ waiting' = {k \in q : k > e}
              /\ running' = TRUE
              /\ active' = Chosen(cfg, asks[e])
              /\ current' = e
              /\ rpc' = [pcs EXCEPT ![e] = "built"]
              /\ toStart' = [toStart EXCEPT ![t] = e]
  <2>1. PICK e \in Front(live) :
              /\ waiting' = {k \in q : k > e}
              /\ running' = TRUE
              /\ active' = Chosen(cfg, asks[e])
              /\ current' = e
              /\ rpc' = [pcs EXCEPT ![e] = "built"]
              /\ toStart' = [toStart EXCEPT ![t] = e]
    BY <1>2
  <2>2. e \in Runs
    BY DEF Front
  <2>3. asks[e] \in SUBSET Selectors
    BY <2>2
  <2>4. active' \subseteq Selectors
    BY <2>1, <2>3, ChosenType
  <2> QED
    BY <2>1, <2>2, <2>4 DEF TypeOK, RunPCs
<1> QED
  BY <1>1, <1>2 DEF LaunchNext

LEMMA InitInvariant == Init => MInv
<1> SUFFICES ASSUME Init
             PROVE  MInv
  OBVIOUS
<1> USE Typing DEF Init
<1>1. TypeOK
  <2>1. << >> \in Seq(SUBSET Selectors) /\ << >> \in Seq(Events)
    OBVIOUS
  <2>2. outbox \in [Threads -> Seq(Events)] /\ request \in [Handlers -> Seq(SUBSET Selectors)]
    BY <2>1
  <2>3. seq \in 0 .. MaxEntries /\ calls \in 0 .. MaxCalls /\ edits \in 0 .. MaxEdits
    BY ManagerAssumption
  <2>4. view \in [Subscribers -> Views]
    BY DEF Views
  <2> QED
    BY <2>2, <2>3, <2>4 DEF TypeOK, RunPCs, HandlerPCs
<1>2. Control
  BY DEF Control, Alone, QueueAhead, StartsOnce, InProgress
<1>3. HasConfig /\ FeedInOrder
  BY DEF HasConfig, FeedInOrder, Free
<1> QED
  BY <1>1, <1>2, <1>3 DEF MInv

(* A thread's outbox may change.                                           *)
LEMMA OutboxType ==
    ASSUME TypeOK, NEW t \in Threads, NEW events \in Seq(Events),
           outbox' = outbox \/ outbox' = [outbox EXCEPT ![t] = events]
    PROVE  outbox' \in [Threads -> Seq(Events)]
<1>1. outbox \in [Threads -> Seq(Events)]
  BY DEF TypeOK
<1>2. CASE outbox' = outbox
  BY <1>1, <1>2
<1>3. CASE outbox' = [outbox EXCEPT ![t] = events]
  BY <1>1, <1>3
<1> QED
  BY <1>2, <1>3

LEMMA TypeStep == MInv /\ [Next]_vars => TypeOK'
<1> SUFFICES ASSUME MInv, [Next]_vars
             PROVE  TypeOK'
  OBVIOUS
<1> USE Typing DEF TypeOK, MInv, RunPCs, HandlerPCs
<1>1. ASSUME NEW h \in Handlers, NEW batch \in Batches, Submit(h, batch)
      PROVE  TypeOK'
  <2>1. batch \in Seq(SUBSET Selectors)
    BY ManagerAssumption
  <2>2. config \in Configs
    BY <1>1 DEF Submit
  <2>3. \A i \in DOMAIN batch : Chosen(config, batch[i]) \in SUBSET Selectors
    <3>1. \A i \in DOMAIN batch : batch[i] \in SUBSET Selectors
      BY <2>1
    <3> QED
      BY <2>2, <3>1, ChosenType
  <2>4. [i \in DOMAIN batch |-> Chosen(config, batch[i])] \in Seq(SUBSET Selectors)
    <3>1. PICK n \in Nat : DOMAIN batch = 1 .. n
      BY <2>1
    <3>2. [i \in DOMAIN batch |-> Chosen(config, batch[i])] \in [1 .. n -> SUBSET Selectors]
      BY <2>3, <3>1
    <3> QED
      BY <3>2, SeqDef
  <2>5. request' \in [Handlers -> Seq(SUBSET Selectors)]
    BY <1>1, <2>4 DEF Submit
  <2>6. calls' \in 0 .. MaxCalls
    BY <1>1, ManagerAssumption DEF Submit, Call
  <2>7. /\ hpc' = [hpc EXCEPT ![h] = "resolved"]
        /\ held' = [held EXCEPT ![h] = config]
        /\ UNCHANGED <<config, queueVars, stateVars, runVars, toStop, joins,
                       toStart, outbox, feedVars, edits>>
    BY <1>1 DEF Submit, Call
  <2> QED
    BY <2>2, <2>5, <2>6, <2>7 DEF queueVars, stateVars, runVars, feedVars
<1>2. ASSUME NEW h \in Handlers, Enqueue(h)
      PROVE  TypeOK'
  <2>1. /\ seq' \in 0 .. MaxEntries
        /\ asked' \in [Runs -> SUBSET Selectors]
    <3>1. seq' \in seq .. MaxEntries /\ asked' \in [Runs -> SUBSET Selectors]
      BY <1>2, EnqueueAdds
    <3> QED
      BY <3>1, ManagerAssumption
  <2>2. /\ waiting' \subseteq Runs
        /\ running' \in BOOLEAN
        /\ active' \subseteq Selectors
        /\ current' \in Runs \cup {0}
        /\ rpc' \in [Runs -> RunPCs]
        /\ toStart' \in [Threads -> Runs \cup {0}]
    <3>1. PICK q \in SUBSET Runs :
            IF running
            THEN waiting' = q /\ UNCHANGED <<stateVars, rpc, toStart>>
            ELSE LaunchNext(h, held[h], q, asked', rpc)
      BY <1>2, EnqueueAdds
    <3>2. CASE running
      BY <3>1, <3>2 DEF stateVars
    <3>3. CASE ~ running
      <4>1. held[h] \in Configs
        BY <1>2 DEF Enqueue, HasConfig
      <4> QED
        BY <2>1, <3>1, <3>3, <4>1, LaunchTypes
    <3> QED
      BY <3>2, <3>3
  <2>3. outbox' \in [Threads -> Seq(Events)]
    <3>1. QueueUpdated(waiting') \in Events
      BY <2>2, EventTypes
    <3> QED
      BY <1>2, <3>1 DEF Enqueue
  <2>4. request' \in [Handlers -> Seq(SUBSET Selectors)]
    BY <1>2 DEF Enqueue
  <2> QED
    BY <1>2, <2>1, <2>2, <2>3, <2>4 DEF Enqueue, feedVars
<1>3. ASSUME NEW h \in Handlers, Answer(h)
      PROVE  TypeOK'
  <2>1. <<RunStarted>> \in Seq(Events)
    BY EventTypes
  <2>2. /\ rpc' \in [Runs -> RunPCs]
        /\ outbox' \in [Threads -> Seq(Events)]
        /\ toStart' \in [Threads -> Runs \cup {0}]
    BY <1>3, <2>1 DEF Answer, StartThread
  <2> QED
    BY <1>3, <2>2 DEF Answer, queueVars, stateVars, feedVars
<1>4. ASSUME NEW h \in Handlers, NEW e \in Runs, Dequeue(h, e)
      PROVE  TypeOK'
  <2>1. QueueUpdated(waiting') \in Events
    BY <1>4, EventTypes DEF Dequeue
  <2>2. outbox' \in [Threads -> Seq(Events)]
    BY <1>4, <2>1 DEF Dequeue
  <2>3. calls' \in 0 .. MaxCalls /\ hpc' = [hpc EXCEPT ![h] = "answering"]
    BY <1>4, ManagerAssumption DEF Dequeue, Call
  <2> QED
    BY <1>4, <2>2, <2>3 DEF Dequeue, stateVars, runVars, feedVars
<1>5. ASSUME NEW h \in Handlers, TakeRunner(h), hpc' \in [Handlers -> HandlerPCs],
             calls' \in 0 .. MaxCalls
      PROVE  TypeOK'
  <2>1. QueueUpdated({}) \in Events
    BY EventTypes
  <2>2. outbox' \in [Threads -> Seq(Events)]
    BY <1>5, <2>1 DEF TakeRunner
  <2> QED
    BY <1>5, <2>2 DEF TakeRunner, stateVars, runVars, feedVars
<1>6. ASSUME NEW h \in Handlers, Cancel(h)
      PROVE  TypeOK'
  <2>1. calls' \in 0 .. MaxCalls /\ hpc' = [hpc EXCEPT ![h] = "stopping"]
    BY <1>6, ManagerAssumption DEF Cancel, Call
  <2>2. TakeRunner(h)
    BY <1>6 DEF Cancel
  <2> QED
    BY <1>5, <2>1, <2>2
<1>7. ASSUME NEW h \in Handlers, StopRun(h)
      PROVE  TypeOK'
  BY <1>7 DEF StopRun, queueVars, stateVars, feedVars
<1>8. CASE CloseTray
  BY <1>8 DEF CloseTray, queueVars, stateVars, runVars, feedVars
<1>9. CASE CancelForClose
  BY <1>5, <1>9 DEF CancelForClose
<1>10. CASE Wait
  BY <1>10 DEF Wait, queueVars, stateVars, runVars, feedVars
<1>11. CASE WaitReturns
  BY <1>11 DEF WaitReturns, queueVars, stateVars, runVars, feedVars
<1>12. ASSUME NEW r \in Runs, RunReturns(r)
       PROVE  TypeOK'
  <2>1. <<RunOver>> \in Seq(Events)
    BY EventTypes
  <2>2. outbox' \in [Threads -> Seq(Events)] /\ failed' \subseteq Runs
    <3>1. outbox' = outbox \/ outbox' = [outbox EXCEPT ![r] = <<RunOver>>]
      BY <1>12 DEF RunReturns
    <3>2. failed' = failed \/ failed' = failed \cup {r}
      BY <1>12 DEF RunReturns
    <3> QED
      BY <2>1, <3>1, <3>2, OutboxType
  <2> QED
    BY <1>12, <2>2 DEF RunReturns, queueVars, stateVars, callVars, feedVars
<1>13. ASSUME NEW r \in Runs, LoadConfig(r)
       PROVE  TypeOK'
  BY <1>13 DEF LoadConfig, queueVars, stateVars, callVars, feedVars
<1>14. ASSUME NEW r \in Runs, FinishRun(r)
       PROVE  TypeOK'
  <2> DEFINE pcs == [rpc EXCEPT ![r] = "closing"]
  <2>1. pcs \in [Runs -> RunPCs]
    OBVIOUS
  <2>2. /\ waiting' \subseteq Runs
        /\ running' \in BOOLEAN
        /\ active' \subseteq Selectors
        /\ current' \in Runs \cup {0}
        /\ rpc' \in [Runs -> RunPCs]
        /\ toStart' \in [Threads -> Runs \cup {0}]
    <3>1. CASE held[r] # Unreadable
      <4>1. held[r] \in Configs /\ LaunchNext(r, held[r], waiting, asked, pcs)
        BY <1>14, <3>1 DEF FinishRun
      <4> HIDE DEF pcs
      <4> QED
        BY <2>1, <4>1, LaunchTypes
    <3>2. CASE held[r] = Unreadable
      BY <1>14, <2>1, <3>2 DEF FinishRun
    <3> QED
      BY <3>1, <3>2
  <2>3. QueueUpdated(waiting') \in Events /\ RunOver \in Events
    BY <2>2, EventTypes
  <2>4. /\ (IF r \in failed THEN <<RunOver>> ELSE << >>) \in Seq(Events)
        /\ (IF running' THEN <<QueueUpdated(waiting')>> ELSE << >>) \in Seq(Events)
    BY <2>3
  <2>5. outbox' \in [Threads -> Seq(Events)]
    BY <1>14, <2>4 DEF FinishRun
  <2> QED
    BY <1>14, <2>2, <2>5 DEF FinishRun, callVars, feedVars
<1>15. ASSUME NEW r \in Runs, EndThread(r)
       PROVE  TypeOK'
  <2>1. <<RunStarted>> \in Seq(Events)
    BY EventTypes
  <2>2. /\ rpc' \in [Runs -> RunPCs]
        /\ outbox' \in [Threads -> Seq(Events)]
        /\ toStart' \in [Threads -> Runs \cup {0}]
    BY <1>15, <2>1 DEF EndThread, StartThread
  <2> QED
    BY <1>15, <2>2 DEF EndThread, queueVars, stateVars, callVars, feedVars
<1>16. ASSUME NEW t \in Threads, Publish(t)
       PROVE  TypeOK'
  <2>1. Tail(outbox[t]) \in Seq(Events)
    BY <1>16 DEF Publish, Free
  <2>2. sending' \in [Threads -> SUBSET (Subscribers \cup Threads)]
    <3>1. \/ UNCHANGED sending
          \/ \E S \in SUBSET Subscribers : sending' = [sending EXCEPT ![t] = S \cup {t}]
      BY <1>16 DEF Publish
    <3>2. \A S \in SUBSET Subscribers : S \cup {t} \in SUBSET (Subscribers \cup Threads)
      OBVIOUS
    <3>3. sending \in [Threads -> SUBSET (Subscribers \cup Threads)]
      OBVIOUS
    <3>4. CASE UNCHANGED sending
      BY <3>3, <3>4
    <3>5. CASE \E S \in SUBSET Subscribers : sending' = [sending EXCEPT ![t] = S \cup {t}]
      BY <3>2, <3>3, <3>5
    <3> QED
      BY <3>1, <3>4, <3>5
  <2>3. outbox' \in [Threads -> Seq(Events)]
    <3>1. outbox' = outbox \/ outbox' = [outbox EXCEPT ![t] = Tail(outbox[t])]
      BY <1>16 DEF Publish
    <3> QED
      BY <2>1, <3>1, OutboxType
  <2> QED
    BY <1>16, <2>2, <2>3 DEF Publish, queueVars, stateVars, runVars, callVars
<1>17. ASSUME NEW t \in Threads, Published(t)
       PROVE  TypeOK'
  <2>1. ~ Free(t)
    BY <1>17 DEF Published, FeedInOrder
  <2>2. Tail(outbox[t]) \in Seq(Events)
    BY <2>1 DEF Free
  <2> QED
    BY <1>17, <2>2 DEF Published, queueVars, stateVars, runVars, callVars
<1>18. ASSUME NEW t \in Threads, NEW s \in Subscribers, Deliver(t, s)
       PROVE  TypeOK'
  <2>1. ~ Free(t) /\ view[s] # Nothing
    BY <1>18 DEF Deliver, FeedInOrder
  <2>2. Head(outbox[t]) \in Events
    BY <2>1 DEF Free
  <2>3. Shown(view[s], Head(outbox[t])) \in Views
    BY <2>1, <2>2, ShownType
  <2> QED
    BY <1>18, <2>3 DEF Deliver, queueVars, stateVars, runVars, callVars
<1>19. ASSUME NEW s \in Subscribers, Subscribe(s)
       PROVE  TypeOK'
  BY <1>19 DEF Subscribe, Views, queueVars, stateVars, runVars, callVars
<1>20. ASSUME NEW s \in Subscribers, Unsubscribe(s)
       PROVE  TypeOK'
  BY <1>20 DEF Unsubscribe, Views, queueVars, stateVars, runVars, callVars
<1>21. CASE EditConfig
  <2>1. edits' \in 0 .. MaxEdits /\ config' \in Configs \cup {Unreadable}
    BY <1>21, ManagerAssumption DEF EditConfig
  <2> QED
    BY <1>21, <2>1 DEF EditConfig, queueVars, stateVars, runVars, callVars, feedVars
<1>22. CASE UNCHANGED vars
  BY <1>22 DEF vars, queueVars, stateVars, runVars, callVars, feedVars
<1> QED
  BY <1>1, <1>2, <1>3, <1>4, <1>6, <1>7, <1>8, <1>9, <1>10, <1>11, <1>12, <1>13,
     <1>14, <1>15, <1>16, <1>17, <1>18, <1>19, <1>20, <1>21, <1>22
  DEF Next, HandlerStep, CloserStep, RunStep, FeedStep

------------------------------------------------------------------------------
(* The steps that move runs and entries; all others only shrink the queue. *)

Untouched ==
    /\ waiting' \subseteq waiting
    /\ UNCHANGED <<asked, seq, running, active, current, rpc, toStart>>

LEMMA StepKinds ==
    ASSUME [Next]_vars
    PROVE  \/ Untouched
           \/ \E h \in Handlers : Enqueue(h) \/ Answer(h)
           \/ \E r \in Runs : RunStep(r)
<1> USE DEF Untouched
<1>1. ASSUME NEW h \in Handlers, NEW batch \in Batches, Submit(h, batch)
      PROVE  Untouched
  BY <1>1 DEF Submit, queueVars, stateVars, runVars
<1>2. ASSUME NEW h \in Handlers, NEW e \in Runs, Dequeue(h, e)
      PROVE  Untouched
  BY <1>2 DEF Dequeue, stateVars, runVars
<1>3. ASSUME NEW h \in Handlers, TakeRunner(h)
      PROVE  Untouched
  BY <1>3 DEF TakeRunner, stateVars, runVars
<1>4. ASSUME NEW h \in Handlers, Cancel(h) \/ StopRun(h)
      PROVE  Untouched
  BY <1>3, <1>4 DEF Cancel, StopRun, queueVars, stateVars
<1>5. ASSUME CloseTray \/ CloserStep
      PROVE  Untouched
  BY <1>3, <1>5, Typing
  DEF CloseTray, CloserStep, CancelForClose, Wait, WaitReturns, queueVars, stateVars, runVars
<1>6. ASSUME NEW t \in Threads, FeedStep(t)
      PROVE  Untouched
  BY <1>6 DEF FeedStep, Publish, Published, Deliver, queueVars, stateVars, runVars
<1>7. ASSUME NEW s \in Subscribers, Subscribe(s) \/ Unsubscribe(s)
      PROVE  Untouched
  BY <1>7 DEF Subscribe, Unsubscribe, queueVars, stateVars, runVars
<1>8. ASSUME EditConfig \/ UNCHANGED vars
      PROVE  Untouched
  BY <1>8 DEF EditConfig, vars, queueVars, stateVars, runVars
<1> QED
  BY <1>1, <1>2, <1>4, <1>5, <1>6, <1>7, <1>8 DEF Next, HandlerStep

(* What a launch out of the queue q does, the other threads being at pcs:  *)
(* nothing is left to run, or the run e is set up for thread t to start.   *)
LaunchesNone(pcs) ==
    /\ waiting' = {} /\ running' = FALSE /\ active' = {} /\ rpc' = pcs
    /\ UNCHANGED <<current, toStart>>
Launches(t, e, q, pcs) ==
    /\ waiting' = {k \in q : k > e}
    /\ running' = TRUE
    /\ current' = e
    /\ rpc' = [pcs EXCEPT ![e] = "built"]
    /\ toStart' = [toStart EXCEPT ![t] = e]

LEMMA LaunchKinds ==
    ASSUME NEW t, NEW cfg, NEW q, NEW asks, NEW pcs, LaunchNext(t, cfg, q, asks, pcs)
    PROVE  \/ LaunchesNone(pcs)
           \/ \E e \in q : /\ Launches(t, e, q, pcs)
                          /\ active' = Chosen(cfg, asks[e])
                          /\ Chosen(cfg, asks[e]) # {}
  BY DEF LaunchNext, Front, LaunchesNone, Launches

(* A launch out of a queue that lies ahead, while no run is in progress,   *)
(* keeps the control state in order.                                       *)
LEMMA LaunchKeepsControl ==
    ASSUME TypeOK, seq' \in Nat, current \in Nat, current <= seq',
           NEW t \in Threads, NEW cfg, NEW asks,
           NEW q \in SUBSET Runs, \A e \in q : current < e /\ e <= seq',
           NEW pcs \in [Runs -> RunPCs],
           \A r \in Runs : pcs[r] \notin {"built", "inside", "ending", "loaded"},
           \A r \in Runs : pcs[r] # "unborn" => r <= current,
           \A u \in Threads : toStart[u] = 0,
           LaunchNext(t, cfg, q, asks, pcs)
    PROVE  Control'
<1> USE Typing
<1>1. CASE LaunchesNone(pcs)
  BY <1>1 DEF LaunchesNone, Control, Alone, QueueAhead, StartsOnce, InProgress
<1>2. ASSUME NEW e \in q, Launches(t, e, q, pcs)
      PROVE  Control'
  <2>1. e \in Nat /\ e # 0 /\ current < e
    OBVIOUS
  <2>2. Alone'
    BY <1>2 DEF Launches, Alone, InProgress
  <2>3. QueueAhead'
    BY <1>2, <2>1 DEF Launches, QueueAhead
  <2>4. toStart' = [u \in Threads |-> IF u = t THEN e ELSE 0]
    BY <1>2 DEF Launches, TypeOK
  <2>5. rpc'[e] = "built"
    BY <1>2 DEF Launches
  <2>6. StartsOnce'
    BY <2>1, <2>4, <2>5 DEF StartsOnce
  <2> QED
    BY <2>2, <2>3, <2>6 DEF Control
<1> QED
  BY <1>1, <1>2, LaunchKinds

(* A thread's start keeps the control state in order.                      *)
LEMMA StartKeepsControl ==
    ASSUME TypeOK, Control, NEW t \in Threads, NEW pcs \in [Runs -> RunPCs],
           \A r \in Runs : pcs[r] = rpc[r] \/ (rpc[r] = "closing" /\ pcs[r] = "ended"),
           StartThread(t, pcs), UNCHANGED <<queueVars, stateVars>>
    PROVE  Control'
<1> USE Typing DEF Control
<1> DEFINE s == toStart[t]
<1>1. s \in Runs \cup {0}
  BY DEF TypeOK
<1>2. \A r \in Runs : rpc'[r] = IF r = s THEN "inside" ELSE pcs[r]
  BY <1>1 DEF StartThread
<1>3. s # 0 => rpc[s] = "built"
  BY DEF StartsOnce
<1>4. toStart' = [toStart EXCEPT ![t] = 0] /\ toStart \in [Threads -> Runs \cup {0}]
  BY DEF StartThread, TypeOK
<1>5. Alone'
  BY <1>2, <1>3 DEF Alone, InProgress, stateVars
<1>6. QueueAhead'
  BY <1>2, <1>3 DEF QueueAhead, stateVars, queueVars
<1>7. StartsOnce'
  <2> SUFFICES ASSUME NEW u \in Threads, toStart'[u] # 0
               PROVE  /\ rpc'[toStart'[u]] = "built"
                      /\ \A w \in Threads : toStart'[w] = toStart'[u] => w = u
    BY DEF StartsOnce
  <2>1. u # t /\ toStart'[u] = toStart[u] /\ toStart[u] # 0 /\ toStart[u] \in Runs
    BY <1>4
  <2>2. rpc[toStart[u]] = "built" /\ \A w \in Threads : toStart[w] = toStart[u] => w = u
    BY <2>1 DEF StartsOnce
  <2>3. toStart[u] # s
    BY <2>1, <2>2
  <2>4. rpc'[toStart[u]] = "built"
    BY <1>2, <2>1, <2>2, <2>3
  <2>5. \A w \in Threads : toStart'[w] = toStart'[u] => w = u
    BY <1>4, <2>1, <2>2
  <2> QED
    BY <2>1, <2>4, <2>5
<1> QED
  BY <1>5, <1>6, <1>7

LEMMA ControlStep == MInv /\ [Next]_vars => Control'
<1> SUFFICES ASSUME MInv, [Next]_vars
             PROVE  Control'
  OBVIOUS
<1> USE Typing DEF MInv
<1>1. seq \in Nat /\ current \in Nat /\ MaxEntries \in Nat
  BY ManagerAssumption DEF TypeOK
(* Where no run is in progress no thread is left to start.                 *)
<1>2. (\A r \in Runs : rpc[r] # "built") => \A t \in Threads : toStart[t] = 0
  BY DEF TypeOK, Control, StartsOnce
<1>3. CASE Untouched
  BY <1>3 DEF Untouched, Control, Alone, QueueAhead, StartsOnce, InProgress
<1>4. ASSUME NEW h \in Handlers, Enqueue(h)
      PROVE  Control'
  <2>1. /\ seq' \in seq .. MaxEntries
        /\ \A e \in Runs : e <= seq => asked'[e] = asked[e]
    BY <1>4, EnqueueAdds
  <2>2. PICK q \in SUBSET Runs :
          /\ waiting \subseteq q
          /\ \A e \in q \ waiting : seq < e /\ e <= seq'
          /\ IF running
             THEN waiting' = q /\ UNCHANGED <<stateVars, rpc, toStart>>
             ELSE LaunchNext(h, held[h], q, asked', rpc)
    BY <1>4, EnqueueAdds
  <2>3. seq' \in Nat /\ current <= seq' /\ \A e \in q : current < e /\ e <= seq'
    BY <1>1, <2>1, <2>2 DEF Control, QueueAhead
  <2>4. CASE running
    BY <2>2, <2>3, <2>4 DEF Control, Alone, QueueAhead, StartsOnce, InProgress, stateVars
  <2>5. CASE ~ running
    <3>1. \A r \in Runs : rpc[r] \notin {"built", "inside", "ending", "loaded"}
      BY <2>5 DEF Control, Alone, InProgress
    <3>2. \A r \in Runs : rpc[r] # "unborn" => r <= current
      BY DEF Control, QueueAhead
    <3>3. LaunchNext(h, held[h], q, asked', rpc)
      BY <2>2, <2>5
    <3>4. rpc \in [Runs -> RunPCs] /\ h \in Threads
      BY DEF TypeOK
    <3> QED
      BY <1>1, <1>2, <2>3, <3>1, <3>2, <3>3, <3>4, LaunchKeepsControl
  <2> QED
    BY <2>4, <2>5
<1>5. ASSUME NEW h \in Handlers, Answer(h)
      PROVE  Control'
  <2>1. StartThread(h, rpc) /\ UNCHANGED <<queueVars, stateVars>> /\ h \in Threads
    BY <1>5 DEF Answer
  <2>2. rpc \in [Runs -> RunPCs]
    BY DEF TypeOK
  <2> QED
    BY <2>1, <2>2, StartKeepsControl
<1>6. ASSUME NEW r \in Runs, RunReturns(r) \/ LoadConfig(r)
      PROVE  Control'
  <2>1. /\ rpc[r] \in {"inside", "ending"}
        /\ \/ rpc' = [rpc EXCEPT ![r] = "ending"]
           \/ rpc' = [rpc EXCEPT ![r] = "loaded"]
        /\ UNCHANGED <<queueVars, stateVars, toStart>>
    BY <1>6 DEF RunReturns, LoadConfig
  <2>2. rpc \in [Runs -> RunPCs]
    BY DEF TypeOK
  <2>3. \A k \in Runs : \/ rpc'[k] = rpc[k]
                        \/ k = r /\ rpc'[r] \in {"ending", "loaded"}
    BY <2>1, <2>2
  <2>4. Alone'
    BY <2>1, <2>3 DEF Control, Alone, InProgress, stateVars
  <2>5. QueueAhead'
    BY <2>1, <2>3 DEF Control, QueueAhead, stateVars, queueVars
  <2>6. StartsOnce'
    <3>1. toStart' = toStart /\ \A t \in Threads : toStart[t] \in Runs \cup {0}
      BY <2>1 DEF TypeOK
    <3>2. \A t \in Threads : toStart[t] # 0 =>
              /\ rpc[toStart[t]] = "built"
              /\ \A u \in Threads : toStart[u] = toStart[t] => u = t
      BY DEF Control, StartsOnce
    <3>3. \A t \in Threads : toStart[t] # 0 => rpc'[toStart[t]] = "built"
      BY <2>1, <2>3, <3>1, <3>2
    <3> QED
      BY <3>1, <3>2, <3>3 DEF StartsOnce
  <2> QED
    BY <2>4, <2>5, <2>6 DEF Control
<1>7. ASSUME NEW r \in Runs, FinishRun(r)
      PROVE  Control'
  <2> DEFINE pcs == [rpc EXCEPT ![r] = "closing"]
  <2>1. rpc[r] = "loaded" /\ r = current /\ rpc \in [Runs -> RunPCs]
    BY <1>7 DEF FinishRun, Control, Alone, InProgress, TypeOK
  <2>2. pcs \in [Runs -> RunPCs]
    BY <2>1 DEF RunPCs
  <2>3. \A k \in Runs : pcs[k] \notin {"built", "inside", "ending", "loaded"}
    BY <2>1 DEF Control, Alone, InProgress
  <2>4. \A k \in Runs : pcs[k] # "unborn" => k <= current
    BY <2>1 DEF Control, QueueAhead
  <2>5. \A t \in Threads : toStart[t] = 0
    <3>1. \A k \in Runs : rpc[k] # "built"
      BY <2>1 DEF Control, Alone, InProgress
    <3> QED
      BY <1>2, <3>1
  <2>6. seq' = seq /\ current <= seq /\ \A e \in waiting : current < e /\ e <= seq
    BY <1>7 DEF FinishRun, Control, QueueAhead
  <2>7. CASE held[r] # Unreadable
    <3>1. LaunchNext(r, held[r], waiting, asked, pcs)
      BY <1>7, <2>7 DEF FinishRun
    <3>2. waiting \in SUBSET Runs /\ r \in Threads
      BY DEF TypeOK
    <3> HIDE DEF pcs
    <3> QED
      BY <1>1, <2>2, <2>3, <2>4, <2>5, <2>6, <3>1, <3>2, LaunchKeepsControl
  <2>8. CASE held[r] = Unreadable
    <3>1. rpc' = pcs /\ running' = FALSE /\ UNCHANGED <<waiting, current, toStart>>
      BY <1>7, <2>8 DEF FinishRun
    <3> HIDE DEF pcs
    <3> QED
      BY <2>2, <2>3, <2>4, <2>5, <2>6, <3>1
      DEF Control, Alone, QueueAhead, StartsOnce, InProgress
  <2> QED
    BY <2>7, <2>8
<1>8. ASSUME NEW r \in Runs, EndThread(r)
      PROVE  Control'
  <2> DEFINE pcs == [rpc EXCEPT ![r] = "ended"]
  <2>1. /\ rpc[r] = "closing" /\ StartThread(r, pcs) /\ UNCHANGED <<queueVars, stateVars>>
        /\ r \in Threads
    BY <1>8 DEF EndThread
  <2>2. pcs \in [Runs -> RunPCs]
    BY DEF TypeOK, RunPCs
  <2>3. \A k \in Runs : pcs[k] = rpc[k] \/ (rpc[k] = "closing" /\ pcs[k] = "ended")
    BY <2>1 DEF TypeOK
  <2> HIDE DEF pcs
  <2> QED
    BY <2>1, <2>2, <2>3, StartKeepsControl
<1> QED
  BY <1>3, <1>4, <1>5, <1>6, <1>7, <1>8, StepKinds DEF RunStep

------------------------------------------------------------------------------
(* What handlers hold and what is on its way.                              *)

LEMMA HasConfigStep == MInv /\ [Next]_vars => HasConfig'
<1> SUFFICES ASSUME MInv, [Next]_vars, NEW h \in Handlers, hpc'[h] = "resolved"
             PROVE  held'[h] \in Configs
  BY DEF HasConfig
<1> USE Typing DEF MInv
<1>1. hpc \in [Handlers -> HandlerPCs] /\ held \in [Threads -> Configs \cup {Unreadable}]
      /\ config \in Configs \cup {Unreadable}
  BY DEF TypeOK
<1>2. ASSUME NEW g \in Handlers, NEW batch \in Batches, Submit(g, batch)
      PROVE  held'[h] \in Configs
  <2>1. CASE g = h
    BY <1>1, <1>2, <2>1 DEF Submit
  <2>2. CASE g # h
    BY <1>1, <1>2, <2>2 DEF Submit, Call, HasConfig
  <2> QED
    BY <2>1, <2>2
<1>3. ASSUME hpc[h] = "resolved", held'[h] = held[h]
      PROVE  held'[h] \in Configs
  BY <1>3 DEF HasConfig
<1>4. ASSUME NEW g \in Handlers, HandlerStep(g)
      PROVE  held'[h] \in Configs
  <2>1. hpc[h] = "resolved" /\ held'[h] = held[h]
    BY <1>1, <1>4 DEF HandlerStep, Enqueue, Answer, StopRun
  <2> QED
    BY <1>3, <2>1
<1>5. ASSUME NEW g \in Handlers, NEW e \in Runs, Dequeue(g, e)
      PROVE  held'[h] \in Configs
  <2>1. hpc[h] = "resolved" /\ held'[h] = held[h]
    BY <1>1, <1>5 DEF Dequeue, Call
  <2> QED
    BY <1>3, <2>1
<1>6. ASSUME NEW g \in Handlers, Cancel(g)
      PROVE  held'[h] \in Configs
  <2>1. hpc[h] = "resolved" /\ held'[h] = held[h]
    BY <1>1, <1>6 DEF Cancel, Call, TakeRunner
  <2> QED
    BY <1>3, <2>1
<1>7. ASSUME CloseTray \/ CloserStep
      PROVE  held'[h] \in Configs
  <2>1. hpc[h] = "resolved" /\ held'[h] = held[h]
    BY <1>1, <1>7
    DEF CloseTray, CloserStep, CancelForClose, TakeRunner, Wait, WaitReturns
  <2> QED
    BY <1>3, <2>1
<1>8. ASSUME NEW r \in Runs, RunStep(r)
      PROVE  held'[h] \in Configs
  <2>1. hpc' = hpc /\ held'[h] = held[h]
    BY <1>1, <1>8 DEF RunStep, RunReturns, LoadConfig, FinishRun, EndThread, callVars
  <2> QED
    BY <1>3, <2>1
<1>9. ASSUME \/ \E t \in Threads : FeedStep(t)
             \/ \E s \in Subscribers : Subscribe(s) \/ Unsubscribe(s)
             \/ EditConfig
             \/ UNCHANGED vars
      PROVE  held'[h] \in Configs
  <2>1. hpc' = hpc /\ held' = held
    BY <1>9
    DEF FeedStep, Publish, Published, Deliver, Subscribe, Unsubscribe, EditConfig, vars, callVars
  <2> QED
    BY <1>3, <2>1
<1> QED
  BY <1>2, <1>4, <1>5, <1>6, <1>7, <1>8, <1>9 DEF Next

(* A thread that adds an event, or none, disturbs nothing.                 *)
LEMMA FedInOrder ==
    ASSUME TypeOK, FeedInOrder, UNCHANGED feedVars, NEW t \in Threads,
           NEW events \in Seq(Events) \ {<< >>},
           outbox' = outbox \/ outbox' = [outbox EXCEPT ![t] = events],
           \A r \in Runs : rpc'[r] = "loaded" => rpc[r] = "loaded" /\ r # t
    PROVE  FeedInOrder'
<1>1. CASE outbox' = outbox
  BY <1>1 DEF FeedInOrder, feedVars, Free
<1>2. CASE outbox' = [outbox EXCEPT ![t] = events]
  <2>1. outbox'[t] # << >> /\ \A u \in Threads \ {t} : outbox'[u] = outbox[u]
    BY <1>2 DEF TypeOK
  <2> QED
    BY <2>1, Typing DEF FeedInOrder, feedVars, Free
<1> QED
  BY <1>1, <1>2

LEMMA FeedInOrderStep == MInv /\ [Next]_vars => FeedInOrder'
<1> SUFFICES ASSUME MInv, [Next]_vars
             PROVE  FeedInOrder'
  OBVIOUS
<1> USE Typing DEF MInv
<1>1. ASSUME UNCHANGED <<rpc, outbox, feedVars>>
      PROVE  FeedInOrder'
  BY <1>1 DEF FeedInOrder, Free, feedVars
<1>2. ASSUME NEW h \in Handlers, NEW batch \in Batches, Submit(h, batch)
      PROVE  FeedInOrder'
  BY <1>1, <1>2 DEF Submit, runVars
<1>3. ASSUME CloseTray \/ Wait \/ WaitReturns \/ EditConfig \/ UNCHANGED vars
      PROVE  FeedInOrder'
  BY <1>1, <1>3 DEF CloseTray, Wait, WaitReturns, EditConfig, vars, runVars
<1>4. ASSUME NEW h \in Handlers, StopRun(h)
      PROVE  FeedInOrder'
  BY <1>1, <1>4 DEF StopRun
<1>5. ASSUME NEW q \in SUBSET Runs
      PROVE  <<QueueUpdated(q)>> \in Seq(Events) \ {<< >>}
  BY EventTypes
<1>6. ASSUME NEW h \in Handlers, TakeRunner(h)
      PROVE  FeedInOrder'
  <2>1. \/ outbox' = outbox
        \/ outbox' = [outbox EXCEPT ![h] = <<QueueUpdated({})>>]
    BY <1>6 DEF TakeRunner
  <2>2. <<QueueUpdated({})>> \in Seq(Events) \ {<< >>}
    BY <1>5
  <2>3. UNCHANGED feedVars /\ \A r \in Runs : rpc'[r] = rpc[r] /\ r # h
    BY <1>6 DEF TakeRunner, runVars
  <2> QED
    BY <2>1, <2>2, <2>3, FedInOrder
<1>7. CASE CancelForClose \/ \E h \in Handlers : Cancel(h)
  BY <1>6, <1>7 DEF CancelForClose, Cancel
<1>8. ASSUME NEW h \in Handlers, NEW e \in Runs, Dequeue(h, e)
      PROVE  FeedInOrder'
  <2>1. outbox' = [outbox EXCEPT ![h] = <<QueueUpdated(waiting')>>]
        /\ UNCHANGED feedVars
        /\ \A r \in Runs : rpc'[r] = rpc[r] /\ r # h
    BY <1>8 DEF Dequeue, runVars
  <2>2. <<QueueUpdated(waiting')>> \in Seq(Events) \ {<< >>}
    BY <1>5, <1>8 DEF Dequeue, TypeOK
  <2> QED
    BY <2>1, <2>2, FedInOrder
<1>9. ASSUME NEW h \in Handlers, Enqueue(h)
      PROVE  FeedInOrder'
  <2>1. outbox' = [outbox EXCEPT ![h] = <<QueueUpdated(waiting')>>] /\ UNCHANGED feedVars
    BY <1>9 DEF Enqueue
  <2>2. waiting' \in SUBSET Runs
    BY TypeStep DEF TypeOK
  <2>3. <<QueueUpdated(waiting')>> \in Seq(Events) \ {<< >>}
    BY <1>5, <2>2
  <2>4. \A r \in Runs : rpc'[r] = "loaded" => rpc[r] = "loaded" /\ r # h
    <3>1. PICK q \in SUBSET Runs :
            IF running
            THEN waiting' = q /\ UNCHANGED <<stateVars, rpc, toStart>>
            ELSE LaunchNext(h, held[h], q, asked', rpc)
      BY <1>9, EnqueueAdds
    <3>2. \/ rpc' = rpc
          \/ \E e \in q : rpc' = [rpc EXCEPT ![e] = "built"]
      <4>1. CASE running
        BY <3>1, <4>1
      <4>2. CASE ~ running
        <5>1. LaunchesNone(rpc) \/ \E e \in q : Launches(h, e, q, rpc)
          BY <3>1, <4>2, LaunchKinds
        <5> QED
          BY <5>1 DEF LaunchesNone, Launches
      <4> QED
        BY <4>1, <4>2
    <3> QED
      BY <3>2 DEF TypeOK
  <2> QED
    BY <2>1, <2>3, <2>4, FedInOrder
<1>10. ASSUME NEW t \in Threads, NEW pcs, StartThread(t, pcs), UNCHANGED feedVars,
              \A r \in Runs : pcs[r] = "loaded" => rpc[r] = "loaded",
              pcs \in [Runs -> RunPCs]
       PROVE  FeedInOrder'
  <2>1. toStart[t] \in Runs \cup {0}
    BY DEF TypeOK
  <2>2. CASE toStart[t] = 0
    <3>1. <<RunStarted>> \in Seq(Events) \ {<< >>}
      BY EventTypes
    <3>2. outbox' = outbox /\ rpc' = pcs
      BY <1>10, <2>2 DEF StartThread
    <3>3. Closer \in Threads /\ \A r \in Runs : rpc'[r] = "loaded" => rpc[r] = "loaded" /\ r # Closer
      BY <1>10, <3>2
    <3> QED
      BY <1>10, <3>1, <3>2, <3>3, FedInOrder
  <2>3. CASE toStart[t] \in Runs
    <3>1. <<RunStarted>> \in Seq(Events) \ {<< >>}
      BY EventTypes
    <3>2. /\ outbox' = [outbox EXCEPT ![toStart[t]] = <<RunStarted>>]
          /\ rpc' = [pcs EXCEPT ![toStart[t]] = "inside"]
      BY <1>10, <2>3 DEF StartThread
    <3>3. \A r \in Runs : rpc'[r] = "loaded" => rpc[r] = "loaded" /\ r # toStart[t]
      BY <1>10, <2>3, <3>2
    <3> QED
      BY <1>10, <2>3, <3>1, <3>2, <3>3, FedInOrder
  <2> QED
    BY <2>1, <2>2, <2>3
<1>11. ASSUME NEW h \in Handlers, Answer(h)
       PROVE  FeedInOrder'
  <2>1. StartThread(h, rpc) /\ UNCHANGED feedVars /\ rpc \in [Runs -> RunPCs]
    BY <1>11 DEF Answer, TypeOK
  <2> QED
    BY <1>10, <2>1
<1>12. ASSUME NEW r \in Runs, EndThread(r)
       PROVE  FeedInOrder'
  <2>1. StartThread(r, [rpc EXCEPT ![r] = "ended"]) /\ UNCHANGED feedVars
    BY <1>12 DEF EndThread
  <2>2. /\ [rpc EXCEPT ![r] = "ended"] \in [Runs -> RunPCs]
        /\ \A k \in Runs : [rpc EXCEPT ![r] = "ended"][k] = "loaded" => rpc[k] = "loaded"
    BY DEF TypeOK, RunPCs
  <2> QED
    BY <1>10, <2>1, <2>2
<1>13. ASSUME NEW r \in Runs, RunReturns(r)
       PROVE  FeedInOrder'
  <2>1. <<RunOver>> \in Seq(Events) \ {<< >>}
    BY EventTypes
  <2>2. /\ outbox' = outbox \/ outbox' = [outbox EXCEPT ![r] = <<RunOver>>]
        /\ UNCHANGED feedVars
        /\ rpc' = [rpc EXCEPT ![r] = "ending"]
    BY <1>13 DEF RunReturns
  <2>3. \A k \in Runs : rpc'[k] = "loaded" => rpc[k] = "loaded" /\ k # r
    BY <2>2 DEF TypeOK
  <2> QED
    BY <2>1, <2>2, <2>3, FedInOrder
<1>14. ASSUME NEW r \in Runs, LoadConfig(r)
       PROVE  FeedInOrder'
  <2>1. Free(r) /\ UNCHANGED <<outbox, feedVars>> /\ rpc' = [rpc EXCEPT ![r] = "loaded"]
    BY <1>14 DEF LoadConfig
  <2> QED
    BY <2>1 DEF FeedInOrder, Free, feedVars, TypeOK
<1>15. ASSUME NEW r \in Runs, FinishRun(r)
       PROVE  FeedInOrder'
  <2> DEFINE pcs == [rpc EXCEPT ![r] = "closing"]
  <2>1. rpc[r] = "loaded" /\ sending[r] = {} /\ UNCHANGED feedVars
    BY <1>15 DEF FinishRun, FeedInOrder
  <2>2. \A t \in Threads \ {r} : outbox'[t] = outbox[t]
    BY <1>15 DEF FinishRun, TypeOK
  <2>3. \A k \in Runs : rpc'[k] = "loaded" => rpc[k] = "loaded" /\ k # r
    <3>1. pcs \in [Runs -> RunPCs] /\ \A k \in Runs : pcs[k] = "loaded" => rpc[k] = "loaded" /\ k # r
      BY DEF TypeOK, RunPCs
    <3>2. \/ rpc' = pcs
          \/ \E e \in waiting : rpc' = [pcs EXCEPT ![e] = "built"]
      <4>1. CASE held[r] = Unreadable
        BY <1>15, <4>1 DEF FinishRun
      <4>2. CASE held[r] # Unreadable
        <5>1. LaunchNext(r, held[r], waiting, asked, pcs)
          BY <1>15, <4>2 DEF FinishRun
        <5> HIDE DEF pcs
        <5>2. LaunchesNone(pcs) \/ \E e \in waiting : Launches(r, e, waiting, pcs)
          BY <5>1, LaunchKinds
        <5> QED
          BY <5>2 DEF LaunchesNone, Launches
      <4> QED
        BY <4>1, <4>2
    <3> HIDE DEF pcs
    <3> QED
      BY <3>1, <3>2
  <2> QED
    BY <2>1, <2>2, <2>3 DEF FeedInOrder, Free, feedVars
<1>16. ASSUME NEW t \in Threads, Publish(t)
       PROVE  FeedInOrder'
  <2>1. /\ ~ Free(t) /\ sending[t] = {} /\ UNCHANGED <<rpc, view>>
        /\ \A r \in Runs : rpc[r] = "loaded" => r # t
    BY <1>16 DEF Publish, runVars, FeedInOrder
  <2>2. CASE UNCHANGED sending /\ outbox' = [outbox EXCEPT ![t] = Tail(@)]
    BY <2>1, <2>2 DEF FeedInOrder, Free, TypeOK
  <2>3. CASE /\ UNCHANGED outbox
             /\ sending' = [sending EXCEPT ![t] = {s \in Subscribers : view[s] # Nothing} \cup {t}]
    BY <2>1, <2>3 DEF FeedInOrder, Free, TypeOK
  <2> QED
    BY <1>16, <2>2, <2>3 DEF Publish
<1>17. ASSUME NEW t \in Threads, Published(t)
       PROVE  FeedInOrder'
  <2>1. /\ ~ Free(t) /\ UNCHANGED <<rpc, view>>
        /\ sending' = [sending EXCEPT ![t] = {}]
        /\ \A u \in Threads \ {t} : outbox'[u] = outbox[u]
        /\ \A r \in Runs : rpc[r] = "loaded" => r # t
    BY <1>17 DEF Published, runVars, FeedInOrder, TypeOK
  <2> QED
    BY <2>1 DEF FeedInOrder, Free, TypeOK
<1>18. ASSUME NEW t \in Threads, NEW s \in Subscribers, Deliver(t, s)
       PROVE  FeedInOrder'
  <2>1. ~ Free(t) /\ view[s] # Nothing /\ view[s] \in Views /\ outbox[t] \in Seq(Events)
    BY <1>18 DEF Deliver, FeedInOrder, TypeOK
  <2>2. Head(outbox[t]) \in Events
    BY <2>1 DEF Free
  <2>3. Shown(view[s], Head(outbox[t])) # Nothing
    BY <2>1, <2>2, ShownType
  <2>4. /\ UNCHANGED <<rpc, outbox>>
        /\ view' = [view EXCEPT ![s] = Shown(view[s], Head(outbox[t]))]
        /\ sending' = [sending EXCEPT ![t] = sending[t] \ {s}]
    BY <1>18 DEF Deliver, runVars
  <2> QED
    BY <2>1, <2>3, <2>4 DEF FeedInOrder, Free, TypeOK
<1>19. ASSUME NEW s \in Subscribers, Subscribe(s)
       PROVE  FeedInOrder'
  <2>1. /\ view' = [view EXCEPT ![s] = [running |-> running, queue |-> waiting]]
        /\ UNCHANGED <<rpc, outbox, sending>>
    BY <1>19 DEF Subscribe, runVars
  <2>2. [running |-> running, queue |-> waiting] # Nothing
    <3>1. [running |-> running, queue |-> waiting] \in [running : BOOLEAN, queue : SUBSET Runs]
      BY DEF TypeOK
    <3> QED
      BY <3>1, ManagerAssumption DEF Runs
  <2> QED
    BY <2>1, <2>2 DEF FeedInOrder, Free, TypeOK
<1>20. ASSUME NEW s \in Subscribers, Unsubscribe(s)
       PROVE  FeedInOrder'
  BY <1>20 DEF Unsubscribe, runVars, FeedInOrder, Free, TypeOK
<1> QED
  BY <1>2, <1>3, <1>4, <1>7, <1>8, <1>9, <1>11, <1>12, <1>13, <1>14, <1>15, <1>16,
     <1>17, <1>18, <1>19, <1>20
  DEF Next, HandlerStep, CloserStep, RunStep, FeedStep

LEMMA InvariantStep == MInv /\ [Next]_vars => MInv'
  BY TypeStep, ControlStep, HasConfigStep, FeedInOrderStep DEF MInv

THEOREM Invariance == Spec => []MInv
<1>1. Init => MInv
  BY InitInvariant
<1>2. MInv /\ [Next]_vars => MInv'
  BY InvariantStep
<1> QED
  BY <1>1, <1>2, PTL DEF Spec

------------------------------------------------------------------------------
(* The theorems.                                                           *)

(* Every state the manager reaches is well typed.                          *)
THEOREM TypeCorrect == Spec => []TypeOK
<1>1. MInv => TypeOK
  BY DEF MInv
<1> QED
  BY <1>1, Invariance, PTL

(* However submits, promotions and thread starts interleave, no two runs   *)
(* execute at once (submit, _run).                                         *)
THEOREM OneRun == Spec => []OneRunAtATime
<1>1. MInv => OneRunAtATime
  BY DEF MInv, Control, Alone, InProgress, OneRunAtATime, Inside
<1> QED
  BY <1>1, Invariance, PTL

(* Runs start in the order of their entries, and never from an entry that  *)
(* has left the queue (_launch_next_locked, dequeue, cancel).              *)
THEOREM InOrder == Spec => QueueOrder
<1> DEFINE Ordered ==
      \A e \in Runs : rpc[e] = "unborn" /\ rpc'[e] # "unborn" =>
          /\ e \in waiting \/ e > seq
          /\ \A k \in Runs : k > e => rpc'[k] = "unborn"
<1>1. ASSUME MInv, [Next]_vars
      PROVE  Ordered
  <2> SUFFICES ASSUME NEW e \in Runs, rpc[e] = "unborn", rpc'[e] # "unborn"
               PROVE  /\ e \in waiting \/ e > seq
                      /\ \A k \in Runs : k > e => rpc'[k] = "unborn"
    OBVIOUS
  <2> USE <1>1, Typing
  <2>1. MInv'
    BY InvariantStep
  <2>2. rpc \in [Runs -> RunPCs]
    BY DEF MInv, TypeOK
  <2>3. ~ Untouched
    BY DEF Untouched
  <2>4. ASSUME NEW t \in Threads, NEW pcs \in [Runs -> RunPCs], StartThread(t, pcs),
               pcs[e] = "unborn"
        PROVE  FALSE
    <3>1. toStart[t] # 0 => rpc[toStart[t]] = "built"
      BY DEF MInv, Control, StartsOnce
    <3> QED
      BY <2>2, <2>4, <3>1 DEF StartThread, MInv, TypeOK
  <2>5. ASSUME NEW h \in Handlers, Answer(h)
        PROVE  FALSE
    BY <2>2, <2>4, <2>5 DEF Answer
  <2>6. ASSUME NEW r \in Runs, EndThread(r)
        PROVE  FALSE
    <3>1. StartThread(r, [rpc EXCEPT ![r] = "ended"]) /\ rpc[r] = "closing"
      BY <2>6 DEF EndThread
    <3>2. /\ [rpc EXCEPT ![r] = "ended"] \in [Runs -> RunPCs]
          /\ [rpc EXCEPT ![r] = "ended"][e] = "unborn"
      BY <2>2, <3>1 DEF RunPCs
    <3> QED
      BY <2>4, <3>1, <3>2
  <2>7. ASSUME NEW r \in Runs, RunReturns(r) \/ LoadConfig(r)
        PROVE  FALSE
    BY <2>2, <2>7 DEF RunReturns, LoadConfig
  <2>8. ASSUME NEW t, NEW q, NEW pcs \in [Runs -> RunPCs], NEW cfg, NEW asks,
               pcs[e] = "unborn", LaunchNext(t, cfg, q, asks, pcs)
        PROVE  e \in q /\ current' = e
    <3>1. LaunchesNone(pcs) \/ \E k \in q : Launches(t, k, q, pcs)
      BY <2>8, LaunchKinds
    <3> QED
      BY <2>8, <3>1 DEF LaunchesNone, Launches
  <2>9. ASSUME e \in waiting \/ e > seq, current' = e
        PROVE  /\ e \in waiting \/ e > seq
               /\ \A k \in Runs : k > e => rpc'[k] = "unborn"
    BY <2>1, <2>9 DEF MInv, Control, QueueAhead
  <2>10. ASSUME NEW h \in Handlers, Enqueue(h)
         PROVE  (e \in waiting \/ e > seq) /\ current' = e
    <3>1. PICK q \in SUBSET Runs :
            /\ \A k \in q \ waiting : seq < k /\ k <= seq'
            /\ IF running
               THEN waiting' = q /\ UNCHANGED <<stateVars, rpc, toStart>>
               ELSE LaunchNext(h, held[h], q, asked', rpc)
      BY <2>10, EnqueueAdds DEF MInv
    <3>2. ~ running
      BY <3>1
    <3>3. e \in q /\ current' = e
      BY <2>2, <2>8, <3>1, <3>2
    <3>4. seq \in Nat
      BY ManagerAssumption DEF MInv, TypeOK
    <3> QED
      BY <3>1, <3>3, <3>4
  <2>11. ASSUME NEW r \in Runs, FinishRun(r)
         PROVE  e \in waiting /\ current' = e
    <3> DEFINE pcs == [rpc EXCEPT ![r] = "closing"]
    <3>1. pcs \in [Runs -> RunPCs] /\ pcs[e] = "unborn"
      BY <2>2, <2>11 DEF FinishRun, RunPCs
    <3>2. held[r] # Unreadable
      BY <2>11, <3>1 DEF FinishRun
    <3>3. LaunchNext(r, held[r], waiting, asked, pcs)
      BY <2>11, <3>2 DEF FinishRun
    <3> HIDE DEF pcs
    <3> QED
      BY <2>8, <3>1, <3>3
  <2> QED
    BY <2>3, <2>5, <2>6, <2>7, <2>9, <2>10, <2>11, StepKinds DEF RunStep
<1> HIDE DEF Ordered
<1>2. MInv /\ [Next]_vars => [Ordered]_vars
  BY <1>1
<1>3. Spec => [][Ordered]_vars
  BY <1>2, Invariance, PTL DEF Spec
<1> QED
  BY <1>3 DEF Ordered, QueueOrder

(* When the tray's wait() has joined a thread, that run is over and stays  *)
(* so, and it was no earlier than any run then in progress.                *)
Joined ==
    /\ joins <= current
    /\ hpc[Closer] = "joined" /\ joins \in Runs => rpc[joins] = "ended"

LEMMA JoinedStep == MInv /\ Joined /\ [Next]_vars => Joined'
<1> SUFFICES ASSUME MInv, Joined, [Next]_vars
             PROVE  Joined'
  OBVIOUS
<1> USE Typing DEF MInv
<1>1. /\ rpc \in [Runs -> RunPCs] /\ hpc \in [Handlers -> HandlerPCs]
      /\ joins \in Runs \cup {0} /\ current \in Runs \cup {0} /\ current \in Nat /\ joins \in Nat
  BY DEF TypeOK
(* Runs that are over stay so, and _thread only moves on.                  *)
<1>2. /\ current' \in Nat /\ current <= current'
      /\ \A r \in Runs : rpc[r] = "ended" => rpc'[r] = "ended"
  <2>1. CASE Untouched
    BY <1>1, <2>1 DEF Untouched
  <2>2. ASSUME NEW t, NEW q \in SUBSET Runs, NEW cfg, NEW asks,
               NEW pcs \in [Runs -> RunPCs], \A r \in Runs : rpc[r] = "ended" => pcs[r] = "ended",
               \A e \in q : current < e, LaunchNext(t, cfg, q, asks, pcs)
        PROVE  /\ current' \in Nat /\ current <= current'
               /\ \A r \in Runs : rpc[r] = "ended" => rpc'[r] = "ended"
    <3>1. CASE LaunchesNone(pcs)
      BY <1>1, <2>2, <3>1 DEF LaunchesNone
    <3>2. ASSUME NEW e \in q, Launches(t, e, q, pcs)
          PROVE  /\ current' \in Nat /\ current <= current'
                 /\ \A r \in Runs : rpc[r] = "ended" => rpc'[r] = "ended"
      <4>1. rpc[e] # "ended" /\ current < e /\ e \in Nat
        BY <1>1, <2>2 DEF Control, QueueAhead
      <4> QED
        BY <1>1, <2>2, <3>2, <4>1 DEF Launches
    <3> QED
      BY <2>2, <3>1, <3>2, LaunchKinds
  <2>3. ASSUME NEW h \in Handlers, Enqueue(h)
        PROVE  /\ current' \in Nat /\ current <= current'
               /\ \A r \in Runs : rpc[r] = "ended" => rpc'[r] = "ended"
    <3>1. PICK q \in SUBSET Runs :
            /\ waiting \subseteq q
            /\ \A e \in q \ waiting : seq < e /\ e <= seq'
            /\ IF running
               THEN waiting' = q /\ UNCHANGED <<stateVars, rpc, toStart>>
               ELSE LaunchNext(h, held[h], q, asked', rpc)
      BY <2>3, EnqueueAdds
    <3>2. seq \in Nat /\ \A e \in q : current < e
      BY <1>1, <3>1, ManagerAssumption DEF TypeOK, Control, QueueAhead
    <3>3. CASE running
      BY <1>1, <3>1, <3>3 DEF stateVars
    <3>4. CASE ~ running
      <4>1. LaunchNext(h, held[h], q, asked', rpc)
        BY <3>1, <3>4
      <4> QED
        BY <1>1, <2>2, <3>2, <4>1
    <3> QED
      BY <3>3, <3>4
  <2>4. ASSUME NEW t \in Threads, NEW pcs \in [Runs -> RunPCs], StartThread(t, pcs),
               \A r \in Runs : rpc[r] = "ended" => pcs[r] = "ended", UNCHANGED stateVars
        PROVE  /\ current' \in Nat /\ current <= current'
               /\ \A r \in Runs : rpc[r] = "ended" => rpc'[r] = "ended"
    <3>1. toStart[t] # 0 => rpc[toStart[t]] = "built"
      BY DEF Control, StartsOnce
    <3> QED
      BY <1>1, <2>4, <3>1 DEF StartThread, TypeOK, stateVars
  <2>5. ASSUME NEW h \in Handlers, Answer(h)
        PROVE  /\ current' \in Nat /\ current <= current'
               /\ \A r \in Runs : rpc[r] = "ended" => rpc'[r] = "ended"
    BY <1>1, <2>4, <2>5 DEF Answer
  <2>6. ASSUME NEW r \in Runs, EndThread(r)
        PROVE  /\ current' \in Nat /\ current <= current'
               /\ \A k \in Runs : rpc[k] = "ended" => rpc'[k] = "ended"
    <3>1. StartThread(r, [rpc EXCEPT ![r] = "ended"]) /\ UNCHANGED stateVars
      BY <2>6 DEF EndThread
    <3>2. /\ [rpc EXCEPT ![r] = "ended"] \in [Runs -> RunPCs]
          /\ \A k \in Runs : rpc[k] = "ended" => [rpc EXCEPT ![r] = "ended"][k] = "ended"
      BY <1>1 DEF RunPCs
    <3> QED
      BY <2>4, <3>1, <3>2
  <2>7. ASSUME NEW r \in Runs, RunReturns(r) \/ LoadConfig(r)
        PROVE  /\ current' \in Nat /\ current <= current'
               /\ \A k \in Runs : rpc[k] = "ended" => rpc'[k] = "ended"
    BY <1>1, <2>7 DEF RunReturns, LoadConfig, stateVars
  <2>8. ASSUME NEW r \in Runs, FinishRun(r)
        PROVE  /\ current' \in Nat /\ current <= current'
               /\ \A k \in Runs : rpc[k] = "ended" => rpc'[k] = "ended"
    <3> DEFINE pcs == [rpc EXCEPT ![r] = "closing"]
    <3>1. pcs \in [Runs -> RunPCs] /\ \A k \in Runs : rpc[k] = "ended" => pcs[k] = "ended"
      BY <1>1, <2>8 DEF FinishRun, RunPCs
    <3>2. CASE held[r] # Unreadable
      <4>1. LaunchNext(r, held[r], waiting, asked, pcs)
        BY <2>8, <3>2 DEF FinishRun
      <4>2. waiting \in SUBSET Runs /\ \A e \in waiting : current < e
        BY DEF TypeOK, Control, QueueAhead
      <4> HIDE DEF pcs
      <4> QED
        BY <2>2, <3>1, <4>1, <4>2
    <3>3. CASE held[r] = Unreadable
      BY <1>1, <2>8, <3>1, <3>3 DEF FinishRun
    <3> QED
      BY <3>2, <3>3
  <2> QED
    BY <2>1, <2>3, <2>5, <2>6, <2>7, <2>8, StepKinds DEF RunStep
<1>3. CASE Wait
  BY <1>1, <1>2, <1>3 DEF Wait, Joined
<1>4. CASE WaitReturns
  BY <1>1, <1>2, <1>4 DEF WaitReturns, Joined
<1>5. CASE joins' = joins /\ (hpc'[Closer] = "joined" => hpc[Closer] = "joined")
  BY <1>1, <1>2, <1>5 DEF Joined
<1>6. ASSUME ~ Wait, ~ WaitReturns
      PROVE  joins' = joins /\ (hpc'[Closer] = "joined" => hpc[Closer] = "joined")
  <2>1. ASSUME NEW h \in Handlers, (\E batch \in Batches : Submit(h, batch))
                                   \/ (\E e \in Runs : Dequeue(h, e)) \/ Cancel(h)
        PROVE  joins' = joins /\ (hpc'[Closer] = "joined" => hpc[Closer] = "joined")
    BY <1>1, <2>1 DEF Submit, Dequeue, Cancel, TakeRunner, Call
  <2>2. ASSUME NEW h \in Handlers, HandlerStep(h)
        PROVE  joins' = joins /\ (hpc'[Closer] = "joined" => hpc[Closer] = "joined")
    BY <1>1, <2>2 DEF HandlerStep, Enqueue, Answer, StopRun
  <2>3. CASE CloseTray \/ CancelForClose
    BY <1>1, <2>3 DEF CloseTray, CancelForClose, TakeRunner
  <2>4. ASSUME NEW r \in Runs, RunStep(r)
        PROVE  joins' = joins /\ (hpc'[Closer] = "joined" => hpc[Closer] = "joined")
    BY <2>4 DEF RunStep, RunReturns, LoadConfig, FinishRun, EndThread, callVars
  <2>5. ASSUME \/ \E t \in Threads : FeedStep(t)
               \/ \E s \in Subscribers : Subscribe(s) \/ Unsubscribe(s)
               \/ EditConfig
               \/ UNCHANGED vars
        PROVE  joins' = joins /\ (hpc'[Closer] = "joined" => hpc[Closer] = "joined")
    BY <2>5
    DEF FeedStep, Publish, Published, Deliver, Subscribe, Unsubscribe, EditConfig, vars, callVars
  <2> QED
    BY <1>6, <2>1, <2>2, <2>3, <2>4, <2>5 DEF Next, CloserStep
<1> QED
  BY <1>3, <1>4, <1>5, <1>6

(* Once wait() has joined a thread no run up to that one is in progress,   *)
(* however the run's own end and later submits interleave (wait, on_close).*)
THEOREM WaitCovers == Spec => []WaitCoversEarlierRuns
<1>1. Init => Joined
  BY Typing DEF Init, Joined
<1>2. MInv /\ Joined => WaitCoversEarlierRuns
  <2> SUFFICES ASSUME MInv, Joined, hpc[Closer] = "joined",
                      NEW r \in Runs, r <= joins, InProgress(r)
               PROVE  FALSE
    BY DEF WaitCoversEarlierRuns
  <2>1. r = current /\ joins \in Runs \cup {0} /\ joins <= current
    BY DEF MInv, Control, Alone, Joined, TypeOK
  <2>2. joins = r
    BY <2>1, Typing
  <2> QED
    BY <2>2 DEF Joined, InProgress
<1>3. Joined /\ MInv /\ [Next]_vars => Joined'
  BY JoinedStep
<1> QED
  BY <1>1, <1>2, <1>3, Invariance, PTL DEF Spec

------------------------------------------------------------------------------
(* No job twice in the queue.                                              *)

(* The run that is on, and its own jobs among those that are taken.        *)
OwnJobsTaken == running => current \in Runs /\ asked[current] \subseteq active

LEMMA LinedUpLaunch ==
    ASSUME NEW t, NEW cfg, NEW q \in SUBSET Runs, NEW asks, NEW pcs,
           LaunchNext(t, cfg, q, asks, pcs), asked' = asks,
           \A e, k \in q : e # k => asks[e] \cap asks[k] = {}
    PROVE  LinedUpOnce' /\ OwnJobsTaken'
<1>1. CASE LaunchesNone(pcs)
  BY <1>1 DEF LaunchesNone, LinedUpOnce, OwnJobsTaken
<1>2. ASSUME NEW e \in q, Launches(t, e, q, pcs), active' = Chosen(cfg, asks[e]),
             Chosen(cfg, asks[e]) # {}
      PROVE  LinedUpOnce' /\ OwnJobsTaken'
  <2>1. asks[e] \subseteq Chosen(cfg, asks[e])
    BY <1>2 DEF Chosen
  <2>2. \A k \in waiting' : k \in q /\ k # e
    BY <1>2, Typing DEF Launches
  <2> QED
    BY <1>2, <2>1, <2>2 DEF Launches, LinedUpOnce, OwnJobsTaken
<1> QED
  BY <1>1, <1>2, LaunchKinds

LEMMA LinedUpStep ==
    MInv /\ LinedUpOnce /\ OwnJobsTaken /\ [Next]_vars => LinedUpOnce' /\ OwnJobsTaken'
<1> SUFFICES ASSUME MInv, LinedUpOnce, OwnJobsTaken, [Next]_vars
             PROVE  LinedUpOnce' /\ OwnJobsTaken'
  OBVIOUS
<1> USE Typing DEF MInv
<1>1. ASSUME waiting' \subseteq waiting, UNCHANGED <<asked, running, active, current>>
      PROVE  LinedUpOnce' /\ OwnJobsTaken'
  BY <1>1 DEF LinedUpOnce, OwnJobsTaken
<1>2. CASE Untouched
  BY <1>1, <1>2 DEF Untouched
<1>3. ASSUME NEW h \in Handlers, Enqueue(h)
      PROVE  LinedUpOnce' /\ OwnJobsTaken'
  <2>1. PICK q \in SUBSET Runs :
          /\ waiting \subseteq q
          /\ \A e \in q \ waiting : seq < e /\ e <= seq'
          /\ \A e \in q \ waiting : asked'[e] \cap Taken = {}
          /\ \A e, k \in q \ waiting : e # k => asked'[e] \cap asked'[k] = {}
          /\ IF running
             THEN waiting' = q /\ UNCHANGED <<stateVars, rpc, toStart>>
             ELSE LaunchNext(h, held[h], q, asked', rpc)
    BY <1>3, EnqueueAdds
  <2>2. \A e \in Runs : e <= seq => asked'[e] = asked[e]
    BY <1>3, EnqueueAdds
  <2>3. \A e \in waiting : asked'[e] = asked[e]
    BY <2>2 DEF Control, QueueAhead, TypeOK
  <2>4. \A e \in q \ waiting, k \in waiting : asked'[e] \cap asked[k] = {}
    BY <2>1 DEF Taken
  <2>5. \A e, k \in q : e # k => asked'[e] \cap asked'[k] = {}
    BY <2>1, <2>3, <2>4 DEF LinedUpOnce
  <2>6. CASE ~ running
    <3>1. LaunchNext(h, held[h], q, asked', rpc)
      BY <2>1, <2>6
    <3> QED
      BY <2>5, <3>1, LinedUpLaunch
  <2>7. CASE running
    <3>1. waiting' = q /\ running' = running /\ active' = active /\ current' = current
      BY <2>1, <2>7 DEF stateVars
    <3>2. current \in Runs => asked'[current] = asked[current]
      BY <2>2 DEF Control, QueueAhead
    <3>3. current \in Runs
      BY <2>7 DEF OwnJobsTaken
    <3>4. asked[current] \subseteq active
      BY <2>7 DEF OwnJobsTaken
    <3>5. \A e \in q \ waiting : asked'[e] \cap active = {}
      BY <2>1, <2>7 DEF Taken
    <3>6. \A e \in q : asked'[current] \cap asked'[e] = {}
      BY <2>3, <2>7, <3>2, <3>3, <3>4, <3>5 DEF LinedUpOnce
    <3> QED
      BY <2>5, <3>1, <3>2, <3>3, <3>4, <3>6 DEF LinedUpOnce, OwnJobsTaken
  <2> QED
    BY <2>6, <2>7
<1>4. ASSUME NEW h \in Handlers, Answer(h)
      PROVE  LinedUpOnce' /\ OwnJobsTaken'
  BY <1>1, <1>4 DEF Answer, queueVars, stateVars
<1>5. ASSUME NEW r \in Runs, RunReturns(r) \/ LoadConfig(r) \/ EndThread(r)
      PROVE  LinedUpOnce' /\ OwnJobsTaken'
  BY <1>1, <1>5 DEF RunReturns, LoadConfig, EndThread, queueVars, stateVars
<1>6. ASSUME NEW r \in Runs, FinishRun(r)
      PROVE  LinedUpOnce' /\ OwnJobsTaken'
  <2>1. asked' = asked
    BY <1>6 DEF FinishRun
  <2>2. CASE held[r] # Unreadable
    <3>1. LaunchNext(r, held[r], waiting, asked, [rpc EXCEPT ![r] = "closing"])
      BY <1>6, <2>2 DEF FinishRun
    <3>2. waiting \in SUBSET Runs /\ \A e, k \in waiting : e # k => asked[e] \cap asked[k] = {}
      BY DEF TypeOK, LinedUpOnce
    <3> QED
      BY <2>1, <3>1, <3>2, LinedUpLaunch
  <2>3. CASE held[r] = Unreadable
    BY <1>6, <2>1, <2>3 DEF FinishRun, LinedUpOnce, OwnJobsTaken
  <2> QED
    BY <2>2, <2>3
<1> QED
  BY <1>2, <1>3, <1>4, <1>5, <1>6, StepKinds DEF RunStep

(* Whatever submits, dequeues and promotions interleave, no job waits in   *)
(* two entries or behind the run that was asked for it (submit).           *)
THEOREM LinedUp == Spec => []LinedUpOnce
<1>1. Init => LinedUpOnce /\ OwnJobsTaken
  BY DEF Init, LinedUpOnce, OwnJobsTaken
<1>2. MInv /\ LinedUpOnce /\ OwnJobsTaken /\ [Next]_vars => LinedUpOnce' /\ OwnJobsTaken'
  BY LinedUpStep
<1> QED
  BY <1>1, <1>2, Invariance, PTL DEF Spec

------------------------------------------------------------------------------
(* RunManager implements RunQueue.                                         *)

(* While the flag is set the run it speaks of is in progress.              *)
Busy == running => current \in Runs /\ InProgress(current)

LEMMA BusyStep == MInv /\ Busy /\ [Next]_vars => Busy'
<1> SUFFICES ASSUME MInv, Busy, [Next]_vars, running'
             PROVE  current' \in Runs /\ InProgress(current)'
  BY DEF Busy
<1> USE Typing DEF MInv
<1>0. rpc \in [Runs -> RunPCs]
  BY DEF TypeOK
<1>1. ASSUME NEW t, NEW cfg, NEW q \in SUBSET Runs, NEW asks, NEW pcs \in [Runs -> RunPCs],
             LaunchNext(t, cfg, q, asks, pcs)
      PROVE  current' \in Runs /\ InProgress(current)'
  <2>1. ~ LaunchesNone(pcs)
    BY DEF LaunchesNone
  <2>2. PICK e \in q : Launches(t, e, q, pcs)
    BY <1>1, <2>1, LaunchKinds
  <2> QED
    BY <1>1, <2>2 DEF Launches, InProgress
<1>2. CASE Untouched
  BY <1>2 DEF Untouched, Busy, InProgress
<1>3. ASSUME NEW h \in Handlers, Enqueue(h)
      PROVE  current' \in Runs /\ InProgress(current)'
  <2>1. PICK q \in SUBSET Runs :
          IF running
          THEN waiting' = q /\ UNCHANGED <<stateVars, rpc, toStart>>
          ELSE LaunchNext(h, held[h], q, asked', rpc)
    BY <1>3, EnqueueAdds
  <2>2. CASE running
    BY <2>1, <2>2 DEF stateVars, Busy, InProgress
  <2>3. CASE ~ running
    BY <1>0, <1>1, <2>1, <2>3
  <2> QED
    BY <2>2, <2>3
<1>4. ASSUME NEW t \in Threads, NEW pcs \in [Runs -> RunPCs], StartThread(t, pcs),
             pcs[current] = rpc[current], UNCHANGED stateVars
      PROVE  current' \in Runs /\ InProgress(current)'
  <2>1. current \in Runs /\ InProgress(current) /\ current' = current
    BY <1>4 DEF stateVars, Busy
  <2>2. rpc'[current] = rpc[current] \/ rpc'[current] = "inside"
    BY <1>4, <2>1 DEF StartThread
  <2> QED
    BY <2>1, <2>2 DEF InProgress
<1>5. ASSUME NEW h \in Handlers, Answer(h)
      PROVE  current' \in Runs /\ InProgress(current)'
  BY <1>0, <1>4, <1>5 DEF Answer
<1>6. ASSUME NEW r \in Runs, RunReturns(r) \/ LoadConfig(r)
      PROVE  current' \in Runs /\ InProgress(current)'
  <2>1. /\ \/ rpc' = [rpc EXCEPT ![r] = "ending"]
           \/ rpc' = [rpc EXCEPT ![r] = "loaded"]
        /\ UNCHANGED stateVars
    BY <1>6 DEF RunReturns, LoadConfig
  <2> QED
    BY <1>0, <2>1 DEF stateVars, Busy, InProgress
<1>7. ASSUME NEW r \in Runs, FinishRun(r)
      PROVE  current' \in Runs /\ InProgress(current)'
  <2>1. LaunchNext(r, held[r], waiting, asked, [rpc EXCEPT ![r] = "closing"])
    BY <1>7 DEF FinishRun
  <2>2. [rpc EXCEPT ![r] = "closing"] \in [Runs -> RunPCs] /\ waiting \in SUBSET Runs
    BY <1>0 DEF RunPCs, TypeOK
  <2> QED
    BY <1>1, <2>1, <2>2
<1>8. ASSUME NEW r \in Runs, EndThread(r)
      PROVE  current' \in Runs /\ InProgress(current)'
  <2> DEFINE pcs == [rpc EXCEPT ![r] = "ended"]
  <2>1. /\ rpc[r] = "closing" /\ StartThread(r, pcs) /\ UNCHANGED stateVars
        /\ r \in Threads
    BY <1>8 DEF EndThread
  <2>2. current \in Runs /\ InProgress(current)
    BY <2>1 DEF stateVars, Busy
  <2>3. pcs \in [Runs -> RunPCs] /\ pcs[current] = rpc[current]
    BY <1>0, <2>1, <2>2 DEF RunPCs, InProgress
  <2> HIDE DEF pcs
  <2> QED
    BY <1>4, <2>1, <2>3
<1> QED
  BY <1>2, <1>3, <1>5, <1>6, <1>7, <1>8, StepKinds DEF RunStep

(* What the stages of the entries say, one by one.                         *)
Looks == {{s \in SUBSET Selectors : Chosen(cfg, s) # {}} : cfg \in Configs}
Stages == [e \in Runs |-> Stage(e)]

LEMMA StageSame ==
    ASSUME NEW e, rpc'[e] = rpc[e], e > seq' <=> e > seq, e \in waiting' <=> e \in waiting
    PROVE  Stage(e)' = Stage(e)
  BY DEF Stage

LEMMA SameStages ==
    ASSUME \A e \in Runs : Stage(e)' = Stage(e)
    PROVE  [e \in Runs |-> Stage(e)]' = [e \in Runs |-> Stage(e)]
  BY Zenon

LEMMA StageTells ==
    ASSUME TypeOK, Control, NEW e \in Runs
    PROVE  /\ Stages[e] = "new" <=> e > seq
           /\ Stages[e] = "waiting" <=> e \in waiting
           /\ Stages[e] = "called" <=> rpc[e] = "built"
           /\ Stages[e] = "running" <=> rpc[e] \in {"inside", "ending", "loaded"}
           /\ e \in waiting \/ e > seq => rpc[e] = "unborn"
<1> USE Typing
<1>1. rpc[e] \in RunPCs /\ seq \in Nat /\ current \in Nat
  BY DEF TypeOK
<1>2. e \in waiting \/ e > seq => rpc[e] = "unborn"
  BY <1>1 DEF Control, QueueAhead
<1>3. e \in waiting => ~ (e > seq)
  BY <1>1 DEF Control, QueueAhead
<1>4. Stages[e] = Stage(e)
  BY DEF Stages
<1>5. CASE rpc[e] = "unborn"
  BY <1>1, <1>3, <1>4, <1>5 DEF Stage
<1>6. CASE rpc[e] # "unborn"
  BY <1>1, <1>2, <1>4, <1>6 DEF Stage, RunPCs
<1> QED
  BY <1>2, <1>5, <1>6

LEMMA StagesAre ==
    ASSUME TypeOK, Control
    PROVE  /\ Queue!Entries = Runs
           /\ Queue!At("new") = {e \in Runs : e > seq}
           /\ Queue!At("waiting") = waiting
           /\ Queue!On = {e \in Runs : InProgress(e)}
<1>1. Queue!Entries = Runs
  BY DEF Queue!Entries, Runs
<1>2. \A s : Queue!At(s) = {e \in Runs : Stages[e] = s}
  BY <1>1 DEF Queue!At, Stages
<1>3. waiting \subseteq Runs
  BY DEF TypeOK
<1>4. Queue!At("waiting") = waiting
  BY <1>2, <1>3, StageTells
<1>5. Queue!At("new") = {e \in Runs : e > seq}
  BY <1>2, StageTells
<1>6. Queue!At("called") = {e \in Runs : rpc[e] = "built"}
  BY <1>2, StageTells
<1>7. Queue!At("running") = {e \in Runs : rpc[e] \in {"inside", "ending", "loaded"}}
  BY <1>2, StageTells
<1> QED
  BY <1>1, <1>4, <1>5, <1>6, <1>7 DEF Queue!On, InProgress

(* The stage of an entry that is not in the queue.                         *)
Placed(e, at, last) ==
    CASE at = "built" -> "called"
      [] at \in {"inside", "ending", "loaded"} -> "running"
      [] at \in {"closing", "ended"} -> "over"
      [] at = "unborn" -> IF e > last THEN "new" ELSE "dropped"

LEMMA PlacedIs ==
    ASSUME NEW e, e \notin waiting
    PROVE  Stage(e) = Placed(e, rpc[e], seq)
  BY DEF Stage, Placed

(* A launch promotes, by the config the thread has loaded.                 *)
LEMMA LaunchPromotes ==
    ASSUME TypeOK, TypeOK', NEW cfg \in Configs, NEW t, NEW q \in SUBSET Runs,
           NEW pcs \in [Runs -> RunPCs], LaunchNext(t, cfg, q, asked', pcs),
           NEW stages, \A e \in q : stages[e] = "waiting" /\ pcs[e] = "unborn" /\ e <= seq',
           \A e \in Runs \ q : stages[e] = Placed(e, pcs[e], seq')
    PROVE  Queue!Promote(q, stages)
<1> USE Typing
<1> DEFINE look == {s \in SUBSET Selectors : Chosen(cfg, s) # {}}
           live == {e \in q : asked'[e] \in look}
           after(e) == IF e \in q /\ \A k \in live : e < k THEN "dropped"
                       ELSE IF e \in live /\ \A k \in live : e <= k THEN "called"
                       ELSE stages[e]
<1>1. \A e \in q : e \in live <=> Chosen(cfg, asked'[e]) # {}
  BY DEF TypeOK
<1>2. seq' \in Nat /\ \A e \in Runs : e \in Nat
  BY DEF TypeOK
<1>3. ASSUME NEW e \in Runs \ q, rpc'[e] = pcs[e], e \notin waiting'
      PROVE  Stage(e)' = after(e)
  <2>1. after(e) = Placed(e, pcs[e], seq')
    OBVIOUS
  <2> QED
    BY <1>3, <2>1 DEF Stage, Placed
<1>4. ASSUME LaunchesNone(pcs), live = {}
      PROVE  \A e \in Runs : Stage(e)' = after(e)
  <2>1. rpc' = pcs /\ waiting' = {}
    BY <1>4 DEF LaunchesNone
  <2>2. ASSUME NEW e \in q
        PROVE  Stage(e)' = after(e)
    <3>1. after(e) = "dropped"
      BY <1>4
    <3>2. rpc'[e] = "unborn" /\ e \notin waiting' /\ ~ (e > seq')
      BY <1>2, <2>1
    <3> QED
      BY <3>1, <3>2 DEF Stage
  <2>3. \A e \in Runs \ q : Stage(e)' = after(e)
    BY <1>3, <2>1
  <2> QED
    BY <2>2, <2>3, Zenon
<1>5. ASSUME NEW e \in live, \A k \in live : e <= k, Launches(t, e, q, pcs)
      PROVE  \A k \in Runs : Stage(k)' = after(k)
  <2>1. /\ waiting' = {k \in q : k > e} /\ rpc' = [pcs EXCEPT ![e] = "built"]
        /\ e \in q
    BY <1>5 DEF Launches
  <2>2. ASSUME NEW k \in q
        PROVE  Stage(k)' = after(k)
    <3>1. k \in Nat /\ e \in Nat /\ \A n \in live : n \in Nat
      BY <1>2
    <3>2. CASE k < e
      <4>1. \A n \in live : k < n
        BY <1>5, <3>1, <3>2
      <4>2. rpc'[k] = "unborn" /\ k \notin waiting' /\ ~ (k > seq')
        BY <1>2, <2>1, <3>1, <3>2
      <4> QED
        BY <4>1, <4>2 DEF Stage
    <3>3. CASE k = e
      <4>1. ~ (e < e)
        BY <3>1
      <4>2. rpc'[e] = "built"
        BY <2>1
      <4>3. after(e) = "called"
        BY <1>5, <2>1, <4>1, Zenon
      <4> QED
        BY <3>3, <4>2, <4>3 DEF Stage
    <3>4. CASE e < k
      <4>1. ~ (k < e) /\ ~ (k <= e)
        BY <3>1, <3>4
      <4>2. after(k) = "waiting"
        BY <1>5, <4>1, Zenon
      <4>3. rpc'[k] = "unborn" /\ k \in waiting' /\ ~ (k > seq')
        BY <1>2, <2>1, <3>1, <3>4
      <4> QED
        BY <4>2, <4>3 DEF Stage
    <3> QED
      BY <3>1, <3>2, <3>3, <3>4
  <2>3. ASSUME NEW k \in Runs \ q
        PROVE  rpc'[k] = pcs[k] /\ k \notin waiting'
    BY <2>1
  <2> QED
    BY <1>3, <2>2, <2>3
<1>6. \A e \in Runs : Stage(e)' = after(e)
  <2>1. \/ live = {} /\ LaunchesNone(pcs)
        \/ \E e \in live : (\A k \in live : e <= k) /\ Launches(t, e, q, pcs)
    BY <1>1 DEF LaunchNext, Front, LaunchesNone, Launches
  <2> QED
    BY <1>4, <1>5, <2>1
<1>7. [e \in Runs |-> Stage(e)]' = [e \in Runs |-> after(e)]
  BY <1>6
<1>8. look \in Looks
  BY DEF Looks
<1> QED
  BY <1>7, <1>8 DEF Queue!Promote, Queue!Entries, Runs, Looks

(* The entries of a batch that is accepted.                                *)
Joining == {e \in Runs : seq < e /\ e <= seq'}

LEMMA JoiningIs ==
    ASSUME seq \in Nat, seq' \in Nat, seq <= seq'
    PROVE  /\ Joining \subseteq Runs
           /\ \A e \in Joining : e > seq /\ ~ (e > seq') /\ e <= seq' /\ ~ (e <= seq)
           /\ \A e \in Joining, k \in {n \in Runs : n > seq} \ Joining : e < k
           /\ \A e \in Runs \ Joining : (e > seq' <=> e > seq) /\ (e <= seq \/ seq' < e)
           /\ \A e \in Runs : e <= seq => e <= seq'
  BY DEF Joining, Runs

LEMMA StepImplements ==
    ASSUME MInv, MInv', Busy, OwnJobsTaken, [Next]_vars
    PROVE  [Queue!QNext]_(Queue!qvars)
<1>0. /\ rpc \in [Runs -> RunPCs] /\ seq \in Nat /\ MaxEntries \in Nat
      /\ waiting \in SUBSET Runs /\ Queue!Entries = Runs
  <2>1. TypeOK /\ Control
    BY Zenon DEF MInv
  <2>2. Queue!Entries = Runs
    BY <2>1, StagesAre, Zenon
  <2>3. rpc \in [Runs -> RunPCs] /\ seq \in 0 .. MaxEntries /\ waiting \subseteq Runs
    BY <2>1, Zenon DEF TypeOK
  <2> QED
    BY <2>2, <2>3, ManagerAssumption
<1> USE Typing DEF MInv
<1>1. ASSUME \A e \in Runs : Stage(e)' = Stage(e), asked' = asked
      PROVE  UNCHANGED Queue!qvars
  <2>1. [e \in Runs |-> Stage(e)]' = [e \in Runs |-> Stage(e)]
    BY <1>1, SameStages, Zenon
  <2> QED
    BY <1>1, <2>1, Zenon DEF Queue!qvars
<1>2. ASSUME Untouched
      PROVE  [Queue!QNext]_(Queue!qvars)
  <2> DEFINE S == waiting \ waiting'
  <2>1. S \in SUBSET Queue!Entries /\ S \subseteq Queue!At("waiting")
    BY <1>0, StagesAre
  <2>2. \A e \in Runs : Stage(e)' = IF e \in S THEN "dropped" ELSE Stage(e)
    <3> SUFFICES ASSUME NEW e \in Runs
                 PROVE  Stage(e)' = IF e \in S THEN "dropped" ELSE Stage(e)
      OBVIOUS
    <3>1. rpc' = rpc /\ seq' = seq /\ waiting' \subseteq waiting
      BY <1>2 DEF Untouched
    <3>2. e \in waiting => rpc[e] = "unborn" /\ ~ (e > seq)
      BY <1>0, StageTells DEF Control, QueueAhead
    <3>3. CASE e \in S
      <4>1. rpc'[e] = "unborn" /\ ~ (e > seq') /\ e \notin waiting'
        BY <3>1, <3>2, <3>3
      <4> QED
        BY <3>3, <4>1 DEF Stage
    <3>4. CASE e \notin S
      <4>1. e \in waiting' <=> e \in waiting
        BY <3>1, <3>4
      <4>2. Stage(e)' = Stage(e)
        BY <3>1, <4>1, StageSame, Zenon
      <4> QED
        BY <3>4, <4>2, Zenon
    <3> QED
      BY <3>3, <3>4
  <2>3. asked' = asked
    BY <1>2 DEF Untouched
  <2> HIDE DEF S
  <2>4. Queue!Drop(S)
    BY <1>0, <2>1, <2>2, <2>3 DEF Queue!Drop
  <2> QED
    BY <2>1, <2>4 DEF Queue!QNext
<1>3. ASSUME NEW t \in Threads, NEW pcs \in [Runs -> RunPCs], StartThread(t, pcs),
             \A r \in Runs : pcs[r] = rpc[r] \/ (rpc[r] = "closing" /\ pcs[r] = "ended"),
             UNCHANGED queueVars
      PROVE  [Queue!QNext]_(Queue!qvars)
  <2>0. PICK s : s = toStart[t]
    OBVIOUS
  <2>1. \A r \in Runs : rpc'[r] = IF r = s THEN "inside" ELSE pcs[r]
    <3>1. rpc' = [r \in Runs |-> IF r = s THEN "inside" ELSE pcs[r]]
      BY <1>3, <2>0, Zenon DEF StartThread
    <3> QED
      BY <3>1, Zenon
  <2>2. seq' = seq /\ waiting' = waiting /\ asked' = asked
    BY <1>3 DEF queueVars
  <2>3. ASSUME NEW r \in Runs, r # s
        PROVE  Stage(r)' = Stage(r)
    <3>1. rpc'[r] = rpc[r] \/ (rpc[r] = "closing" /\ rpc'[r] = "ended")
      BY <1>3, <2>1, <2>3
    <3> QED
      BY <2>2, <3>1 DEF Stage
  <2>4. CASE s \notin Runs
    BY <1>1, <2>2, <2>3, <2>4
  <2>5. CASE s \in Runs
    <3>1. rpc[s] = "built" /\ rpc'[s] = "inside"
      BY <2>0, <2>1, <2>5 DEF Control, StartsOnce
    <3>2. Stage(s) = "called" /\ Stages[s] = "called"
      BY <2>5, <3>1 DEF Stage, Stages
    <3>3. Stage(s)' = "running"
      BY <3>1 DEF Stage
    <3>4. [e \in Runs |-> Stage(e)]' = [Stages EXCEPT ![s] = "running"]
      <4>1. \A e \in Runs : Stage(e)' = IF e = s THEN "running" ELSE Stage(e)
        BY <2>3, <3>3
      <4> QED
        BY <4>1 DEF Stages
    <3>5. Queue!Begin(s)
      BY <2>2, <3>2, <3>4 DEF Queue!Begin, Stages
    <3> QED
      BY <1>0, <2>5, <3>5 DEF Queue!QNext
  <2> QED
    BY <2>4, <2>5
<1>4. ASSUME NEW h \in Handlers, Answer(h)
      PROVE  [Queue!QNext]_(Queue!qvars)
  BY <1>0, <1>3, <1>4 DEF Answer
<1>5. ASSUME NEW r \in Runs, RunReturns(r) \/ LoadConfig(r)
      PROVE  [Queue!QNext]_(Queue!qvars)
  <2>1. /\ rpc[r] \in {"inside", "ending"}
        /\ \/ rpc' = [rpc EXCEPT ![r] = "ending"]
           \/ rpc' = [rpc EXCEPT ![r] = "loaded"]
        /\ UNCHANGED queueVars
    BY <1>5 DEF RunReturns, LoadConfig
  <2>2. \A e \in Runs : Stage(e)' = Stage(e)
    BY <1>0, <2>1 DEF Stage, queueVars
  <2> QED
    BY <1>1, <2>1, <2>2 DEF queueVars
<1>6. ASSUME NEW r \in Runs, EndThread(r)
      PROVE  [Queue!QNext]_(Queue!qvars)
  <2> DEFINE pcs == [rpc EXCEPT ![r] = "ended"]
  <2>1. /\ rpc[r] = "closing" /\ StartThread(r, pcs) /\ UNCHANGED queueVars
        /\ r \in Threads
    BY <1>6 DEF EndThread
  <2>2. pcs \in [Runs -> RunPCs]
    BY <1>0 DEF RunPCs
  <2>3. \A k \in Runs : pcs[k] = rpc[k] \/ (rpc[k] = "closing" /\ pcs[k] = "ended")
    BY <1>0, <2>1
  <2> HIDE DEF pcs
  <2> QED
    BY <1>3, <2>1, <2>2, <2>3
<1>7. ASSUME NEW r \in Runs, FinishRun(r)
      PROVE  [Queue!QNext]_(Queue!qvars)
  <2> DEFINE pcs == [rpc EXCEPT ![r] = "closing"]
             stages == [Stages EXCEPT ![r] = "over"]
  <2>1. rpc[r] = "loaded" /\ seq' = seq /\ asked' = asked /\ Stages[r] = "running"
    BY <1>7, StageTells DEF FinishRun
  <2>2. pcs \in [Runs -> RunPCs] /\ \A e \in Runs : pcs[e] = IF e = r THEN "closing" ELSE rpc[e]
    BY <1>0 DEF RunPCs
  <2>3. \A e \in Runs : stages[e] = IF e = r THEN "over" ELSE Stage(e)
    BY DEF Stages
  <2> HIDE DEF pcs, stages
  <2>4. \A e \in waiting : stages[e] = "waiting" /\ pcs[e] = "unborn" /\ e <= seq'
    BY <1>0, <2>1, <2>2, <2>3, StageTells DEF Stages, Control, QueueAhead
  <2>5. \A e \in Runs \ waiting : stages[e] = Placed(e, pcs[e], seq')
    <3> SUFFICES ASSUME NEW e \in Runs \ waiting
                 PROVE  stages[e] = Placed(e, pcs[e], seq')
      OBVIOUS
    <3>1. CASE e = r
      BY <2>2, <2>3, <3>1 DEF Placed
    <3>2. CASE e # r
      <4>1. Stage(e) = Placed(e, rpc[e], seq)
        BY PlacedIs
      <4> QED
        BY <2>1, <2>2, <2>3, <3>2, <4>1
    <3> QED
      BY <3>1, <3>2
  <2>6. CASE held[r] # Unreadable
    <3>1. LaunchNext(r, held[r], waiting, asked', pcs) /\ held[r] \in Configs
      BY <1>7, <2>1, <2>6 DEF FinishRun, pcs, TypeOK
    <3>2. Queue!Promote(waiting, stages)
      <4>1. TypeOK /\ TypeOK' /\ waiting \in SUBSET Runs
        BY <1>0
      <4> HIDE DEF MInv
      <4> QED
        BY <2>2, <2>4, <2>5, <3>1, <4>1, LaunchPromotes
    <3>3. Queue!End(r)
      BY <2>1, <3>2, StagesAre DEF Queue!End, Stages, stages
    <3> QED
      BY <1>0, <3>3 DEF Queue!QNext
  <2>7. CASE held[r] = Unreadable
    <3>1. rpc' = pcs /\ waiting' = waiting
      BY <1>7, <2>7 DEF FinishRun, pcs
    <3>2. \A e \in Runs : Stage(e)' = stages[e]
      BY <2>1, <2>2, <2>3, <3>1 DEF Stage
    <3>3. Queue!End(r)
      BY <2>1, <2>3, <3>2 DEF Queue!End, Stages, stages
    <3> QED
      BY <1>0, <3>3 DEF Queue!QNext
  <2> QED
    BY <2>6, <2>7
<1>8. ASSUME NEW h \in Handlers, Enqueue(h)
      PROVE  [Queue!QNext]_(Queue!qvars)
  <2> DEFINE S == Joining
  <2>1. /\ seq' \in Nat /\ seq <= seq' /\ asked' \in [Runs -> SUBSET Selectors]
        /\ \A e \in Runs : e <= seq \/ seq' < e => asked'[e] = asked[e]
    BY <1>0, <1>8, EnqueueAdds
  <2>0. /\ S \subseteq Runs
        /\ \A e \in S : e > seq /\ ~ (e > seq') /\ e <= seq' /\ ~ (e <= seq)
        /\ \A e \in S, k \in {n \in Runs : n > seq} \ S : e < k
        /\ \A e \in Runs \ S : (e > seq' <=> e > seq) /\ (e <= seq \/ seq' < e)
        /\ \A e \in Runs : e <= seq => e <= seq'
    BY <1>0, <2>1, JoiningIs, Zenon
  <2>2. PICK q \in SUBSET Runs :
          /\ waiting \subseteq q
          /\ \A e \in q \ waiting : seq < e /\ e <= seq'
          /\ \A e \in Runs : seq < e /\ e <= seq' => e \in q
          /\ \A e \in q \ waiting : asked'[e] \cap Taken = {}
          /\ \A e, k \in q \ waiting : e # k => asked'[e] \cap asked'[k] = {}
          /\ IF running
             THEN waiting' = q /\ UNCHANGED <<stateVars, rpc, toStart>>
             ELSE LaunchNext(h, held[h], q, asked', rpc)
    BY <1>8, EnqueueAdds
  <2>3. \A e \in waiting : e <= seq /\ current < e /\ rpc[e] = "unborn"
    BY <1>0, StageTells DEF Control, QueueAhead
  <2>4. q = waiting \cup S /\ S = q \ waiting
    <3>1. \A e \in q : e \in waiting \/ e \in S
      BY <2>2 DEF Joining
    <3>2. \A e \in S : e \in q /\ ~ (e <= seq)
      BY <2>0, <2>2, Zenon DEF Joining
    <3>3. \A e \in S : e \notin waiting
      BY <2>3, <3>2, Zenon
    <3> QED
      BY <2>2, <3>1, <3>2, <3>3, Zenon
  <2> DEFINE stages == [e \in Runs |-> IF e \in S THEN "waiting" ELSE Stage(e)]
  <2>5. \A e \in S : e > seq
    BY <2>0, Zenon
  <2>6. \A e \in S, k \in {n \in Runs : n > seq} \ S : e < k
    BY <2>0, Zenon
  <2>7. \A e \in Runs \ S : asked'[e] = asked[e]
    <3>1. \A e \in Runs \ S : e <= seq \/ seq' < e
      BY <2>0, Zenon
    <3> QED
      BY <2>1, <3>1
  <2> HIDE DEF S
  <2>8. ASSUME NEW e \in S, NEW k \in S \cup waiting \cup {n \in Runs : InProgress(n)}, k # e
        PROVE  asked'[e] \cap asked'[k] = {}
    <3>1. CASE k \in S
      BY <2>2, <2>4, <2>8, <3>1
    <3>2. CASE k \in waiting
      BY <2>2, <2>4, <2>7, <3>2 DEF Taken
    <3>3. CASE k \in Runs /\ InProgress(k)
      <4>1. running /\ k = current /\ asked[k] \subseteq active
        BY <3>3 DEF Control, Alone, OwnJobsTaken
      <4>2. k \notin S
        BY <1>0, <2>5, <3>3, StageTells DEF InProgress
      <4>3. asked'[e] \cap active = {}
        BY <2>2, <2>4, <4>1 DEF Taken
      <4> QED
        BY <2>7, <3>3, <4>1, <4>2, <4>3
    <3> QED
      BY <2>8, <3>1, <3>2, <3>3
  <2>9. IF Queue!On # {} THEN [e \in Runs |-> Stage(e)]' = stages
        ELSE Queue!Promote(waiting \cup S, stages)
    <3>1. CASE running
      <4>1. Queue!On # {}
        BY <3>1, StagesAre DEF Busy
      <4>2. waiting' = waiting \cup S /\ rpc' = rpc
        BY <2>2, <2>4, <3>1
      <4>3. \A e \in Runs : Stage(e)' = IF e \in S THEN "waiting" ELSE Stage(e)
        <5> SUFFICES ASSUME NEW e \in Runs
                     PROVE  Stage(e)' = IF e \in S THEN "waiting" ELSE Stage(e)
          OBVIOUS
        <5>1. CASE e \in S
          <6>1. e \in waiting' /\ rpc'[e] = "unborn" /\ ~ (e > seq')
            BY <2>0, <2>5, <4>2, <5>1, StageTells
          <6> QED
            BY <5>1, <6>1 DEF Stage
        <5>2. CASE e \notin S
          <6>1. (e > seq' <=> e > seq) /\ (e \in waiting' <=> e \in waiting)
            BY <2>0, <4>2, <5>2, Zenon
          <6>2. Stage(e)' = Stage(e)
            BY <4>2, <6>1, StageSame, Zenon
          <6> QED
            BY <5>2, <6>2, Zenon
        <5> QED
          BY <5>1, <5>2
      <4> QED
        BY <4>1, <4>3
    <3>2. CASE ~ running
      <4>1. Queue!On = {}
        BY <3>2, StagesAre DEF Control, Alone
      <4>2. LaunchNext(h, held[h], q, asked', rpc) /\ held[h] \in Configs
        BY <1>8, <2>2, <3>2 DEF HasConfig, Enqueue
      <4>3. \A e \in q : stages[e] = "waiting" /\ rpc[e] = "unborn" /\ e <= seq'
        <5> SUFFICES ASSUME NEW e \in q
                     PROVE  stages[e] = "waiting" /\ rpc[e] = "unborn" /\ e <= seq'
          OBVIOUS
        <5>1. CASE e \in S
          BY <2>0, <2>5, <5>1, StageTells
        <5>2. CASE e \in waiting
          BY <2>0, <2>3, <5>2, StageTells DEF Stages
        <5> QED
          BY <2>4, <5>1, <5>2
      <4>4. \A e \in Runs \ q : stages[e] = Placed(e, rpc[e], seq')
        <5> SUFFICES ASSUME NEW e \in Runs \ q
                     PROVE  stages[e] = Placed(e, rpc[e], seq')
          OBVIOUS
        <5>1. e \notin S /\ e \notin waiting /\ stages[e] = Stage(e)
          BY <2>4 DEF stages
        <5>2. e > seq' <=> e > seq
          BY <2>0, <5>1, Zenon
        <5>3. Stage(e) = Placed(e, rpc[e], seq)
          BY <5>1, PlacedIs
        <5> QED
          BY <5>1, <5>2, <5>3 DEF Placed
      <4> HIDE DEF stages
      <4>5. Queue!Promote(q, stages)
        BY <1>0, <4>2, <4>3, <4>4, LaunchPromotes
      <4> QED
        BY <2>4, <4>1, <4>5
    <3> QED
      BY <3>1, <3>2
  <2>10. S \in SUBSET Runs
    BY <2>0
  <2>11. /\ S \subseteq Queue!At("new")
         /\ \A e \in S, k \in Queue!At("new") \ S : e < k
         /\ \A e \in S, k \in S \cup Queue!At("waiting") \cup Queue!On :
                k # e => asked'[e] \cap asked'[k] = {}
    BY <2>5, <2>6, <2>8, <2>10, StagesAre
  <2>12. Queue!Arrive(S)
    <3>1. stages = [e \in Queue!Entries |->
                        IF e \in S THEN "waiting" ELSE [n \in Runs |-> Stage(n)][e]]
      BY <1>0
    <3>2. waiting \cup S = Queue!At("waiting") \cup S
      BY StagesAre
    <3> QED
      BY <1>0, <2>1, <2>7, <2>9, <2>11, <3>1, <3>2 DEF Queue!Arrive
  <2> QED
    BY <1>0, <2>10, <2>12 DEF Queue!QNext
<1> QED
  BY <1>2, <1>4, <1>5, <1>6, <1>7, <1>8, StepKinds DEF RunStep

(* Every behaviour of the manager is, entry by entry, a behaviour of the   *)
(* queue: one run at a time, in order, none passed over that could run, no *)
(* run twice (submit, dequeue, cancel, _run, _launch_next_locked).         *)
THEOREM Implementation == Spec => ImplementsQueue
<1>1. Init => Queue!QInit
  <2> SUFFICES ASSUME Init
               PROVE  Queue!QInit
    OBVIOUS
  <2>1. \A e \in Runs : Stage(e) = "new"
    BY Typing DEF Init, Stage
  <2>2. Queue!Entries = Runs
    BY DEF Queue!Entries, Runs
  <2> QED
    BY <2>1, <2>2 DEF Queue!QInit, Init
<1>2. Init => Busy /\ OwnJobsTaken /\ LinedUpOnce
  BY DEF Init, Busy, OwnJobsTaken, LinedUpOnce
<1>3. MInv /\ MInv' /\ Busy /\ OwnJobsTaken /\ [Next]_vars => [Queue!QNext]_(Queue!qvars)
  BY StepImplements
<1> QED
  BY <1>1, <1>2, <1>3, BusyStep, LinedUpStep, Invariance, PTL
  DEF Spec, ImplementsQueue, Queue!QSpec
==============================================================================
