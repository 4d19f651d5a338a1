---------------------------- MODULE HistoryProofs ----------------------------
(***************************************************************************)
(* What holds of History for any number of threads and processes, any cut  *)
(* writes and crashes, and every older store.                              *)
(***************************************************************************)
EXTENDS HistoryReadProofs

------------------------------------------------------------------------------
(* The inductive invariant.                                                *)

Fields == {"op", "entry", "found", "key", "value", "asked"}

FrameTypes(f) ==
    /\ DOMAIN f = Fields
    /\ f.op \in {"none", "append", "summary", "tail"}
    /\ f.entry \in Entries \cup {0}
    /\ f.found \in Seq(Entries)
    /\ f.key \in Nat \cup {None}
    /\ f.asked \subseteq Entries

FramesTyped == DOMAIN frame = Threads /\ \A t \in Threads : FrameTypes(frame[t])

FileTypes ==
    /\ log = None \/ log \in Seq(Bytes)
    /\ legacy \in LegacyStores \cup {None}
    /\ temp = None \/ temp \in Seq(Entries)

OtherTypes ==
    /\ lock \in [Processes -> Threads \cup {None}]
    /\ DOMAIN cache = Processes
    /\ \A p \in Processes : cache[p].key \in Nat \cup {None}
    /\ pc \in [Threads -> PCs]
    /\ clock \in 0 .. MaxEntries
    /\ faults \in 0 .. MaxFaults
    /\ acked \subseteq Entries
    /\ cut \in Nat
    /\ overlapped \in BOOLEAN

Shapes == FramesTyped /\ FileTypes /\ OtherTypes

(* What a thread is doing tells which call it is in.                       *)
CallFits(t) ==
    /\ pc[t] \in {"lock", "write"} => frame[t].op = "append"
    /\ pc[t] \in {"look", "compare", "store", "answered", "unreadable"} => frame[t].op = "summary"
    /\ pc[t] = "load" => frame[t].op \in {"summary", "tail"}
    /\ pc[t] \in {"check", "read", "fill", "replace", "rename"} => frame[t].op # "none"
    /\ frame[t].op = "append" => frame[t].entry \in Entries /\ pc[t] # "idle"

(* An append past the lock holds that of its process.                      *)
AppenderHasLock(t) ==
    frame[t].op = "append" /\ pc[t] # "lock" => lock[Home[t]] = t

Calls == \A t \in Threads : CallFits(t) /\ AppenderHasLock(t)

(* A conversion that nothing overlaps has the files for itself: the log is *)
(* not there until it puts it there, and who writes or reads the log is    *)
(* past the time of conversions.                                           *)
Exclusive(t) ==
    /\ pc[t] \in {"read", "fill", "replace"} => log = None /\ legacy # None
    /\ pc[t] = "rename" => log # None
    /\ pc[t] \in {"write", "load", "compare", "store"} => log # None \/ legacy = None
    /\ pc[t] \in Converting => \A u \in Threads \ {t} : pc[u] \notin Converting

ConvertsAlone == ~overlapped => \A t \in Threads : Exclusive(t)

(* A summary under a key: the log was once that long, and if it still is   *)
(* the summary is of the log.                                              *)
Reached(bytes, key) == key # None => bytes # None /\ key <= Len(bytes)
Fits(bytes, key, value) ==
    /\ Reached(bytes, key)
    /\ bytes # None /\ key = Len(bytes) => value = SummaryOf(bytes)

SummariesFit ==
    ~overlapped =>
        /\ \A p \in Processes : Fits(log, cache[p].key, cache[p].value)
        /\ \A t \in Threads :
            /\ Reached(log, frame[t].key)
            /\ pc[t] \in {"compare", "store"} => Fits(log, frame[t].key, frame[t].value)

HInv == Shapes /\ Calls /\ ConvertsAlone /\ SummariesFit

(* Nothing is written twice: an entry on its way to the log is in no other *)
(* place.                                                                  *)
OfTheOldStore(store) == IsInjective(store) /\ ToSet(store) \subseteq original
Pending(t) == frame[t].op = "append"

WrittenOnce ==
    /\ IsInjective(LogBytes)
    /\ original \subseteq Entries
    /\ \A e \in original \cup EntriesIn(LogBytes) : e <= clock
    /\ legacy # None => OfTheOldStore(legacy)
    /\ temp # None => OfTheOldStore(temp)
    /\ \A t \in Threads : OfTheOldStore(frame[t].found)
    /\ \A t \in Threads : Pending(t) =>
        /\ frame[t].entry <= clock
        /\ frame[t].entry \notin original \cup EntriesIn(LogBytes)
        /\ \A u \in Threads \ {t} : Pending(u) => frame[u].entry # frame[t].entry

(* Every acknowledged entry has a whole line, but for one per cut write; a *)
(* cut that is still at the end of the log has not cost one yet.           *)
Torn == IF EndsWell(LogBytes) THEN 0 ELSE 1

Accounted ==
    ~overlapped =>
        /\ log = None => acked = {}
        /\ Cardinality(acked \ Whole(LogBytes)) + Torn <= cut

(* The old store is complete in one place or the other.                    *)
Carried ==
    ~overlapped =>
        /\ log = None => original = IF legacy = None THEN {} ELSE ToSet(legacy)
        /\ log # None => original \subseteq Whole(log)
        /\ \A t \in Threads :
            /\ pc[t] = "fill" => frame[t].found = legacy
            /\ pc[t] = "replace" => temp = legacy

(* What is remembered under a key is the summary of that much of the log,  *)
(* and a request that took the key may be answered with it.                *)
OfPrefix(key, value) == value = SummaryOf(SubSeq(log, 1, key))
RunsIn(bytes) == Cardinality(ToSet(ParseEntries(bytes)))
Answers(t, runs) == runs \in Nat /\ runs >= Cardinality(frame[t].asked) - cut

Covered ==
    ~overlapped =>
        /\ \A p \in Processes : cache[p].key # None => OfPrefix(cache[p].key, cache[p].value)
        /\ \A t \in Threads :
            /\ frame[t].asked \subseteq acked
            /\ frame[t].key # None => Answers(t, RunsIn(SubSeq(log, 1, frame[t].key)))
            /\ pc[t] = "store" =>
                    frame[t].key # None /\ OfPrefix(frame[t].key, frame[t].value)
            /\ pc[t] \in {"compare", "store", "answered"} =>
                    Answers(t, frame[t].value.totals.runs)

KInv == HInv /\ WrittenOnce /\ Accounted /\ Carried /\ Covered

------------------------------------------------------------------------------
(* Bytes.                                                                  *)

LEMMA EntriesAreNumbers == Entries \subseteq Nat /\ Bytes \subseteq Nat \X Nat
  BY HistoryAssumption DEF Entries, Bytes

LEMMA LogIsThere == None \notin Seq(Bytes) /\ None \notin Seq(Entries)
<1>1. \A s \in Seq(Bytes) : s \in Seq(Nat \X Nat)
  BY EntriesAreNumbers, SeqMonotonic
<1> QED
  BY <1>1, HistoryAssumption

LEMMA LogIsBytes ==
    ASSUME FileTypes
    PROVE  LogBytes \in Seq(Bytes) /\ (log # None => log = LogBytes)
  BY EmptySeq DEF FileTypes, LogBytes

(* What a part of a line does to the log.                                  *)
LEMMA PartIsAppended ==
    ASSUME FileTypes, NEW e \in Entries, NEW n \in 0 .. 4,
           log' = LogBytes \o SubSeq(Line(e), 1, n)
    PROVE  log' \in Seq(Bytes) /\ \E x \in Seq(Bytes) : log' = LogBytes \o x
  BY LineIsBytes, LogIsBytes, ConcatProperties

LEMMA NoFrameTyped == FrameTypes(NoFrame)
<1>1. << >> \in Seq(Entries)
  BY EmptySeq
<1> QED
  BY <1>1 DEF FrameTypes, NoFrame, Fields

LEMMA TypesFollow == Shapes => TypeOK
<1> SUFFICES ASSUME Shapes
             PROVE  TypeOK
  OBVIOUS
<1>1. \A t \in Threads :
        /\ frame[t].op \in {"none", "append", "summary", "tail"}
        /\ frame[t].entry \in Entries \cup {0}
        /\ frame[t].found \in Seq(Entries)
        /\ frame[t].key \in Nat \cup {None}
        /\ frame[t].asked \subseteq Entries
  BY DEF Shapes, FramesTyped, FrameTypes
<1> QED
  BY <1>1 DEF Shapes, FileTypes, OtherTypes, TypeOK, Bytes

LEMMA FirstClock ==
    ASSUME Init
    PROVE  original \subseteq Entries /\ \A e \in original : e <= clock
<1>1. original \subseteq Entries
  <2>1. CASE legacy = None
    BY <2>1 DEF Init
  <2>2. CASE legacy # None
    <3>1. legacy \in Seq(Entries)
      BY <2>2, HistoryAssumption DEF Init
    <3>2. \A i \in DOMAIN legacy : legacy[i] \in Entries
      BY <3>1, ElementOfSeq, LenProperties
    <3> QED
      BY <2>2, <3>2 DEF Init, ToSet
  <2> QED
    BY <2>1, <2>2
<1> QED
  BY <1>1, EntriesAreFew DEF Init

LEMMA InitHolds == Init => HInv
<1> SUFFICES ASSUME Init
             PROVE  HInv
  OBVIOUS
<1>1. original \subseteq Entries
  BY FirstClock
<1>2. clock \in 0 .. MaxEntries
  <2>1. original \cup {0} \in SUBSET (0 .. MaxEntries) /\ original \cup {0} # {}
    BY <1>1, HistoryAssumption DEF Entries
  <2> QED
    <3>1. MaxEntries \in Nat
      BY HistoryAssumption
    <3>2. Max(original \cup {0}) \in original \cup {0}
      BY <2>1, <3>1, GreatestOf
    <3> QED
      BY <2>1, <3>2 DEF Init
<1>3. Shapes
  <2>1. OtherTypes
    <3>1. /\ lock \in [Processes -> Threads \cup {None}] /\ pc \in [Threads -> PCs]
          /\ acked = {} /\ cut = 0 /\ overlapped = FALSE /\ faults = 0
      BY DEF Init, PCs
    <3>2. DOMAIN cache = Processes /\ \A p \in Processes : cache[p].key \in Nat \cup {None}
      BY DEF Init, EmptyCache
    <3>3. 0 \in 0 .. MaxFaults
      BY HistoryAssumption
    <3> QED
      BY <1>2, <3>1, <3>2, <3>3 DEF OtherTypes
  <2>2. FileTypes
    BY DEF Init, FileTypes
  <2>3. FramesTyped
    BY NoFrameTyped DEF Init, FramesTyped
  <2> QED
    BY <2>1, <2>2, <2>3 DEF Shapes
<1>4. Calls
  BY DEF Init, Calls, CallFits, AppenderHasLock, NoFrame
<1>5. ConvertsAlone
  BY DEF Init, ConvertsAlone, Exclusive, Converting
<1>6. SummariesFit
  BY DEF Init, SummariesFit, Fits, Reached, EmptyCache, NoFrame
<1> QED
  BY <1>3, <1>4, <1>5, <1>6 DEF HInv

------------------------------------------------------------------------------
(* A step of one thread.                                                   *)

(* The others are where they were, and keep the lock.                      *)
Alone(t) ==
    \A u \in Threads \ {t} :
        /\ pc'[u] = pc[u] /\ frame'[u] = frame[u]
        /\ lock[Home[u]] = u => lock'[Home[u]] = u

ThreadStep(t) == ConvertStep(t) \/ AppendStep(t) \/ ReadStep(t)

LEMMA Home_ == \A t \in Threads : Home[t] \in Processes /\ t # None
  BY HistoryAssumption

LEMMA Going ==
    ASSUME Shapes, NEW t \in Threads, NEW there \in PCs, GoTo(t, there)
    PROVE  /\ pc' \in [Threads -> PCs] /\ pc'[t] = there
           /\ \A u \in Threads \ {t} : pc'[u] = pc[u]
  BY DEF Shapes, OtherTypes, GoTo

LEMMA Leaving ==
    ASSUME Shapes, NEW t \in Threads, Leave(t)
    PROVE  /\ pc' \in [Threads -> PCs] /\ pc'[t] = "idle"
           /\ lock' \in [Processes -> Threads \cup {None}]
           /\ FramesTyped' /\ frame'[t] = NoFrame
           /\ Alone(t)
<1>1. pc' \in [Threads -> PCs] /\ pc'[t] = "idle" /\ \A u \in Threads \ {t} : pc'[u] = pc[u]
  BY Going DEF Leave, PCs
<1>2. frame'[t] = NoFrame /\ DOMAIN frame' = Threads /\ \A u \in Threads \ {t} : frame'[u] = frame[u]
  BY DEF Leave, Shapes, FramesTyped
<1>3. FramesTyped'
  BY <1>2, NoFrameTyped DEF Shapes, FramesTyped, FrameTypes
<1>4. lock' \in [Processes -> Threads \cup {None}]
  BY DEF Leave, Shapes, OtherTypes
<1>5. \A u \in Threads \ {t} : lock[Home[u]] = u => lock'[Home[u]] = u
  BY Home_ DEF Leave, Shapes, OtherTypes
<1> QED
  BY <1>1, <1>2, <1>3, <1>4, <1>5 DEF Alone

LEMMA Framing ==
    ASSUME Shapes, NEW t \in Threads, NEW f, FrameTypes(f), frame' = [frame EXCEPT ![t] = f]
    PROVE  /\ FramesTyped' /\ frame'[t] = f
           /\ \A u \in Threads \ {t} : frame'[u] = frame[u]
  BY DEF Shapes, FramesTyped, FrameTypes

LEMMA FaultCounts == Shapes /\ (faults' = faults \/ Fault) => faults' \in 0 .. MaxFaults
  BY HistoryAssumption DEF Fault, Shapes, OtherTypes

Kept(t) == Shapes' /\ Alone(t) /\ CallFits(t)' /\ AppenderHasLock(t)'

LEMMA LeavingKeeps ==
    ASSUME Shapes, NEW t \in Threads, Leave(t), FileTypes',
           UNCHANGED <<cache, clock, overlapped>>,
           faults' \in 0 .. MaxFaults, acked' \subseteq Entries, cut' \in Nat
    PROVE  Kept(t)
<1>1. OtherTypes'
  BY Leaving DEF Shapes, OtherTypes
<1>2. CallFits(t)' /\ AppenderHasLock(t)'
  BY Leaving DEF CallFits, AppenderHasLock, NoFrame
<1> QED
  BY <1>1, <1>2, Leaving DEF Kept, Shapes

LEMMA ProceedingKeeps ==
    ASSUME Shapes, Calls, NEW t \in Threads, NEW there \in PCs, GoTo(t, there), FileTypes',
           DOMAIN cache' = Processes /\ \A p \in Processes : cache'[p].key \in Nat \cup {None},
           overlapped' \in BOOLEAN, faults' \in 0 .. MaxFaults,
           UNCHANGED <<frame, lock, clock, acked, cut>>,
           CallFits(t)', pc[t] # "lock"
    PROVE  Kept(t)
<1>1. /\ pc' \in [Threads -> PCs] /\ pc'[t] = there
      /\ \A u \in Threads \ {t} : pc'[u] = pc[u]
  BY Going
<1>2. Shapes'
  BY <1>1 DEF Shapes, OtherTypes, FramesTyped, FrameTypes
<1>3. AppenderHasLock(t)'
  BY DEF Calls, AppenderHasLock
<1> QED
  BY <1>1, <1>2, <1>3 DEF Kept, Alone

LEMMA ConvertKeeps ==
    ASSUME Shapes, Calls, NEW t \in Threads, ConvertStep(t)
    PROVE  Kept(t)
<1>1. ASSUME CheckStores(t)
      PROVE  Kept(t)
  <2>1. CASE GoTo(t, AfterMigration(t))
    <3>1. AfterMigration(t) \in {"write", "load"} /\ (AfterMigration(t) = "write" <=> frame[t].op = "append")
      BY DEF AfterMigration
    <3>2. pc'[t] = AfterMigration(t)
      BY <2>1, <3>1, Going DEF PCs
    <3>3. CallFits(t)'
      <4>1. frame[t].op \in {"append", "summary", "tail"}
        BY <1>1 DEF CheckStores, Calls, CallFits, Shapes, FramesTyped, FrameTypes
      <4> QED
        BY <1>1, <3>1, <3>2, <4>1 DEF CheckStores, Calls, CallFits
    <3>4. overlapped' \in BOOLEAN /\ UNCHANGED <<fileVars, lock, cache, frame, clock, faults, acked, cut>>
      BY <1>1 DEF CheckStores, Shapes, OtherTypes
    <3> QED
      BY <1>1, <2>1, <3>1, <3>3, <3>4, ProceedingKeeps
      DEF CheckStores, fileVars, Shapes, FileTypes, OtherTypes, PCs
  <2>2. CASE GoTo(t, "read")
    <3>1. pc'[t] = "read"
      BY <2>2, Going DEF PCs, Converting
    <3>2. CallFits(t)'
      BY <1>1, <3>1 DEF CheckStores, Calls, CallFits
    <3>3. overlapped' \in BOOLEAN /\ UNCHANGED <<fileVars, lock, cache, frame, clock, faults, acked, cut>>
      BY <1>1 DEF CheckStores, Shapes, OtherTypes
    <3> QED
      BY <1>1, <2>2, <3>2, <3>3, ProceedingKeeps
      DEF CheckStores, fileVars, Shapes, FileTypes, OtherTypes, PCs, Converting
  <2> QED
    BY <1>1, <2>1, <2>2 DEF CheckStores
<1>2. ASSUME ReadLegacy(t)
      PROVE  Kept(t)
  <2> DEFINE found == IF legacy = None THEN << >> ELSE legacy
             f == [frame[t] EXCEPT !.found = found]
  <2>1. found \in Seq(Entries)
    BY HistoryAssumption, EmptySeq DEF Shapes, FileTypes
  <2>2. FrameTypes(f) /\ f.op = frame[t].op /\ f.entry = frame[t].entry
    BY <2>1 DEF Shapes, FramesTyped, FrameTypes, Fields
  <2>3. /\ FramesTyped' /\ frame'[t] = f
        /\ \A u \in Threads \ {t} : frame'[u] = frame[u]
    <3>1. frame' = [frame EXCEPT ![t] = f]
      BY <1>2 DEF ReadLegacy
    <3> HIDE DEF f
    <3> QED
      BY <2>2, <3>1, Framing
  <2>4. /\ pc' \in [Threads -> PCs] /\ pc'[t] = "fill"
        /\ \A u \in Threads \ {t} : pc'[u] = pc[u]
    BY <1>2, Going DEF ReadLegacy, PCs, Converting
  <2>5. UNCHANGED <<fileVars, lock, cache, clock, faults, acked, cut, overlapped>>
    BY <1>2 DEF ReadLegacy, seenVars
  <2>6. FileTypes' /\ OtherTypes'
    BY <2>4, <2>5 DEF Shapes, FileTypes, OtherTypes, fileVars
  <2>7. CallFits(t)' /\ AppenderHasLock(t)'
    BY <1>2, <2>2, <2>3, <2>4, <2>5 DEF ReadLegacy, Calls, CallFits, AppenderHasLock
  <2> QED
    BY <2>3, <2>4, <2>5, <2>6, <2>7 DEF Kept, Shapes, Alone
<1>3. ASSUME FillTemp(t)
      PROVE  Kept(t)
  <2>1. /\ UNCHANGED <<log, legacy, cache, clock, acked, cut, overlapped>>
        /\ temp' \in Seq(Entries) /\ faults' \in 0 .. MaxFaults
    <3>1. frame[t].found \in Seq(Entries) /\ << >> \in Seq(Entries)
      BY EmptySeq DEF Shapes, FramesTyped, FrameTypes
    <3>2. faults' = faults \/ Fault
      BY <1>3 DEF FillTemp
    <3>3. faults' \in 0 .. MaxFaults
      BY <3>2, FaultCounts
    <3> QED
      BY <1>3, <3>1, <3>3 DEF FillTemp, seenVars
  <2>2. FileTypes'
    BY <2>1 DEF Shapes, FileTypes
  <2>3. CASE Leave(t)
    BY <2>1, <2>2, <2>3, LeavingKeeps DEF Shapes, OtherTypes
  <2>4. CASE Proceed(t, "replace")
    <3>1. GoTo(t, "replace") /\ UNCHANGED <<frame, lock>> /\ "replace" \in PCs
      BY <2>4 DEF Proceed, PCs, Converting
    <3>2. CallFits(t)'
      BY <1>3, <3>1, Going DEF FillTemp, Calls, CallFits
    <3> QED
      BY <1>3, <2>1, <2>2, <3>1, <3>2, ProceedingKeeps DEF FillTemp, Shapes, OtherTypes
  <2> QED
    BY <1>3, <2>3, <2>4 DEF FillTemp
<1>4. ASSUME ReplaceLog(t)
      PROVE  Kept(t)
  <2>1. UNCHANGED <<legacy, cache, clock, faults, acked, cut, overlapped>>
    BY <1>4 DEF ReplaceLog, seenVars
  <2>2. FileTypes'
    BY <1>4, LinesAre DEF ReplaceLog, Shapes, FileTypes
  <2>3. CASE Leave(t)
    BY <2>1, <2>2, <2>3, LeavingKeeps DEF Shapes, OtherTypes
  <2>4. CASE Proceed(t, "rename")
    <3>1. GoTo(t, "rename") /\ UNCHANGED <<frame, lock>> /\ "rename" \in PCs
      BY <2>4 DEF Proceed, PCs, Converting
    <3>2. CallFits(t)'
      BY <1>4, <3>1, Going DEF ReplaceLog, Calls, CallFits
    <3> QED
      BY <1>4, <2>1, <2>2, <3>1, <3>2, ProceedingKeeps DEF ReplaceLog, Shapes, OtherTypes
  <2> QED
    BY <1>4, <2>3, <2>4 DEF ReplaceLog
<1>5. ASSUME RenameLegacy(t)
      PROVE  Kept(t)
  <2>1. UNCHANGED <<log, temp, cache, clock, faults, acked, cut, overlapped>>
    BY <1>5 DEF RenameLegacy, seenVars
  <2>2. FileTypes'
    BY <1>5 DEF RenameLegacy, Shapes, FileTypes
  <2>3. CASE Leave(t)
    BY <2>1, <2>2, <2>3, LeavingKeeps DEF Shapes, OtherTypes
  <2>4. CASE Proceed(t, AfterMigration(t))
    <3>1. /\ AfterMigration(t) \in {"write", "load"}
          /\ AfterMigration(t) = "write" <=> frame[t].op = "append"
      BY DEF AfterMigration
    <3>2. GoTo(t, AfterMigration(t)) /\ UNCHANGED <<frame, lock>> /\ AfterMigration(t) \in PCs
      BY <2>4, <3>1 DEF Proceed, PCs
    <3>3. CallFits(t)'
      <4>1. frame[t].op \in {"append", "summary", "tail"}
        BY <1>5 DEF RenameLegacy, Calls, CallFits, Shapes, FramesTyped, FrameTypes
      <4>2. pc'[t] = AfterMigration(t)
        BY <3>2, Going
      <4> QED
        BY <1>5, <3>1, <3>2, <4>1, <4>2 DEF RenameLegacy, Calls, CallFits
    <3> QED
      BY <1>5, <2>1, <2>2, <3>2, <3>3, ProceedingKeeps DEF RenameLegacy, Shapes, OtherTypes
  <2> QED
    BY <1>5, <2>3, <2>4 DEF RenameLegacy
<1> QED
  BY <1>1, <1>2, <1>3, <1>4, <1>5 DEF ConvertStep

LEMMA WrittenLog ==
    ASSUME FileTypes, NEW e \in Entries, UNCHANGED <<legacy, temp>>,
           \/ log' = LogBytes \o Line(e)
           \/ \E n \in 0 .. 4 : log' = LogBytes \o SubSeq(Line(e), 1, n)
    PROVE  FileTypes' /\ \E x \in Seq(Bytes) : log' = LogBytes \o x
<1>1. log' \in Seq(Bytes) /\ \E x \in Seq(Bytes) : log' = LogBytes \o x
  <2>1. CASE log' = LogBytes \o Line(e)
    <3>1. Line(e) \in Seq(Bytes) /\ LogBytes \in Seq(Bytes)
      BY LineIsBytes, LogIsBytes
    <3> QED
      BY <2>1, <3>1, ConcatProperties, Zenon
  <2>2. CASE \E n \in 0 .. 4 : log' = LogBytes \o SubSeq(Line(e), 1, n)
    BY <2>2, PartIsAppended, Zenon
  <2> QED
    BY <2>1, <2>2
<1> QED
  BY <1>1 DEF FileTypes

LEMMA AppendKeeps ==
    ASSUME Shapes, Calls, NEW t \in Threads, AppendStep(t)
    PROVE  Kept(t)
<1>1. ASSUME MakeEntry(t)
      PROVE  Kept(t)
  <2> DEFINE f == [NoFrame EXCEPT !.op = "append", !.asked = {},
                                  !.entry = clock + 1, !.key = None]
  <2>1. clock + 1 \in Entries /\ clock' = clock + 1 /\ clock' \in 0 .. MaxEntries
    BY <1>1, HistoryAssumption DEF MakeEntry, Entries, Shapes, OtherTypes
  <2>2. FrameTypes(f) /\ f.op = "append" /\ f.entry \in Entries
    BY <2>1, NoFrameTyped DEF FrameTypes, NoFrame, Fields
  <2>3. frame' = [frame EXCEPT ![t] = f] /\ GoTo(t, "lock") /\ "lock" \in PCs
    BY <1>1 DEF MakeEntry, Enter, PCs
  <2>4. /\ FramesTyped' /\ frame'[t] = f
        /\ \A u \in Threads \ {t} : frame'[u] = frame[u]
    BY <2>2, <2>3, Framing
  <2>5. /\ pc' \in [Threads -> PCs] /\ pc'[t] = "lock"
        /\ \A u \in Threads \ {t} : pc'[u] = pc[u]
    BY <2>3, Going
  <2>6. UNCHANGED <<fileVars, lock, cache, faults, acked, cut, overlapped>>
    BY <1>1 DEF MakeEntry, seenVars
  <2>7. FileTypes' /\ OtherTypes'
    BY <2>1, <2>5, <2>6 DEF Shapes, FileTypes, OtherTypes, fileVars
  <2>8. CallFits(t)' /\ AppenderHasLock(t)'
    BY <2>2, <2>4, <2>5 DEF CallFits, AppenderHasLock
  <2> QED
    BY <2>4, <2>5, <2>6, <2>7, <2>8 DEF Kept, Shapes, Alone
<1>2. ASSUME TakeLock(t)
      PROVE  Kept(t)
  <2>1. /\ pc' \in [Threads -> PCs] /\ pc'[t] = "check"
        /\ \A u \in Threads \ {t} : pc'[u] = pc[u]
    BY <1>2, Going DEF TakeLock, PCs
  <2>2. UNCHANGED <<fileVars, cache, frame, clock, faults, acked, cut, overlapped>>
    BY <1>2 DEF TakeLock, seenVars
  <2>3. /\ lock' \in [Processes -> Threads \cup {None}] /\ lock'[Home[t]] = t
        /\ \A u \in Threads \ {t} : lock[Home[u]] = u => lock'[Home[u]] = u
    BY <1>2, Home_ DEF TakeLock, Shapes, OtherTypes
  <2>4. Shapes'
    BY <2>1, <2>2, <2>3 DEF Shapes, FileTypes, OtherTypes, fileVars, FramesTyped, FrameTypes
  <2>5. CallFits(t)' /\ AppenderHasLock(t)'
    BY <1>2, <2>1, <2>2, <2>3 DEF TakeLock, Calls, CallFits, AppenderHasLock
  <2> QED
    BY <2>1, <2>2, <2>3, <2>4, <2>5 DEF Kept, Alone
<1>3. ASSUME WriteEntry(t) \/ WriteFails(t)
      PROVE  Kept(t)
  <2>1. frame[t].entry \in Entries
    BY <1>3 DEF WriteEntry, WriteFails, Calls, CallFits
  <2>2. /\ UNCHANGED <<legacy, temp, cache, clock, overlapped>> /\ Leave(t)
        /\ faults' = faults \/ Fault
    BY <1>3 DEF WriteEntry, WriteFails
  <2>3. acked' \subseteq Entries
    BY <1>3, <2>1 DEF WriteEntry, WriteFails, Shapes, OtherTypes
  <2>4. cut' \in Nat
    BY <1>3 DEF WriteEntry, WriteFails, WritePart, Shapes, OtherTypes
  <2>5. FileTypes'
    <3>1. \/ log' = LogBytes \o Line(frame[t].entry)
          \/ \E n \in 0 .. 4 : log' = LogBytes \o SubSeq(Line(frame[t].entry), 1, n)
      <4>1. \A n \in 0 .. 3 : n \in 0 .. 4
        OBVIOUS
      <4>2. CASE WriteEntry(t)
        BY <4>2 DEF WriteEntry
      <4>3. CASE WriteFails(t)
        <5>1. PICK n \in 0 .. 3 : WritePart(t, n)
          BY <4>3 DEF WriteFails
        <5> QED
          BY <4>1, <5>1 DEF WritePart
      <4> QED
        BY <1>3, <4>2, <4>3
    <3> QED
      BY <2>1, <2>2, <3>1, WrittenLog DEF Shapes
  <2> QED
    BY <2>2, <2>3, <2>4, <2>5, FaultCounts, LeavingKeeps
<1> QED
  BY <1>1, <1>2, <1>3 DEF AppendStep

LEMMA NewValue ==
    ASSUME Shapes, NEW t \in Threads, NEW value, frame' = [frame EXCEPT ![t].value = value]
    PROVE  /\ FramesTyped'
           /\ frame'[t] = [frame[t] EXCEPT !.value = value]
           /\ frame'[t].op = frame[t].op /\ frame'[t].key = frame[t].key
           /\ frame'[t].value = value
           /\ \A u \in Threads \ {t} : frame'[u] = frame[u]
<1> DEFINE f == [frame[t] EXCEPT !.value = value]
<1>1. /\ FrameTypes(f) /\ f.op = frame[t].op /\ f.entry = frame[t].entry
      /\ f.value = value /\ f.key = frame[t].key
  BY DEF Shapes, FramesTyped, FrameTypes, Fields
<1>2. frame' = [frame EXCEPT ![t] = f]
  OBVIOUS
<1> QED
  BY <1>1, <1>2, Framing

LEMMA ReadKeeps ==
    ASSUME Shapes, Calls, NEW t \in Threads, ReadStep(t)
    PROVE  Kept(t)
<1>1. ASSUME ReadTail(t) \/ AskSummary(t)
      PROVE  Kept(t)
  <2>1. PICK what \in {"tail", "summary"}, asked \in {{}, acked}, there \in {"check", "look"} :
            Enter(t, what, asked, there) /\ (there = "look" => what = "summary")
    BY <1>1 DEF ReadTail, AskSummary
  <2> DEFINE f == [NoFrame EXCEPT !.op = what, !.asked = asked, !.entry = 0,
                                  !.key = IF what = "summary" THEN Fingerprint ELSE None]
  <2>2. Fingerprint \in Nat \cup {None}
    BY LenProperties DEF Fingerprint, Shapes, FileTypes
  <2>3. FrameTypes(f) /\ f.op = what
    BY <2>1, <2>2, NoFrameTyped DEF FrameTypes, NoFrame, Fields, Shapes, OtherTypes
  <2>4. frame' = [frame EXCEPT ![t] = f] /\ GoTo(t, there) /\ there \in PCs
    BY <2>1 DEF Enter, PCs
  <2>5. /\ FramesTyped' /\ frame'[t] = f
        /\ \A u \in Threads \ {t} : frame'[u] = frame[u]
    BY <2>3, <2>4, Framing
  <2>6. /\ pc' \in [Threads -> PCs] /\ pc'[t] = there
        /\ \A u \in Threads \ {t} : pc'[u] = pc[u]
    BY <2>4, Going
  <2>7. UNCHANGED <<fileVars, lock, cache, clock, faults, acked, cut, overlapped>>
    BY <1>1 DEF ReadTail, AskSummary, seenVars
  <2>8. FileTypes' /\ OtherTypes'
    BY <2>6, <2>7 DEF Shapes, FileTypes, OtherTypes, fileVars
  <2>9. CallFits(t)' /\ AppenderHasLock(t)'
    BY <2>1, <2>3, <2>5, <2>6 DEF CallFits, AppenderHasLock
  <2> QED
    BY <2>5, <2>6, <2>7, <2>8, <2>9 DEF Kept, Shapes, Alone
<1>2. ASSUME NEW there \in {"check", "answered", "compare"},
             pc[t] \in {"look", "load"}, frame[t].op \in {"summary", "tail"},
             there # "check" => frame[t].op = "summary",
             GoTo(t, there),
             FramesTyped', frame'[t].op = frame[t].op,
             \A u \in Threads \ {t} : frame'[u] = frame[u],
             UNCHANGED <<fileVars, lock, cache, clock, faults, acked, cut, overlapped>>
      PROVE  Kept(t)
  <2>1. /\ pc' \in [Threads -> PCs] /\ pc'[t] = there
        /\ \A u \in Threads \ {t} : pc'[u] = pc[u]
    BY <1>2, Going DEF PCs
  <2>2. FileTypes' /\ OtherTypes'
    BY <1>2, <2>1 DEF Shapes, FileTypes, OtherTypes, fileVars
  <2>3. CallFits(t)' /\ AppenderHasLock(t)'
    BY <1>2, <2>1 DEF CallFits, AppenderHasLock
  <2> QED
    BY <1>2, <2>1, <2>2, <2>3 DEF Kept, Shapes, Alone
<1>3. ASSUME LookInCache(t)
      PROVE  Kept(t)
  <2>1. /\ UNCHANGED <<fileVars, lock, cache, clock, faults, acked, cut, overlapped>>
        /\ frame[t].op = "summary" /\ pc[t] \in {"look", "load"}
    BY <1>3 DEF LookInCache, seenVars, Calls, CallFits
  <2>2. CASE GoTo(t, "check") /\ UNCHANGED frame
    <3>1. FramesTyped'
      BY <2>2 DEF Shapes, FramesTyped, FrameTypes
    <3> QED
      BY <1>2, <2>1, <2>2, <3>1
  <2>3. CASE GoTo(t, "answered") /\ frame' = [frame EXCEPT ![t].value = cache[Home[t]].value]
    BY <1>2, <2>1, <2>3, NewValue
  <2> QED
    BY <1>3, <2>2, <2>3 DEF LookInCache
<1>4. ASSUME Load(t)
      PROVE  Kept(t)
  <2>1. /\ UNCHANGED <<fileVars, cache, clock, faults, acked, cut, overlapped>>
        /\ FileTypes' /\ frame[t].op # "append" /\ pc[t] = "load"
    BY <1>4 DEF Load, seenVars, fileVars, Shapes, FileTypes, Calls, CallFits
  <2>2. CASE Leave(t)
    BY <2>1, <2>2, LeavingKeeps DEF Shapes, OtherTypes
  <2>3. CASE frame[t].op # "tail" /\ Proceed(t, "unreadable")
    <3>1. GoTo(t, "unreadable") /\ UNCHANGED <<frame, lock>> /\ "unreadable" \in PCs
      BY <2>3 DEF Proceed, PCs
    <3>2. frame[t].op = "summary"
      BY <1>4, <2>1, <2>3 DEF Calls, CallFits
    <3>3. CallFits(t)'
      BY <2>1, <3>1, <3>2, Going DEF Calls, CallFits
    <3> QED
      BY <2>1, <3>1, <3>3, ProceedingKeeps DEF Shapes, OtherTypes
  <2>4. CASE /\ frame[t].op # "tail"
             /\ frame' = [frame EXCEPT ![t].value = SummaryOf(log)]
             /\ GoTo(t, "compare") /\ UNCHANGED lock
    <3>1. frame[t].op = "summary"
      BY <1>4, <2>1, <2>4 DEF Calls, CallFits
    <3>2. UNCHANGED <<fileVars, lock, cache, clock, faults, acked, cut, overlapped>>
      BY <2>1, <2>4
    <3>3. /\ FramesTyped' /\ frame'[t].op = frame[t].op
          /\ \A u \in Threads \ {t} : frame'[u] = frame[u]
      BY <2>4, NewValue
    <3> QED
      BY <1>2, <2>1, <2>4, <3>1, <3>2, <3>3
  <2> QED
    BY <1>4, <2>2, <2>3, <2>4 DEF Load
<1>5. ASSUME Compare(t) \/ Store(t)
      PROVE  Kept(t)
  <2>1. PICK there \in {"store", "answered"} : GoTo(t, there)
    BY <1>5 DEF Compare, Store
  <2>2. there \in PCs /\ pc'[t] = there
    BY <2>1, Going DEF PCs
  <2>3. /\ UNCHANGED <<fileVars, lock, frame, clock, faults, acked, cut, overlapped>>
        /\ pc[t] \in {"compare", "store"}
    BY <1>5 DEF Compare, Store, seenVars
  <2>4. DOMAIN cache' = Processes /\ \A p \in Processes : cache'[p].key \in Nat \cup {None}
    <3>1. CASE Compare(t)
      BY <3>1 DEF Compare, Shapes, OtherTypes
    <3>2. CASE Store(t)
      BY <3>2, Home_ DEF Store, Shapes, OtherTypes, FramesTyped, FrameTypes
    <3> QED
      BY <1>5, <3>1, <3>2
  <2>5. FileTypes' /\ CallFits(t)'
    BY <2>2, <2>3 DEF fileVars, Shapes, FileTypes, Calls, CallFits
  <2> QED
    BY <2>1, <2>2, <2>3, <2>4, <2>5, ProceedingKeeps DEF Shapes, OtherTypes
<1>6. ASSUME Return(t)
      PROVE  Kept(t)
  <2>1. UNCHANGED <<fileVars, cache, clock, faults, acked, cut, overlapped>> /\ Leave(t)
    BY <1>6 DEF Return, seenVars
  <2> QED
    BY <2>1, LeavingKeeps DEF fileVars, Shapes, FileTypes, OtherTypes
<1> QED
  BY <1>1, <1>3, <1>4, <1>5, <1>6 DEF ReadStep

LEMMA ThreadKeeps ==
    ASSUME Shapes, Calls, NEW t \in Threads, ThreadStep(t)
    PROVE  Shapes' /\ Calls' /\ Alone(t)
<1>1. Kept(t)
  BY ConvertKeeps, AppendKeeps, ReadKeeps DEF ThreadStep
<1>2. ASSUME NEW u \in Threads
      PROVE  CallFits(u)' /\ AppenderHasLock(u)'
  BY <1>1, <1>2 DEF Kept, Alone, Calls, CallFits, AppenderHasLock
<1> QED
  BY <1>1, <1>2 DEF Kept, Calls

------------------------------------------------------------------------------
(* The log while conversions exclude each other.                           *)

(* Only bytes are added to a log that is there, and the older store does   *)
(* not come back.                                                          *)
Grown ==
    /\ log = None \/ \E x \in Seq(Bytes) : log' = log \o x
    /\ log # None => log' # None
    /\ legacy = None => legacy' = None

(* No other thread is converting when t begins or changes the files.       *)
Undisturbed(t) ==
    \A u \in Threads \ {t} : pc[u] \in Converting =>
        /\ pc'[t] \notin Converting
        /\ pc[u] # "rename" => UNCHANGED <<log, legacy>>
        /\ legacy' = legacy

LEMMA NoBytes ==
    ASSUME FileTypes, log' = log
    PROVE  log = None \/ \E x \in Seq(Bytes) : log' = log \o x
  BY LogIsBytes, EmptySeq, ConcatEmptySeq

LEMMA LogGrows ==
    ASSUME FileTypes, NEW x \in Seq(Bytes), log' = LogBytes \o x
    PROVE  /\ log' # None
           /\ log = None \/ \E y \in Seq(Bytes) : log' = log \o y
  BY LogIsBytes, ConcatProperties, LogIsThere

LEMMA QuietStep ==
    ASSUME HInv, NEW t \in Threads, UNCHANGED <<log, legacy>>, ~overlapped,
           pc'[t] \notin Converting,
           pc'[t] \in {"write", "load", "compare", "store"} =>
               \/ pc[t] \in {"load", "compare", "store"}
               \/ log # None \/ legacy = None
    PROVE  Grown /\ Undisturbed(t) /\ Exclusive(t)'
<1>1. Grown
  BY NoBytes DEF Grown, HInv, Shapes
<1>2. Exclusive(t)'
  BY DEF Exclusive, HInv, ConvertsAlone, Converting
<1> QED
  BY <1>1, <1>2 DEF Undisturbed

LEMMA ConvertAlone ==
    ASSUME HInv, NEW t \in Threads, ConvertStep(t), ~overlapped'
    PROVE  ~overlapped /\ Grown /\ Undisturbed(t) /\ Exclusive(t)'
<1>0. /\ Shapes /\ Calls /\ ConvertsAlone /\ FileTypes
      /\ Alone(t) /\ Shapes'
  BY ThreadKeeps DEF HInv, Shapes, ThreadStep
<1>1. ASSUME CheckStores(t)
      PROVE  ~overlapped /\ Grown /\ Undisturbed(t) /\ Exclusive(t)'
  <2>1. ~overlapped /\ UNCHANGED <<log, legacy>> /\ pc[t] = "check"
    BY <1>1 DEF CheckStores, fileVars
  <2>2. CASE /\ log # None \/ legacy = None
             /\ GoTo(t, AfterMigration(t))
    <3>1. pc'[t] \in {"write", "load"}
      BY <1>0, <2>2, Going DEF AfterMigration, PCs
    <3> QED
      BY <2>1, <2>2, <3>1, QuietStep DEF Converting
  <2>3. CASE log = None /\ legacy # None
    <3>1. pc'[t] = "read"
      BY <1>0, <1>1, <2>3, Going DEF CheckStores, PCs, Converting
    <3>2. ASSUME NEW u \in Threads \ {t}, pc[u] \in Converting
          PROVE  FALSE
      <4>1. UnderOneLock(t, u)
        BY <1>1, <2>3, <3>2 DEF CheckStores
      <4> QED
        BY <1>0, <2>1, <3>2, <4>1 DEF UnderOneLock, Calls, AppenderHasLock, Converting
    <3>3. Undisturbed(t) /\ Grown
      BY <2>3, <2>1, <3>2 DEF Undisturbed, Grown
    <3>4. Exclusive(t)'
      BY <1>0, <2>1, <2>3, <3>1, <3>2 DEF Exclusive, Alone, Converting
    <3> QED
      BY <2>1, <3>3, <3>4
  <2> QED
    BY <1>1, <2>2, <2>3 DEF CheckStores
<1>2. ASSUME ReadLegacy(t) \/ FillTemp(t) \/ ReplaceLog(t) \/ RenameLegacy(t)
      PROVE  ~overlapped /\ Grown /\ Undisturbed(t) /\ Exclusive(t)'
  <2>1. ~overlapped /\ pc[t] \in Converting
    BY <1>2 DEF ReadLegacy, FillTemp, ReplaceLog, RenameLegacy, seenVars, Converting
  <2>2. Exclusive(t) /\ \A u \in Threads \ {t} : pc[u] \notin Converting
    BY <1>0, <2>1 DEF ConvertsAlone, Exclusive
  <2>3. Undisturbed(t)
    BY <2>2 DEF Undisturbed
  <2>4. \A u \in Threads \ {t} : pc'[u] \notin Converting
    BY <1>0, <2>2 DEF Alone
  <2>5. CASE ReadLegacy(t) \/ FillTemp(t)
    <3>1. UNCHANGED <<log, legacy>> /\ pc[t] \in {"read", "fill"}
      BY <2>5 DEF ReadLegacy, FillTemp, fileVars
    <3>2. pc'[t] \in {"fill", "replace", "idle"}
      BY <1>0, <2>5, Going, Leaving DEF ReadLegacy, FillTemp, Proceed, PCs, Converting
    <3>3. Exclusive(t)'
      BY <2>2, <2>4, <3>1, <3>2 DEF Exclusive
    <3> QED
      BY <1>0, <2>1, <2>3, <3>1, <3>3, NoBytes DEF Grown
  <2>6. CASE ReplaceLog(t)
    <3>1. log = None /\ legacy' = legacy
      BY <2>2, <2>6 DEF ReplaceLog, Exclusive
    <3>2. \/ log' # None /\ pc'[t] = "rename"
          \/ pc'[t] = "idle"
      BY <1>0, <2>6, Going, Leaving, LinesAre, LogIsThere
      DEF ReplaceLog, Proceed, PCs, Converting, FileTypes
    <3>3. Exclusive(t)'
      BY <2>4, <3>2 DEF Exclusive
    <3> QED
      BY <2>1, <2>3, <3>1, <3>3 DEF Grown
  <2>7. CASE RenameLegacy(t)
    <3>1. log' = log /\ log # None /\ (legacy = None => legacy' = None)
      BY <2>2, <2>7 DEF RenameLegacy, Exclusive
    <3>2. pc'[t] \in {"write", "load", "idle"}
      BY <1>0, <2>7, Going, Leaving DEF RenameLegacy, Proceed, PCs, AfterMigration
    <3>3. Exclusive(t)'
      BY <2>4, <3>1, <3>2 DEF Exclusive, Converting
    <3> QED
      BY <1>0, <2>1, <2>3, <3>1, <3>3, NoBytes DEF Grown
  <2> QED
    BY <1>2, <2>5, <2>6, <2>7
<1> QED
  BY <1>1, <1>2 DEF ConvertStep

LEMMA AppendAlone ==
    ASSUME HInv, NEW t \in Threads, AppendStep(t), ~overlapped'
    PROVE  ~overlapped /\ Grown /\ Undisturbed(t) /\ Exclusive(t)'
<1>0. Shapes /\ Calls /\ ConvertsAlone /\ FileTypes
  BY DEF HInv, Shapes
<1>1. ASSUME MakeEntry(t) \/ TakeLock(t)
      PROVE  ~overlapped /\ Grown /\ Undisturbed(t) /\ Exclusive(t)'
  <2>1. ~overlapped /\ UNCHANGED <<log, legacy>>
    BY <1>1 DEF MakeEntry, TakeLock, fileVars, seenVars
  <2>2. pc'[t] \in {"lock", "check"}
    BY <1>0, <1>1, Going DEF MakeEntry, TakeLock, Enter, PCs
  <2> QED
    BY <2>1, <2>2, QuietStep DEF Converting
<1>2. ASSUME WriteEntry(t) \/ WriteFails(t)
      PROVE  ~overlapped /\ Grown /\ Undisturbed(t) /\ Exclusive(t)'
  <2>1. /\ ~overlapped /\ legacy' = legacy /\ pc[t] = "write" /\ Leave(t)
    BY <1>2 DEF WriteEntry, WriteFails
  <2>2. PICK x \in Seq(Bytes) : log' = LogBytes \o x
    <3>1. frame[t].entry \in Entries
      BY <1>0, <2>1 DEF Calls, CallFits
    <3>2. CASE WriteEntry(t)
      BY <3>1, <3>2, LineIsBytes DEF WriteEntry
    <3>3. CASE WriteFails(t)
      <4>1. PICK n \in 0 .. 3 : WritePart(t, n)
        BY <3>3 DEF WriteFails
      <4>2. n \in 0 .. 4
        OBVIOUS
      <4> QED
        BY <1>0, <3>1, <4>1, <4>2, LineIsBytes DEF WritePart
    <3> QED
      BY <1>2, <3>2, <3>3
  <2>3. Grown
    BY <1>0, <2>1, <2>2, LogGrows DEF Grown
  <2>4. pc'[t] = "idle"
    BY <1>0, <2>1, Leaving
  <2>5. \A u \in Threads : pc[u] \notin {"read", "fill", "replace"}
    BY <1>0, <2>1 DEF ConvertsAlone, Exclusive
  <2>6. Undisturbed(t)
    BY <2>1, <2>4, <2>5 DEF Undisturbed, Converting
  <2>7. Exclusive(t)'
    BY <2>4 DEF Exclusive, Converting
  <2> QED
    BY <2>1, <2>3, <2>6, <2>7
<1> QED
  BY <1>1, <1>2 DEF AppendStep

LEMMA ReadAlone ==
    ASSUME HInv, NEW t \in Threads, ReadStep(t), ~overlapped'
    PROVE  ~overlapped /\ Grown /\ Undisturbed(t) /\ Exclusive(t)'
<1>0. Shapes /\ UNCHANGED <<log, legacy>> /\ ~overlapped
  BY DEF HInv, ReadStep, ReadTail, AskSummary, LookInCache, Load, Compare, Store, Return,
         fileVars, seenVars
<1>1. CASE ReadTail(t) \/ AskSummary(t) \/ LookInCache(t) \/ Return(t)
  <2>1. pc'[t] \in {"check", "look", "answered", "idle"}
    BY <1>0, <1>1, Going, Leaving
    DEF ReadTail, AskSummary, LookInCache, Return, Enter, PCs
  <2> QED
    BY <1>0, <2>1, QuietStep DEF Converting
<1>2. CASE Load(t) \/ Compare(t) \/ Store(t)
  <2>1. pc[t] \in {"load", "compare", "store"}
    BY <1>2 DEF Load, Compare, Store
  <2>2. pc'[t] \in {"idle", "unreadable", "compare", "store", "answered"}
    <3>1. CASE Load(t)
      BY <1>0, <3>1, Going, Leaving DEF Load, Proceed, PCs
    <3>2. CASE Compare(t) \/ Store(t)
      BY <1>0, <3>2, Going DEF Compare, Store, PCs
    <3> QED
      BY <1>2, <3>1, <3>2
  <2> QED
    BY <1>0, <2>1, <2>2, QuietStep DEF Converting
<1> QED
  BY <1>1, <1>2 DEF ReadStep

LEMMA ThreadAlone ==
    ASSUME HInv, NEW t \in Threads, ThreadStep(t)
    PROVE  ConvertsAlone' /\ (~overlapped' => ~overlapped /\ Grown)
<1> SUFFICES ASSUME ~overlapped'
             PROVE  (\A u \in Threads : Exclusive(u)') /\ ~overlapped /\ Grown
  BY DEF ConvertsAlone
<1>1. ~overlapped /\ Grown /\ Undisturbed(t) /\ Exclusive(t)'
  BY ConvertAlone, AppendAlone, ReadAlone DEF ThreadStep
<1>2. Alone(t) /\ \A u \in Threads : Exclusive(u)
  BY <1>1, ThreadKeeps DEF HInv, ConvertsAlone
<1>3. ASSUME NEW u \in Threads \ {t}
      PROVE  Exclusive(u)'
  <2>1. pc'[u] = pc[u] /\ Exclusive(u)
    BY <1>2 DEF Alone
  <2>2. pc[u] \in {"read", "fill", "replace"} => log' = None /\ legacy' # None
    BY <1>1, <2>1 DEF Undisturbed, Exclusive, Converting
  <2>3. pc[u] = "rename" => log' # None
    BY <1>1, <2>1 DEF Grown, Exclusive
  <2>4. pc[u] \in {"write", "load", "compare", "store"} => log' # None \/ legacy' = None
    BY <1>1, <2>1 DEF Grown, Exclusive
  <2>5. ASSUME pc[u] \in Converting, NEW v \in Threads \ {u}
        PROVE  pc'[v] \notin Converting
    BY <1>1, <1>2, <2>1, <2>5 DEF Undisturbed, Alone, Exclusive
  <2> QED
    BY <2>1, <2>2, <2>3, <2>4, <2>5 DEF Exclusive
<1> QED
  BY <1>1, <1>3

------------------------------------------------------------------------------
(* The summaries.                                                          *)

LEMMA GrownFits ==
    ASSUME FileTypes, FileTypes', Grown, NEW key \in Nat \cup {None}, NEW value
    PROVE  /\ Reached(log, key) => Reached(log', key)
           /\ Fits(log, key, value) => Fits(log', key, value)
<1>1. CASE log = None
  BY <1>1, HistoryAssumption DEF Fits, Reached
<1>2. CASE log # None
  <2>1. PICK x \in Seq(Bytes) : log' = log \o x
    BY <1>2 DEF Grown
  <2>2. log' # None /\ log \in Seq(Bytes) /\ Len(log) \in Nat /\ Len(x) \in Nat
    BY <1>2, LenProperties DEF Grown, FileTypes
  <2>3. Len(log') = Len(log) + Len(x)
    BY <2>1, <2>2, ConcatProperties
  <2>4. CASE x = << >>
    <3>1. log' = log
      BY <2>1, <2>2, <2>4, ConcatEmptySeq
    <3> QED
      BY <3>1
  <2>5. CASE x # << >>
    <3>1. Len(x) > 0
      BY <2>2, <2>5, EmptySeq
    <3>2. Reached(log, key) => Reached(log', key) /\ key # Len(log')
      BY <1>2, <2>2, <2>3, <3>1, HistoryAssumption DEF Reached
    <3> QED
      BY <2>2, <3>2 DEF Fits
  <2> QED
    BY <2>4, <2>5
<1> QED
  BY <1>1, <1>2

LEMMA OwnKey ==
    ASSUME FileTypes
    PROVE  /\ Fingerprint \in Nat \cup {None} /\ Reached(log, Fingerprint)
           /\ \A key : Reached(log, key) => Fits(log, key, SummaryOf(log))
  BY LenProperties DEF FileTypes, Fingerprint, Reached, Fits

(* Summaries that are kept stay fitting, and those of t have to be looked  *)
(* at when it changes them.                                                *)
LEMMA FitsStay ==
    ASSUME HInv, Shapes', ~overlapped, Grown
    PROVE  /\ \A p \in Processes : Fits(log', cache[p].key, cache[p].value)
           /\ \A u \in Threads :
                /\ Reached(log', frame[u].key)
                /\ pc[u] \in {"compare", "store"} =>
                        Fits(log', frame[u].key, frame[u].value)
<1>1. FileTypes /\ FileTypes' /\ SummariesFit
  BY DEF HInv, Shapes
<1>2. ASSUME NEW p \in Processes
      PROVE  Fits(log', cache[p].key, cache[p].value)
  <2>1. cache[p].key \in Nat \cup {None} /\ Fits(log, cache[p].key, cache[p].value)
    BY <1>1 DEF HInv, Shapes, OtherTypes, SummariesFit
  <2> QED
    BY <1>1, <2>1, GrownFits
<1>3. ASSUME NEW u \in Threads
      PROVE  /\ Reached(log', frame[u].key)
             /\ pc[u] \in {"compare", "store"} => Fits(log', frame[u].key, frame[u].value)
  <2>1. frame[u].key \in Nat \cup {None} /\ Reached(log, frame[u].key)
    BY <1>1 DEF HInv, Shapes, FramesTyped, FrameTypes, SummariesFit
  <2>2. pc[u] \in {"compare", "store"} => Fits(log, frame[u].key, frame[u].value)
    BY <1>1 DEF SummariesFit
  <2> QED
    BY <1>1, <2>1, <2>2, GrownFits
<1> QED
  BY <1>2, <1>3

(* A step of t fits if its own summary does and it stores only that.       *)
LEMMA OwnFits ==
    ASSUME HInv, Shapes', NEW t \in Threads, Alone(t), ~overlapped, Grown,
           \/ cache' = cache
           \/ /\ pc[t] = "store"
              /\ cache' = [cache EXCEPT ![Home[t]] =
                             [key |-> frame[t].key, value |-> frame[t].value]],
           Reached(log', frame'[t].key),
           pc'[t] \in {"compare", "store"} => Fits(log', frame'[t].key, frame'[t].value)
    PROVE  SummariesFit'
<1>1. \A p \in Processes : Fits(log', cache'[p].key, cache'[p].value)
  <2>1. CASE cache' = cache
    BY <2>1, FitsStay
  <2>2. CASE /\ pc[t] = "store"
             /\ cache' = [cache EXCEPT ![Home[t]] =
                            [key |-> frame[t].key, value |-> frame[t].value]]
    <3>1. Fits(log', frame[t].key, frame[t].value)
      BY <2>2, FitsStay
    <3>2. /\ cache'[Home[t]].key = frame[t].key /\ cache'[Home[t]].value = frame[t].value
          /\ \A p \in Processes \ {Home[t]} : cache'[p] = cache[p]
      BY <2>2, Home_ DEF HInv, Shapes, OtherTypes
    <3>3. \A p \in Processes \ {Home[t]} : Fits(log', cache[p].key, cache[p].value)
      BY FitsStay
    <3> QED
      BY <3>1, <3>2, <3>3
  <2> QED
    BY <2>1, <2>2
<1>2. ASSUME NEW u \in Threads
      PROVE  /\ Reached(log', frame'[u].key)
             /\ pc'[u] \in {"compare", "store"} => Fits(log', frame'[u].key, frame'[u].value)
  <2>1. CASE u = t
    BY <2>1
  <2>2. CASE u # t
    BY <2>2, FitsStay DEF Alone
  <2> QED
    BY <2>1, <2>2
<1> QED
  BY <1>1, <1>2 DEF SummariesFit

LEMMA NoFrameFits == \A bytes : Reached(bytes, NoFrame.key)
  BY DEF Reached, NoFrame

LEMMA ThreadFits ==
    ASSUME HInv, NEW t \in Threads, ThreadStep(t)
    PROVE  SummariesFit'
<1> SUFFICES ASSUME ~overlapped'
             PROVE  SummariesFit'
  BY DEF SummariesFit
<1>0. /\ Shapes /\ Calls /\ Shapes' /\ Alone(t) /\ ~overlapped /\ Grown
      /\ FileTypes /\ FileTypes'
  BY ThreadKeeps, ThreadAlone DEF HInv, Shapes
<1>1. Reached(log', frame[t].key)
  BY <1>0, FitsStay
<1>2. ASSUME ConvertStep(t)
      PROVE  SummariesFit'
  <2>1. cache' = cache
    BY <1>2 DEF ConvertStep, CheckStores, ReadLegacy, FillTemp, ReplaceLog, RenameLegacy
  <2>2. frame'[t].key = frame[t].key \/ frame'[t] = NoFrame
    <3>1. CASE ReadLegacy(t)
      BY <1>0, <3>1 DEF ReadLegacy, Shapes, FramesTyped, FrameTypes, Fields
    <3>2. CASE CheckStores(t) \/ FillTemp(t) \/ ReplaceLog(t) \/ RenameLegacy(t)
      BY <1>0, <3>2, Leaving
      DEF CheckStores, FillTemp, ReplaceLog, RenameLegacy, Proceed
    <3> QED
      BY <1>2, <3>1, <3>2 DEF ConvertStep
  <2>3. pc'[t] \notin {"compare", "store"}
    BY <1>0, <1>2, Going, Leaving
    DEF ConvertStep, CheckStores, ReadLegacy, FillTemp, ReplaceLog, RenameLegacy,
        Proceed, PCs, Converting, AfterMigration
  <2>4. Reached(log', frame'[t].key)
    BY <1>1, <2>2, NoFrameFits
  <2> QED
    BY <1>0, <2>1, <2>3, <2>4, OwnFits
<1>3. ASSUME AppendStep(t)
      PROVE  SummariesFit'
  <2>1. cache' = cache
    BY <1>3 DEF AppendStep, MakeEntry, TakeLock, WriteEntry, WriteFails
  <2>2. frame'[t].key = frame[t].key \/ frame'[t].key = None
    <3>1. CASE MakeEntry(t)
      BY <1>0, <3>1 DEF MakeEntry, Enter, NoFrame, Shapes, FramesTyped
    <3>2. CASE TakeLock(t)
      BY <3>2 DEF TakeLock
    <3>3. CASE WriteEntry(t) \/ WriteFails(t)
      BY <1>0, <3>3, Leaving DEF WriteEntry, WriteFails, NoFrame
    <3> QED
      BY <1>3, <3>1, <3>2, <3>3 DEF AppendStep
  <2>3. pc'[t] \notin {"compare", "store"}
    BY <1>0, <1>3, Going, Leaving
    DEF AppendStep, MakeEntry, TakeLock, WriteEntry, WriteFails, Enter, PCs
  <2>4. Reached(log', frame'[t].key)
    BY <1>1, <2>2 DEF Reached
  <2> QED
    BY <1>0, <2>1, <2>3, <2>4, OwnFits
<1>4. ASSUME ReadStep(t)
      PROVE  SummariesFit'
  <2>1. log' = log
    BY <1>4 DEF ReadStep, ReadTail, AskSummary, LookInCache, Load, Compare, Store, Return, fileVars
  <2>2. CASE ReadTail(t) \/ AskSummary(t)
    <3>1. frame'[t].key \in {None, Fingerprint}
      BY <1>0, <2>2 DEF ReadTail, AskSummary, Enter, NoFrame, Shapes, FramesTyped
    <3>2. Reached(log', frame'[t].key)
      BY <1>0, <2>1, <3>1, OwnKey DEF Reached
    <3>3. pc'[t] \notin {"compare", "store"} /\ cache' = cache
      BY <1>0, <2>2, Going DEF ReadTail, AskSummary, Enter, PCs
    <3> QED
      BY <1>0, <3>2, <3>3, OwnFits
  <2>3. CASE LookInCache(t)
    <3>1. frame'[t].key = frame[t].key
      BY <1>0, <2>3, NewValue DEF LookInCache
    <3>2. pc'[t] \notin {"compare", "store"} /\ cache' = cache
      BY <1>0, <2>3, Going DEF LookInCache, PCs
    <3> QED
      BY <1>0, <1>1, <3>1, <3>2, OwnFits
  <2>4. CASE Load(t)
    <3>1. cache' = cache
      BY <2>4 DEF Load
    <3>2. CASE Leave(t) \/ Proceed(t, "unreadable")
      <4>1. frame'[t].key = frame[t].key \/ frame'[t] = NoFrame
        BY <1>0, <3>2, Leaving DEF Proceed
      <4>2. pc'[t] \notin {"compare", "store"}
        BY <1>0, <3>2, Going, Leaving DEF Proceed, PCs
      <4>3. Reached(log', frame'[t].key)
        BY <1>1, <4>1, NoFrameFits
      <4> QED
        BY <1>0, <3>1, <4>2, <4>3, OwnFits
    <3>3. CASE frame' = [frame EXCEPT ![t].value = SummaryOf(log)]
      <4>1. frame'[t].key = frame[t].key /\ frame'[t].value = SummaryOf(log)
        BY <1>0, <3>3, NewValue
      <4>2. Fits(log', frame'[t].key, frame'[t].value)
        BY <1>0, <1>1, <2>1, <4>1, OwnKey
      <4> QED
        BY <1>0, <1>1, <3>1, <4>1, <4>2, OwnFits
    <3> QED
      BY <2>4, <3>2, <3>3 DEF Load
  <2>5. CASE Compare(t) \/ Store(t)
    <3>1. frame' = frame /\ pc[t] \in {"compare", "store"}
      BY <2>5 DEF Compare, Store
    <3>2. Fits(log', frame[t].key, frame[t].value)
      BY <1>0, <3>1, FitsStay
    <3>3. \/ cache' = cache
          \/ /\ pc[t] = "store"
             /\ cache' = [cache EXCEPT ![Home[t]] =
                            [key |-> frame[t].key, value |-> frame[t].value]]
      BY <2>5 DEF Compare, Store
    <3> QED
      BY <1>0, <1>1, <3>1, <3>2, <3>3, OwnFits
  <2>6. CASE Return(t)
    <3>1. cache' = cache /\ Leave(t)
      BY <2>6 DEF Return
    <3>2. frame'[t] = NoFrame /\ pc'[t] = "idle"
      BY <1>0, <3>1, Leaving
    <3> QED
      BY <1>0, <3>1, <3>2, NoFrameFits, OwnFits
  <2> QED
    BY <1>4, <2>2, <2>3, <2>4, <2>5, <2>6 DEF ReadStep
<1> QED
  BY <1>2, <1>3, <1>4 DEF ThreadStep

------------------------------------------------------------------------------
(* A process dies.                                                         *)

LEMMA CrashTypes ==
    ASSUME Shapes, Calls, NEW p \in Processes, Crash(p)
    PROVE  /\ Shapes'
           /\ \E x \in Seq(Bytes) : log' = log \/ log' = LogBytes \o x
           /\ \A u \in Threads :
                \/ Home[u] = p /\ pc'[u] = "idle" /\ frame'[u] = NoFrame
                \/ /\ Home[u] # p /\ pc'[u] = pc[u] /\ frame'[u] = frame[u]
                   /\ lock'[Home[u]] = lock[Home[u]]
<1>1. \A u \in Threads :
        \/ Home[u] = p /\ pc'[u] = "idle" /\ frame'[u] = NoFrame
        \/ /\ Home[u] # p /\ pc'[u] = pc[u] /\ frame'[u] = frame[u]
           /\ lock'[Home[u]] = lock[Home[u]]
  BY Home_ DEF Crash, Shapes, OtherTypes
<1>2. \/ log' = log /\ cut' = cut
      \/ \E e \in Entries, n \in 0 .. 4 :
            log' = LogBytes \o SubSeq(Line(e), 1, n) /\ cut' = cut + 1
  <2>1. CASE UNCHANGED <<log, cut>>
    BY <2>1
  <2>2. CASE \E t \in Threads, n \in 1 .. 4 : pc[t] = "write" /\ WritePart(t, n)
    <3>1. PICK t \in Threads, n \in 1 .. 4 : pc[t] = "write" /\ WritePart(t, n)
      BY <2>2
    <3>2. frame[t].entry \in Entries /\ n \in 0 .. 4
      BY <3>1 DEF Calls, CallFits
    <3> QED
      BY <3>1, <3>2 DEF WritePart
  <2> QED
    BY <2>1, <2>2 DEF Crash
<1>3. FileTypes' /\ \E x \in Seq(Bytes) : log' = log \/ log' = LogBytes \o x
  <2>1. legacy' = legacy /\ temp' = temp /\ << >> \in Seq(Bytes)
    BY EmptySeq DEF Crash
  <2>2. CASE log' = log
    BY <2>1, <2>2 DEF Shapes, FileTypes
  <2>3. CASE \E e \in Entries, n \in 0 .. 4 : log' = LogBytes \o SubSeq(Line(e), 1, n)
    <3>1. PICK e \in Entries, n \in 0 .. 4 : log' = LogBytes \o SubSeq(Line(e), 1, n)
      BY <2>3
    <3> QED
      BY <2>1, <3>1, PartIsAppended DEF Shapes, FileTypes
  <2> QED
    BY <1>2, <2>2, <2>3
<1>4. FramesTyped'
  <2>1. DOMAIN frame' = Threads
    BY DEF Crash
  <2>2. ASSUME NEW u \in Threads
        PROVE  FrameTypes(frame'[u])
    BY <1>1, NoFrameTyped DEF Shapes, FramesTyped
  <2> QED
    BY <2>1, <2>2 DEF FramesTyped
<1>5. OtherTypes'
  <2>1. lock' \in [Processes -> Threads \cup {None}]
    BY DEF Crash, Shapes, OtherTypes
  <2>2. DOMAIN cache' = Processes /\ \A q \in Processes : cache'[q].key \in Nat \cup {None}
    BY DEF Crash, Shapes, OtherTypes, EmptyCache
  <2>3. pc' \in [Threads -> PCs]
    BY DEF Crash, Shapes, OtherTypes, PCs
  <2>4. cut' \in Nat
    BY <1>2 DEF Shapes, OtherTypes
  <2>5. faults' \in 0 .. MaxFaults
    BY FaultCounts DEF Crash
  <2>6. UNCHANGED <<clock, acked, overlapped>>
    BY DEF Crash
  <2> QED
    BY <2>1, <2>2, <2>3, <2>4, <2>5, <2>6 DEF Shapes, OtherTypes
<1> QED
  BY <1>1, <1>3, <1>4, <1>5 DEF Shapes

LEMMA CrashCalls ==
    ASSUME Shapes, Calls, NEW p \in Processes, Crash(p)
    PROVE  Calls'
<1> SUFFICES ASSUME NEW u \in Threads
             PROVE  CallFits(u)' /\ AppenderHasLock(u)'
  BY DEF Calls
<1>1. CASE Home[u] = p /\ pc'[u] = "idle" /\ frame'[u] = NoFrame
  BY <1>1 DEF CallFits, AppenderHasLock, NoFrame
<1>2. CASE /\ Home[u] # p /\ pc'[u] = pc[u] /\ frame'[u] = frame[u]
           /\ lock'[Home[u]] = lock[Home[u]]
  BY <1>2 DEF Calls, CallFits, AppenderHasLock
<1> QED
  BY <1>1, <1>2, CrashTypes

LEMMA CrashAlone ==
    ASSUME HInv, NEW p \in Processes, Crash(p)
    PROVE  ConvertsAlone' /\ (~overlapped' => ~overlapped /\ Grown)
<1> SUFFICES ASSUME ~overlapped'
             PROVE  (\A u \in Threads : Exclusive(u)') /\ ~overlapped /\ Grown
  BY DEF ConvertsAlone
<1>1. /\ ~overlapped /\ legacy' = legacy /\ FileTypes
      /\ \A u \in Threads : Exclusive(u)
  BY DEF Crash, HInv, ConvertsAlone, Shapes
<1>2. \A u \in Threads : pc'[u] = "idle" \/ pc'[u] = pc[u]
  BY CrashTypes DEF HInv
<1>3. \/ log' = log
      \/ /\ \E x \in Seq(Bytes) : log' = LogBytes \o x
         /\ \E t \in Threads : pc[t] = "write"
  <2>1. CASE UNCHANGED <<log, cut>>
    BY <2>1
  <2>2. CASE \E t \in Threads, n \in 1 .. 4 : pc[t] = "write" /\ WritePart(t, n)
    <3>1. \E x \in Seq(Bytes) : log' = log \/ log' = LogBytes \o x
      BY CrashTypes DEF HInv
    <3> QED
      BY <2>2, <3>1
  <2> QED
    BY <2>1, <2>2 DEF Crash
<1>4. Grown
  BY <1>1, <1>3, NoBytes, LogGrows DEF Grown
<1>5. ASSUME NEW u \in Threads
      PROVE  Exclusive(u)'
  <2>1. pc'[u] \in {"read", "fill", "replace"} => log' = None /\ legacy' # None
    <3>1. ASSUME pc'[u] \in {"read", "fill", "replace"}
          PROVE  log' = None /\ legacy' # None
      <4>1. pc[u] \in {"read", "fill", "replace"} /\ log = None /\ legacy # None
        BY <1>1, <1>2, <3>1 DEF Exclusive
      <4>2. log' = log
        BY <1>1, <1>3, <4>1 DEF Exclusive
      <4> QED
        BY <1>1, <4>1, <4>2
    <3> QED
      BY <3>1
  <2>2. pc'[u] = "rename" => log' # None
    BY <1>1, <1>2, <1>4 DEF Exclusive, Grown
  <2>3. pc'[u] \in {"write", "load", "compare", "store"} => log' # None \/ legacy' = None
    BY <1>1, <1>2, <1>4 DEF Exclusive, Grown
  <2>4. pc'[u] \in Converting => \A v \in Threads \ {u} : pc'[v] \notin Converting
    BY <1>1, <1>2 DEF Exclusive, Converting
  <2> QED
    BY <2>1, <2>2, <2>3, <2>4 DEF Exclusive
<1> QED
  BY <1>1, <1>4, <1>5

LEMMA CrashFits ==
    ASSUME HInv, NEW p \in Processes, Crash(p)
    PROVE  SummariesFit'
<1> SUFFICES ASSUME ~overlapped'
             PROVE  SummariesFit'
  BY DEF SummariesFit
<1>1. Shapes /\ Calls /\ Shapes' /\ ~overlapped /\ Grown
  BY CrashTypes, CrashAlone DEF HInv
<1>2. ASSUME NEW q \in Processes
      PROVE  Fits(log', cache'[q].key, cache'[q].value)
  <2>1. CASE q = p
    <3>1. cache'[q].key = None
      BY <1>1, <2>1 DEF Crash, Shapes, OtherTypes, EmptyCache
    <3>2. log' # None => Len(log') # None
      BY <1>1, LenProperties, HistoryAssumption DEF Shapes, FileTypes
    <3> QED
      BY <3>1, <3>2 DEF Fits, Reached
  <2>2. CASE q # p
    <3>1. cache'[q] = cache[q]
      BY <1>1, <2>2 DEF Crash, Shapes, OtherTypes
    <3> QED
      BY <1>1, <3>1, FitsStay
  <2> QED
    BY <2>1, <2>2
<1>3. ASSUME NEW u \in Threads
      PROVE  /\ Reached(log', frame'[u].key)
             /\ pc'[u] \in {"compare", "store"} => Fits(log', frame'[u].key, frame'[u].value)
  <2>1. CASE pc'[u] = "idle" /\ frame'[u] = NoFrame
    BY <2>1, NoFrameFits
  <2>2. CASE pc'[u] = pc[u] /\ frame'[u] = frame[u]
    BY <1>1, <2>2, FitsStay
  <2> QED
    BY <1>1, <2>1, <2>2, CrashTypes
<1> QED
  BY <1>2, <1>3 DEF SummariesFit

------------------------------------------------------------------------------
(* Nothing is written twice.                                               *)

LEMMA EmptyStore == OfTheOldStore(<< >>)
  BY DEF OfTheOldStore, IsInjective, ToSet

LEMMA NoFrameHolds ==
    /\ NoFrame.op = "none" /\ NoFrame.found = << >> /\ NoFrame.key = None
    /\ NoFrame.asked = {}
  BY DEF NoFrame

(* No entry is new, and the log takes only what is no longer pending.      *)
LEMMA OnceFollows ==
    ASSUME Shapes, Shapes', WrittenOnce, original' = original, clock' = clock,
           legacy' = legacy \/ legacy' = None,
           temp' # None => OfTheOldStore(temp'),
           \A u \in Threads : OfTheOldStore(frame'[u].found),
           \A u \in Threads :
                frame'[u].op = "append" =>
                    /\ frame[u].op = "append" /\ frame'[u].entry = frame[u].entry
                    /\ frame'[u].entry \notin EntriesIn(LogBytes'),
           IsInjective(LogBytes'),
           \A e \in EntriesIn(LogBytes') : e <= clock
    PROVE  WrittenOnce'
  BY DEF WrittenOnce, OfTheOldStore, Pending

LEMMA SameLog == log' = log => LogBytes' = LogBytes
  BY DEF LogBytes

LEMMA PartWritten ==
    ASSUME Shapes, Calls, WrittenOnce, NEW t \in Threads, pc[t] = "write",
           NEW n \in 0 .. 4, log' = LogBytes \o SubSeq(Line(frame[t].entry), 1, n)
    PROVE  /\ IsInjective(LogBytes')
           /\ \A e \in EntriesIn(LogBytes') : e <= clock
           /\ \A u \in Threads \ {t} :
                Pending(u) => frame[u].entry \notin EntriesIn(LogBytes')
<1> DEFINE e == frame[t].entry
<1>1. Pending(t) /\ e \in Entries /\ LogBytes \in Seq(Bytes)
  BY LogIsBytes DEF Calls, CallFits, Pending, Shapes
<1>2. e <= clock /\ e \notin EntriesIn(LogBytes) /\ IsInjective(LogBytes)
  BY <1>1 DEF WrittenOnce
<1> HIDE DEF e
<1>3. /\ log' \in Seq(Bytes) /\ IsInjective(log')
      /\ EntriesIn(log') \subseteq EntriesIn(LogBytes) \cup {e}
  BY <1>1, <1>2, PartAppended DEF e
<1>4. LogBytes' = log'
  BY <1>3, LogIsThere DEF LogBytes
<1>5. \A x \in EntriesIn(LogBytes') : x <= clock
  BY <1>2, <1>3, <1>4 DEF WrittenOnce
<1>6. ASSUME NEW u \in Threads \ {t}, Pending(u)
      PROVE  frame[u].entry \notin EntriesIn(LogBytes')
  <2>1. frame[u].entry \notin EntriesIn(LogBytes) /\ frame[u].entry # e
    BY <1>1, <1>6 DEF WrittenOnce, e
  <2> QED
    BY <1>3, <1>4, <2>1
<1> QED
  BY <1>3, <1>4, <1>5, <1>6

LEMMA ConvertOnce ==
    ASSUME HInv, WrittenOnce, NEW t \in Threads, ConvertStep(t)
    PROVE  WrittenOnce'
<1>0. /\ Shapes /\ Calls /\ Shapes' /\ Alone(t) /\ clock' = clock /\ original' = original
      /\ legacy' = legacy \/ legacy' = None
  BY ThreadKeeps
  DEF HInv, ThreadStep, ConvertStep, CheckStores, ReadLegacy, FillTemp, ReplaceLog,
      RenameLegacy, fileVars, seenVars
<1>1. \A u \in Threads : OfTheOldStore(frame[u].found)
  BY DEF WrittenOnce
<1>2. ASSUME UNCHANGED frame \/ Leave(t)
      PROVE  /\ \A u \in Threads : OfTheOldStore(frame'[u].found)
             /\ \A u \in Threads :
                  frame'[u].op = "append" =>
                      frame[u].op = "append" /\ frame'[u].entry = frame[u].entry
  <2>1. CASE UNCHANGED frame
    BY <1>1, <2>1 DEF OfTheOldStore, ConvertStep, CheckStores, ReadLegacy, FillTemp,
                      ReplaceLog, RenameLegacy, seenVars
  <2>2. CASE Leave(t)
    <3>1. frame'[t] = NoFrame /\ \A u \in Threads \ {t} : frame'[u] = frame[u]
      BY <1>0, <2>2, Leaving DEF Alone
    <3> QED
      BY <1>1, <3>1, EmptyStore, NoFrameHolds
  <2> QED
    BY <1>2, <2>1, <2>2
<1>3. ASSUME log' = log
      PROVE  /\ IsInjective(LogBytes') /\ \A e \in EntriesIn(LogBytes') : e <= clock
             /\ \A u \in Threads : Pending(u) => frame[u].entry \notin EntriesIn(LogBytes')
  BY <1>3, SameLog DEF WrittenOnce
<1>4. CASE CheckStores(t) \/ RenameLegacy(t)
  <2>1. log' = log /\ temp' = temp /\ (UNCHANGED frame \/ Leave(t))
    BY <1>4 DEF CheckStores, RenameLegacy, fileVars, Proceed
  <2> QED
    BY <1>0, <1>2, <1>3, <2>1, OnceFollows DEF WrittenOnce, Pending
<1>5. CASE ReadLegacy(t)
  <2> DEFINE found == IF legacy = None THEN << >> ELSE legacy
  <2>1. log' = log /\ temp' = temp /\ frame' = [frame EXCEPT ![t].found = found]
    BY <1>5 DEF ReadLegacy, fileVars
  <2>2. OfTheOldStore(found)
    BY EmptyStore DEF WrittenOnce
  <2>3. /\ frame'[t].found = found /\ frame'[t].op = frame[t].op
        /\ frame'[t].entry = frame[t].entry
        /\ \A u \in Threads \ {t} : frame'[u] = frame[u]
    BY <1>0, <2>1 DEF Shapes, FramesTyped, FrameTypes, Fields, Alone
  <2>4. \A u \in Threads : OfTheOldStore(frame'[u].found)
    BY <1>1, <2>2, <2>3
  <2> QED
    BY <1>0, <1>3, <2>1, <2>3, <2>4, OnceFollows DEF WrittenOnce, Pending
<1>6. CASE FillTemp(t)
  <2>1. /\ log' = log /\ (UNCHANGED frame \/ Leave(t))
        /\ temp' = frame[t].found \/ temp' = << >>
    BY <1>6 DEF FillTemp, Proceed
  <2>2. OfTheOldStore(temp')
    BY <1>1, <2>1, EmptyStore
  <2> QED
    BY <1>0, <1>2, <1>3, <2>1, <2>2, OnceFollows DEF WrittenOnce, Pending
<1>7. CASE ReplaceLog(t)
  <2>1. CASE temp = None
    <3>1. log' = log /\ temp' = temp /\ Leave(t)
      BY <1>7, <2>1 DEF ReplaceLog
    <3> QED
      BY <1>0, <1>2, <1>3, <3>1, OnceFollows DEF WrittenOnce, Pending
  <2>2. CASE temp # None
    <3>1. log' = Lines(temp) /\ temp' = None /\ UNCHANGED frame
      BY <1>7, <2>2 DEF ReplaceLog, Proceed
    <3>2. temp \in Seq(Entries) /\ IsInjective(temp) /\ ToSet(temp) \subseteq original
      BY <1>0, <2>2 DEF WrittenOnce, OfTheOldStore, Shapes, FileTypes
    <3>3. IsInjective(log') /\ EntriesIn(log') \subseteq original /\ log' \in Seq(Bytes)
      BY <3>1, <3>2, LinesOnce, LinesAre
    <3>4. LogBytes' = log'
      BY <3>3, LogIsThere DEF LogBytes
    <3>5. /\ \A e \in EntriesIn(LogBytes') : e <= clock
          /\ \A u \in Threads : Pending(u) => frame[u].entry \notin EntriesIn(LogBytes')
      BY <3>3, <3>4 DEF WrittenOnce
    <3> QED
      BY <1>0, <1>2, <3>1, <3>3, <3>4, <3>5, OnceFollows DEF Pending
  <2> QED
    BY <2>1, <2>2
<1> QED
  BY <1>4, <1>5, <1>6, <1>7 DEF ConvertStep

LEMMA AppendOnce ==
    ASSUME HInv, WrittenOnce, NEW t \in Threads, AppendStep(t)
    PROVE  WrittenOnce'
<1>0. /\ Shapes /\ Calls /\ Shapes' /\ Alone(t) /\ original' = original
      /\ legacy' = legacy /\ temp' = temp
  BY ThreadKeeps
  DEF HInv, ThreadStep, AppendStep, MakeEntry, TakeLock, WriteEntry, WriteFails,
      fileVars, seenVars
<1>1. CASE MakeEntry(t)
  <2>1. /\ log' = log /\ clock' = clock + 1 /\ clock \in Nat /\ LogBytes' = LogBytes
        /\ EntriesIn(LogBytes) \subseteq Nat /\ original \subseteq Nat
    <3>1. log' = log /\ clock' = clock + 1 /\ clock \in Nat
      BY <1>0, <1>1, HistoryAssumption DEF MakeEntry, fileVars, Shapes, OtherTypes
    <3>2. LogBytes \in Seq(Bytes)
      BY <1>0, LogIsBytes DEF Shapes
    <3>3. \A i \in 1 .. Len(LogBytes) : LogBytes[i][1] \in Nat
      <4>1. \A i \in 1 .. Len(LogBytes) : LogBytes[i] \in Bytes
        BY <3>2, ElementOfSeq
      <4> QED
        BY <4>1, EntriesAreNumbers DEF Bytes
    <3> QED
      BY <3>1, <3>3, SameLog, EntriesAreNumbers DEF EntriesIn, WrittenOnce
  <2>2. /\ frame'[t].found = << >> /\ frame'[t].op = "append" /\ frame'[t].entry = clock + 1
        /\ \A u \in Threads \ {t} : frame'[u] = frame[u]
    BY <1>0, <1>1 DEF MakeEntry, Enter, NoFrame, Shapes, FramesTyped, Alone
  <2>3. \A e \in original \cup EntriesIn(LogBytes) : e <= clock /\ e \in Nat
    BY <2>1 DEF WrittenOnce
  <2>4. \A e \in original \cup EntriesIn(LogBytes) : e <= clock + 1 /\ e # clock + 1
    BY <2>1, <2>3
  <2>5. \A u \in Threads : Pending(u) =>
            frame[u].entry \in Nat /\ frame[u].entry <= clock
    BY <1>0, EntriesAreNumbers DEF WrittenOnce, Calls, CallFits, Pending
  <2>6. \A u \in Threads : Pending(u) =>
            frame[u].entry <= clock + 1 /\ frame[u].entry # clock + 1
    BY <2>1, <2>5
  <2>7. \A u \in Threads : OfTheOldStore(frame'[u].found)
    BY <2>2, EmptyStore DEF WrittenOnce
  <2>8. ASSUME NEW u \in Threads, Pending(u)'
        PROVE  /\ frame'[u].entry <= clock'
               /\ frame'[u].entry \notin original' \cup EntriesIn(LogBytes')
               /\ \A v \in Threads \ {u} : Pending(v)' => frame'[v].entry # frame'[u].entry
    <3>1. CASE u = t
      <4>1. \A v \in Threads \ {u} : Pending(v)' => frame'[v].entry # frame'[u].entry
        BY <2>2, <2>6, <3>1 DEF Pending
      <4>2. clock + 1 <= clock'
        BY <2>1
      <4>3. frame'[u].entry \notin original' \cup EntriesIn(LogBytes')
        BY <1>0, <2>1, <2>2, <2>4, <3>1
      <4> QED
        BY <2>2, <3>1, <4>1, <4>2, <4>3
    <3>2. CASE u # t
      <4>1. Pending(u) /\ frame'[u] = frame[u]
        BY <2>2, <2>8, <3>2 DEF Pending
      <4>2. \A v \in Threads \ {u} : Pending(v)' => frame'[v].entry # frame'[u].entry
        BY <2>2, <2>6, <4>1 DEF Pending, WrittenOnce
      <4> QED
        BY <1>0, <2>1, <2>6, <4>1, <4>2 DEF WrittenOnce
    <3> QED
      BY <3>1, <3>2
  <2> QED
    BY <1>0, <2>1, <2>4, <2>7, <2>8 DEF WrittenOnce, OfTheOldStore
<1>2. CASE TakeLock(t)
  <2>1. log' = log /\ frame' = frame /\ clock' = clock
    BY <1>2 DEF TakeLock, fileVars
  <2> QED
    BY <1>0, <2>1, SameLog, OnceFollows DEF WrittenOnce, Pending, OfTheOldStore
<1>3. CASE WriteEntry(t) \/ WriteFails(t)
  <2>1. clock' = clock /\ Leave(t) /\ pc[t] = "write"
    BY <1>3 DEF WriteEntry, WriteFails
  <2>2. \E n \in 0 .. 4 : log' = LogBytes \o SubSeq(Line(frame[t].entry), 1, n)
    <3>1. CASE WriteEntry(t)
      <4>1. frame[t].entry \in Entries
        BY <1>0, <2>1 DEF Calls, CallFits
      <4>2. SubSeq(Line(frame[t].entry), 1, 4) = Line(frame[t].entry) /\ 4 \in 0 .. 4
        BY <4>1, LineIsBytes
      <4> QED
        BY <3>1, <4>2 DEF WriteEntry
    <3>2. CASE WriteFails(t)
      <4>1. PICK n \in 0 .. 3 : WritePart(t, n)
        BY <3>2 DEF WriteFails
      <4>2. n \in 0 .. 4
        OBVIOUS
      <4> QED
        BY <4>1, <4>2 DEF WritePart
    <3> QED
      BY <1>3, <3>1, <3>2
  <2>3. /\ IsInjective(LogBytes') /\ \A e \in EntriesIn(LogBytes') : e <= clock
        /\ \A u \in Threads \ {t} : Pending(u) => frame[u].entry \notin EntriesIn(LogBytes')
    BY <1>0, <2>1, <2>2, PartWritten
  <2>4. frame'[t] = NoFrame /\ \A u \in Threads \ {t} : frame'[u] = frame[u]
    BY <1>0, <2>1, Leaving DEF Alone
  <2>5. \A u \in Threads : OfTheOldStore(frame'[u].found)
    BY <2>4, EmptyStore, NoFrameHolds DEF WrittenOnce
  <2> QED
    BY <1>0, <2>1, <2>3, <2>4, <2>5, NoFrameHolds, OnceFollows DEF WrittenOnce, Pending
<1> QED
  BY <1>1, <1>2, <1>3 DEF AppendStep

(* A read begins or ends with an empty frame, or keeps what it found.      *)
LEMMA ReadFrames ==
    ASSUME HInv, NEW t \in Threads, ReadStep(t)
    PROVE  /\ Shapes /\ Calls /\ Shapes' /\ Alone(t)
           /\ UNCHANGED <<fileVars, clock, faults, seenVars>>
           /\ frame'[t].op # "append"
           /\ frame'[t].found = frame[t].found \/ frame'[t].found = << >>
<1>1. Shapes /\ Calls /\ Shapes' /\ Alone(t)
  BY ThreadKeeps DEF HInv, ThreadStep
<1>2. UNCHANGED <<fileVars, clock, faults, seenVars>>
  BY DEF ReadStep, ReadTail, AskSummary, LookInCache, Load, Compare, Store, Return
<1>3. CASE ReadTail(t) \/ AskSummary(t)
  <2>1. PICK what, asked, there : what \in {"tail", "summary"} /\ Enter(t, what, asked, there)
    BY <1>3 DEF ReadTail, AskSummary
  <2>2. DOMAIN frame = Threads
    BY <1>1 DEF Shapes, FramesTyped
  <2>3. frame'[t].op = what /\ frame'[t].found = << >>
    BY <2>1, <2>2 DEF Enter, NoFrame
  <2> QED
    BY <1>1, <1>2, <2>1, <2>3
<1>4. CASE LookInCache(t) \/ Load(t) \/ Compare(t) \/ Store(t) \/ Return(t)
  <2>1. frame[t].op # "append" /\ DOMAIN frame[t] = Fields /\ DOMAIN frame = Threads
    BY <1>1, <1>4
    DEF LookInCache, Load, Compare, Store, Return, Calls, CallFits, Shapes, FramesTyped, FrameTypes
  <2>2. \/ UNCHANGED frame \/ Leave(t)
        \/ \E v : frame' = [frame EXCEPT ![t].value = v]
    BY <1>4 DEF LookInCache, Load, Compare, Store, Return, Proceed
  <2>3. CASE Leave(t)
    BY <1>1, <1>2, <2>3, Leaving, NoFrameHolds
  <2>4. CASE \E v : frame' = [frame EXCEPT ![t].value = v]
    BY <1>1, <1>2, <2>1, <2>4 DEF Fields
  <2> QED
    BY <1>1, <1>2, <2>1, <2>2, <2>3, <2>4
<1> QED
  BY <1>3, <1>4 DEF ReadStep

LEMMA ReadOnce ==
    ASSUME HInv, WrittenOnce, NEW t \in Threads, ReadStep(t)
    PROVE  WrittenOnce'
<1>1. /\ Shapes /\ Shapes' /\ log' = log /\ legacy' = legacy /\ temp' = temp /\ clock' = clock
      /\ original' = original
      /\ frame'[t].op # "append"
      /\ frame'[t].found = frame[t].found \/ frame'[t].found = << >>
      /\ \A u \in Threads \ {t} : frame'[u] = frame[u]
  BY ReadFrames DEF fileVars, seenVars, Alone
<1>2. \A u \in Threads : OfTheOldStore(frame'[u].found)
  BY <1>1, EmptyStore DEF WrittenOnce
<1> QED
  BY <1>1, <1>2, SameLog, OnceFollows DEF WrittenOnce, Pending

LEMMA CrashOnce ==
    ASSUME HInv, WrittenOnce, NEW p \in Processes, Crash(p)
    PROVE  WrittenOnce'
<1>1. /\ Shapes /\ Calls /\ Shapes' /\ clock' = clock /\ original' = original
      /\ legacy' = legacy /\ temp' = temp
      /\ \A u \in Threads :
            IF Home[u] = p THEN frame'[u] = NoFrame ELSE frame'[u] = frame[u]
  BY CrashTypes DEF HInv, Crash
<1>2. \A u \in Threads : OfTheOldStore(frame'[u].found)
  BY <1>1, EmptyStore, NoFrameHolds DEF WrittenOnce
<1>3. CASE log' = log
  BY <1>1, <1>2, <1>3, SameLog, NoFrameHolds, OnceFollows DEF WrittenOnce, Pending
<1>4. CASE \E t \in Threads, n \in 1 .. 4 : Home[t] = p /\ pc[t] = "write" /\ WritePart(t, n)
  <2>1. PICK t \in Threads, n \in 1 .. 4 : Home[t] = p /\ pc[t] = "write" /\ WritePart(t, n)
    BY <1>4
  <2>2. n \in 0 .. 4 /\ log' = LogBytes \o SubSeq(Line(frame[t].entry), 1, n)
    BY <2>1 DEF WritePart
  <2>3. /\ IsInjective(LogBytes') /\ \A e \in EntriesIn(LogBytes') : e <= clock
        /\ \A u \in Threads \ {t} : Pending(u) => frame[u].entry \notin EntriesIn(LogBytes')
    BY <1>1, <2>1, <2>2, PartWritten
  <2>4. \A u \in Threads : frame'[u].op = "append" => u # t /\ frame'[u] = frame[u]
    BY <1>1, <2>1, NoFrameHolds
  <2> QED
    BY <1>1, <1>2, <2>3, <2>4, OnceFollows DEF WrittenOnce, Pending
<1> QED
  BY <1>3, <1>4 DEF Crash

------------------------------------------------------------------------------
(* What happens to the log, as long as conversions do not overlap.         *)

LogStays == UNCHANGED <<log, acked, cut>>
LogComes == /\ log = None /\ \E t \in Threads : pc[t] = "replace"
            /\ temp \in Seq(Entries) /\ log' = Lines(temp)
            /\ UNCHANGED <<acked, cut>>
LogTakes == \E t \in Threads :
                /\ pc[t] = "write" /\ frame[t].entry \in Entries
                /\ log' = LogBytes \o Line(frame[t].entry)
                /\ acked' = acked \cup {frame[t].entry} /\ cut' = cut
LogIsCut == \E t \in Threads, n \in 0 .. 4 :
                /\ pc[t] = "write" /\ frame[t].entry \in Entries
                /\ log' = LogBytes \o SubSeq(Line(frame[t].entry), 1, n)
                /\ acked' = acked /\ cut' = cut + 1

LogChanges == LogStays \/ LogComes \/ LogTakes \/ LogIsCut

LEMMA ThreadChanges ==
    ASSUME HInv, NEW t \in Threads, ThreadStep(t), ~overlapped
    PROVE  LogChanges /\ original' = original /\ (log = None => legacy' = legacy)
<1>0. Shapes /\ Calls /\ Exclusive(t)
  BY DEF HInv, ConvertsAlone
<1>1. CASE ConvertStep(t)
  <2>1. CASE ReplaceLog(t)
    <3>1. CASE temp = None
      BY <2>1, <3>1 DEF ReplaceLog, LogChanges, LogStays, seenVars
    <3>2. CASE temp # None
      <4>1. log = None
        BY <1>0, <2>1 DEF ReplaceLog, Exclusive
      <4>2. temp \in Seq(Entries)
        BY <1>0, <3>2 DEF Shapes, FileTypes
      <4> QED
        BY <2>1, <3>2, <4>1, <4>2 DEF ReplaceLog, LogChanges, LogComes, seenVars
    <3> QED
      BY <3>1, <3>2
  <2>2. CASE RenameLegacy(t)
    BY <1>0, <2>2 DEF RenameLegacy, Exclusive, LogChanges, LogStays, seenVars
  <2>3. CASE CheckStores(t) \/ ReadLegacy(t) \/ FillTemp(t)
    BY <2>3 DEF CheckStores, ReadLegacy, FillTemp, LogChanges, LogStays, fileVars, seenVars
  <2> QED
    BY <1>1, <2>1, <2>2, <2>3 DEF ConvertStep
<1>2. CASE AppendStep(t)
  <2>1. CASE MakeEntry(t) \/ TakeLock(t)
    BY <2>1 DEF MakeEntry, TakeLock, LogChanges, LogStays, fileVars, seenVars
  <2>2. CASE WriteEntry(t)
    <3>1. frame[t].entry \in Entries
      BY <1>0, <2>2 DEF WriteEntry, Calls, CallFits
    <3> QED
      BY <2>2, <3>1 DEF WriteEntry, LogChanges, LogTakes
  <2>3. CASE WriteFails(t)
    <3>1. frame[t].entry \in Entries
      BY <1>0, <2>3 DEF WriteFails, Calls, CallFits
    <3>2. PICK n \in 0 .. 3 : WritePart(t, n)
      BY <2>3 DEF WriteFails
    <3>3. n \in 0 .. 4
      OBVIOUS
    <3> QED
      BY <2>3, <3>1, <3>2, <3>3 DEF WriteFails, WritePart, LogChanges, LogIsCut
  <2> QED
    BY <1>2, <2>1, <2>2, <2>3 DEF AppendStep
<1>3. CASE ReadStep(t)
  BY <1>3, ReadFrames DEF fileVars, seenVars, LogChanges, LogStays
<1> QED
  BY <1>1, <1>2, <1>3 DEF ThreadStep

LEMMA CrashChanges ==
    ASSUME HInv, NEW p \in Processes, Crash(p)
    PROVE  LogChanges /\ original' = original /\ legacy' = legacy
<1>1. CASE UNCHANGED <<log, cut>>
  BY <1>1 DEF Crash, LogChanges, LogStays
<1>2. CASE \E t \in Threads, n \in 1 .. 4 : pc[t] = "write" /\ WritePart(t, n)
  <2>1. PICK t \in Threads, n \in 1 .. 4 : pc[t] = "write" /\ WritePart(t, n)
    BY <1>2
  <2>2. frame[t].entry \in Entries /\ n \in 0 .. 4
    BY <2>1 DEF HInv, Calls, CallFits
  <2> QED
    BY <2>1, <2>2 DEF Crash, WritePart, LogChanges, LogIsCut
<1> QED
  BY <1>1, <1>2 DEF Crash

(* Every acknowledged entry is accounted for.                              *)
LEMMA AccountsFollow ==
    ASSUME HInv, Accounted, ~overlapped, LogChanges, Shapes'
    PROVE  Accounted'
<1> DEFINE W == Whole(LogBytes)
           M == acked \ W
<1>1. /\ LogBytes \in Seq(Bytes) /\ acked \subseteq Entries /\ cut \in Nat
      /\ log # None => log = LogBytes
      /\ (log = None => acked = {}) /\ Cardinality(M) + Torn <= cut
  BY LogIsBytes DEF HInv, Shapes, OtherTypes, Accounted
<1>2. IsFiniteSet(M) /\ Cardinality(M) \in Nat /\ Torn \in {0, 1}
  BY <1>1, EntriesAreFew DEF Torn
<1> HIDE DEF W, M
<1>3. CASE LogStays
  BY <1>3, SameLog DEF LogStays, Accounted, Torn
<1>4. CASE LogComes
  <2>1. Lines(temp) \in Seq(Bytes) /\ EndsWell(Lines(temp))
    BY <1>4, LinesAre, LinesAreWhole DEF LogComes
  <2>2. log' # None /\ LogBytes' = Lines(temp) /\ Torn' = 0
    BY <1>4, <2>1, LogIsThere DEF LogComes, LogBytes, Torn
  <2>3. acked' \ Whole(LogBytes)' = {}
    BY <1>1, <1>4 DEF LogComes
  <2>4. Cardinality(acked' \ Whole(LogBytes)') = 0
    BY <2>3, FS_EmptySet
  <2> QED
    BY <1>1, <1>4, <2>2, <2>4 DEF LogComes, Accounted
<1>5. CASE LogTakes
  <2>1. PICK t \in Threads :
            /\ pc[t] = "write" /\ frame[t].entry \in Entries
            /\ log' = LogBytes \o Line(frame[t].entry)
            /\ acked' = acked \cup {frame[t].entry} /\ cut' = cut
    BY <1>5 DEF LogTakes
  <2> DEFINE e == frame[t].entry
             M2 == acked' \ Whole(LogBytes)'
  <2>2. /\ log' \in Seq(Bytes) /\ EndsWell(log') /\ W \subseteq Whole(log')
        /\ EndsWell(LogBytes) => e \in Whole(log')
    BY <1>1, <2>1, LineAppended, LineIsBytes, WholeGrows DEF W
  <2>3. log' # None /\ LogBytes' = log' /\ Torn' = 0
    BY <2>2, LogIsThere DEF LogBytes, Torn
  <2>4. M2 \subseteq M \cup {e} /\ (EndsWell(LogBytes) => M2 \subseteq M)
    BY <2>1, <2>2, <2>3 DEF M
  <2>5. Cardinality(M \cup {e}) <= Cardinality(M) + 1 /\ IsFiniteSet(M \cup {e})
    <3> HIDE DEF e
    <3>1. /\ Cardinality(M \cup {e}) = IF e \in M THEN Cardinality(M) ELSE Cardinality(M) + 1
          /\ IsFiniteSet(M \cup {e})
      BY <1>2, FS_AddElement, Zenon
    <3> QED
      BY <1>2, <3>1
  <2> HIDE DEF M2, e
  <2>6. Cardinality(M2) <= Cardinality(M \cup {e}) /\ Cardinality(M2) \in Nat
    BY <2>4, <2>5, FS_Subset, FS_CardinalityType, Zenon
  <2>7. EndsWell(LogBytes) => Cardinality(M2) <= Cardinality(M)
    BY <1>2, <2>4, FS_Subset, Zenon
  <2>8. Cardinality(M \cup {e}) \in Nat
    BY <2>5, FS_CardinalityType
  <2>9. Cardinality(M2) <= Cardinality(M) + Torn
    <3>1. CASE EndsWell(LogBytes)
      BY <1>2, <2>6, <2>7, <3>1
    <3>2. CASE ~ EndsWell(LogBytes)
      <4>1. Torn = 1
        BY <3>2 DEF Torn
      <4> QED
        BY <1>2, <2>5, <2>6, <2>8, <4>1
    <3> QED
      BY <3>1, <3>2
  <2>10. Cardinality(M2) + Torn' <= cut'
    BY <1>1, <1>2, <2>1, <2>3, <2>6, <2>9
  <2> QED
    BY <2>3, <2>10 DEF Accounted, M2
<1>6. CASE LogIsCut
  <2>1. PICK t \in Threads, n \in 0 .. 4 :
            /\ pc[t] = "write" /\ frame[t].entry \in Entries
            /\ log' = LogBytes \o SubSeq(Line(frame[t].entry), 1, n)
            /\ acked' = acked /\ cut' = cut + 1
    BY <1>6 DEF LogIsCut
  <2> DEFINE M2 == acked' \ Whole(LogBytes)'
  <2>2. SubSeq(Line(frame[t].entry), 1, n) \in Seq(Bytes)
    BY <2>1, LineIsBytes
  <2>3. log' \in Seq(Bytes) /\ W \subseteq Whole(log')
    BY <1>1, <2>1, <2>2, WholeGrows, ConcatProperties DEF W
  <2>4. log' # None /\ LogBytes' = log' /\ Torn' \in {0, 1}
    BY <2>3, LogIsThere DEF LogBytes, Torn
  <2>5. M2 \subseteq M
    BY <2>1, <2>3, <2>4 DEF M
  <2> HIDE DEF M2
  <2>6. Cardinality(M2) <= Cardinality(M) /\ Cardinality(M2) \in Nat
    BY <1>2, <2>5, FS_Subset, FS_CardinalityType, Zenon
  <2>7. Cardinality(M2) + Torn' <= cut'
    BY <1>1, <1>2, <2>1, <2>4, <2>6
  <2> QED
    BY <2>4, <2>7 DEF Accounted, M2
<1> QED
  BY <1>3, <1>4, <1>5, <1>6 DEF LogChanges

(* What the log holds makes up for all but the cuts.                       *)
LEMMA AccountsShow ==
    ASSUME HInv, Accounted, ~overlapped
    PROVE  /\ Cardinality(acked \ Readable) <= cut
           /\ Cardinality(Readable) \in Nat
           /\ Cardinality(Readable) >= Cardinality(acked) - cut
<1>1. /\ LogBytes \in Seq(Bytes) /\ acked \subseteq Entries /\ cut \in Nat
      /\ Cardinality(acked \ Whole(LogBytes)) + Torn <= cut
  BY LogIsBytes DEF HInv, Shapes, OtherTypes, Accounted
<1>2. Whole(LogBytes) \subseteq Readable /\ Readable \subseteq Entries
  <2>1. Readable = {LogBytes[i][1] : i \in Starts(LogBytes)}
    BY <1>1, ParsedAre DEF Readable
  <2>2. \A i \in 1 .. Len(LogBytes) : LogBytes[i] \in Bytes
    BY <1>1, ElementOfSeq
  <2>3. \A i \in Starts(LogBytes) : i \in 1 .. Len(LogBytes)
    BY <1>1, StartsAre
  <2>4. \A i \in Starts(LogBytes) : LogBytes[i][1] \in Entries
    BY <2>2, <2>3 DEF Bytes
  <2> QED
    BY <1>1, <2>1, <2>4, WholeIsParsed DEF Readable
<1> DEFINE A == acked \ Readable
           B == acked \ Whole(LogBytes)
<1>3. A \subseteq B /\ B \subseteq Entries /\ acked \cap Readable \subseteq Readable
  BY <1>1, <1>2
<1>4. /\ IsFiniteSet(A) /\ IsFiniteSet(B) /\ IsFiniteSet(acked) /\ IsFiniteSet(Readable)
      /\ Cardinality(A) \in Nat /\ Cardinality(B) \in Nat /\ Cardinality(acked) \in Nat
      /\ Cardinality(Readable) \in Nat
  BY <1>1, <1>2, <1>3, EntriesAreFew
<1>5. Cardinality(A) <= Cardinality(B)
  BY <1>3, <1>4, FS_Subset, Zenon
<1>6. Cardinality(A) = Cardinality(acked) - Cardinality(acked \cap Readable)
  BY <1>4, FS_Difference, Zenon
<1>7. /\ Cardinality(acked \cap Readable) <= Cardinality(Readable)
      /\ Cardinality(acked \cap Readable) \in Nat
  BY <1>3, <1>4, FS_Subset, FS_CardinalityType, Zenon
<1>8. Torn \in {0, 1}
  BY DEF Torn
<1> HIDE DEF A, B
<1>9. Cardinality(A) <= cut
  BY <1>1, <1>4, <1>5, <1>8 DEF B
<1>10. Cardinality(Readable) >= Cardinality(acked) - cut
  BY <1>1, <1>4, <1>6, <1>7, <1>9
<1> QED
  BY <1>4, <1>9, <1>10 DEF A

------------------------------------------------------------------------------
(* The old store.                                                          *)

(* The files change under a thread only when none converts.                *)
LEMMA StoreFollows ==
    ASSUME HInv, Carried, ~overlapped, LogChanges, Grown, Shapes',
           original' = original, log = None => legacy' = legacy
    PROVE  /\ log' = None => original' = IF legacy' = None THEN {} ELSE ToSet(legacy')
           /\ log' # None => original' \subseteq Whole(log')
<1>1. /\ log = None => original = IF legacy = None THEN {} ELSE ToSet(legacy)
      /\ log # None => original \subseteq Whole(log)
      /\ \A t \in Threads : pc[t] = "replace" => temp = legacy
      /\ \A t \in Threads : Exclusive(t)
      /\ FileTypes
  BY DEF HInv, Shapes, Carried, ConvertsAlone
<1>2. CASE log' = log
  BY <1>1, <1>2
<1>3. CASE LogComes
  <2>1. temp = legacy /\ legacy # None /\ temp \in Seq(Entries)
    BY <1>1, <1>3 DEF LogComes, Exclusive
  <2>2. ToSet(temp) \subseteq Whole(log') /\ log' \in Seq(Bytes)
    BY <1>3, <2>1, LinesAreWhole, LinesAre DEF LogComes
  <2> QED
    BY <1>1, <1>3, <2>1, <2>2, LogIsThere DEF LogComes
<1>4. CASE LogTakes \/ LogIsCut
  <2>1. PICK t \in Threads : pc[t] = "write"
    BY <1>4 DEF LogTakes, LogIsCut
  <2>2. log' # None
    <3>1. \E x \in Seq(Bytes) : log' = LogBytes \o x
      BY <1>4, LineIsBytes DEF LogTakes, LogIsCut
    <3> QED
      BY <1>1, <3>1, LogGrows
  <2>3. CASE log = None
    <3>1. original = {}
      BY <1>1, <2>1, <2>3 DEF Exclusive
    <3> QED
      BY <2>2, <3>1
  <2>4. CASE log # None
    <3>1. PICK x \in Seq(Bytes) : log' = log \o x
      BY <2>4 DEF Grown
    <3>2. Whole(log) \subseteq Whole(log')
      BY <1>1, <2>4, <3>1, WholeGrows DEF FileTypes
    <3> QED
      BY <1>1, <2>2, <2>4, <3>2
  <2> QED
    BY <2>3, <2>4
<1> QED
  BY <1>2, <1>3, <1>4 DEF LogChanges, LogStays

LEMMA ThreadCarries ==
    ASSUME HInv, Carried, NEW t \in Threads, ThreadStep(t)
    PROVE  Carried'
<1> SUFFICES ASSUME ~overlapped'
             PROVE  Carried'
  BY DEF Carried
<1>1. /\ Shapes /\ Calls /\ Shapes' /\ Alone(t) /\ ~overlapped /\ Grown
      /\ Undisturbed(t) /\ \A u \in Threads : Exclusive(u)
  BY ThreadKeeps, ThreadAlone, ConvertAlone, AppendAlone, ReadAlone
  DEF HInv, ThreadStep, ConvertsAlone
<1>2. /\ log' = None => original' = IF legacy' = None THEN {} ELSE ToSet(legacy')
      /\ log' # None => original' \subseteq Whole(log')
  BY <1>1, ThreadChanges, StoreFollows
<1>3. /\ pc'[t] = "fill" => frame'[t].found = legacy'
      /\ pc'[t] = "replace" => temp' = legacy'
  <2>1. CASE ReadLegacy(t)
    <3>1. pc'[t] = "fill" /\ legacy' = legacy /\ legacy # None
      BY <1>1, <2>1, Going DEF ReadLegacy, fileVars, PCs, Converting, Exclusive
    <3>2. frame'[t].found = legacy
      BY <1>1, <2>1, <3>1 DEF ReadLegacy, Shapes, FramesTyped, FrameTypes, Fields
    <3> QED
      BY <3>1, <3>2
  <2>2. CASE FillTemp(t)
    <3>1. CASE Leave(t)
      BY <1>1, <3>1, Leaving
    <3>2. CASE temp' = frame[t].found /\ Proceed(t, "replace")
      <4>1. pc'[t] = "replace"
        BY <1>1, <3>2, Going DEF Proceed, PCs, Converting
      <4> QED
        BY <1>1, <2>2, <3>2, <4>1 DEF FillTemp, Carried
    <3> QED
      BY <2>2, <3>1, <3>2 DEF FillTemp
  <2>3. CASE CheckStores(t) \/ ReplaceLog(t) \/ RenameLegacy(t)
    <3>1. pc'[t] \in {"write", "load", "read", "rename", "idle"}
      BY <1>1, <2>3, Going, Leaving
      DEF CheckStores, ReplaceLog, RenameLegacy, Proceed, AfterMigration, PCs, Converting
    <3> QED
      BY <3>1
  <2>4. CASE AppendStep(t) \/ ReadStep(t)
    <3>1. pc'[t] \in PCs \ Converting
      BY <1>1, <2>4, Going, Leaving
      DEF AppendStep, MakeEntry, TakeLock, WriteEntry, WriteFails, ReadStep, ReadTail,
          AskSummary, LookInCache, Load, Compare, Store, Return, Enter, Proceed, PCs, Converting
    <3> QED
      BY <3>1 DEF Converting
  <2> QED
    BY <2>1, <2>2, <2>3, <2>4 DEF ThreadStep, ConvertStep
<1>4. ASSUME NEW u \in Threads \ {t}, pc[u] \in {"fill", "replace"}
      PROVE  legacy' = legacy /\ temp' = temp
  <2>1. pc[u] \in Converting /\ pc[u] # "rename" /\ pc[t] \notin Converting
    BY <1>1, <1>4 DEF Exclusive, Converting
  <2>2. legacy' = legacy
    BY <1>1, <2>1 DEF Undisturbed
  <2>3. temp' = temp
    BY <2>1
    DEF ThreadStep, ConvertStep, CheckStores, ReadLegacy, FillTemp, ReplaceLog, RenameLegacy,
        AppendStep, MakeEntry, TakeLock, WriteEntry, WriteFails, ReadStep, ReadTail,
        AskSummary, LookInCache, Load, Compare, Store, Return, fileVars, Converting
  <2> QED
    BY <2>2, <2>3
<1>5. ASSUME NEW u \in Threads
      PROVE  /\ pc'[u] = "fill" => frame'[u].found = legacy'
             /\ pc'[u] = "replace" => temp' = legacy'
  <2>1. CASE u = t
    BY <1>3, <2>1
  <2>2. CASE u # t
    <3>1. pc'[u] = pc[u] /\ frame'[u] = frame[u]
      BY <1>1, <2>2 DEF Alone
    <3> QED
      BY <1>1, <1>4, <2>2, <3>1 DEF Carried
  <2> QED
    BY <2>1, <2>2
<1> QED
  BY <1>2, <1>5 DEF Carried

LEMMA CrashCarries ==
    ASSUME HInv, Carried, NEW p \in Processes, Crash(p)
    PROVE  Carried'
<1> SUFFICES ASSUME ~overlapped'
             PROVE  Carried'
  BY DEF Carried
<1>1. /\ Shapes' /\ ~overlapped /\ Grown /\ temp' = temp /\ legacy' = legacy
      /\ \A u \in Threads :
            \/ pc'[u] = "idle"
            \/ pc'[u] = pc[u] /\ frame'[u] = frame[u]
  BY CrashTypes, CrashAlone DEF HInv, Crash
<1>2. /\ log' = None => original' = IF legacy' = None THEN {} ELSE ToSet(legacy')
      /\ log' # None => original' \subseteq Whole(log')
  BY <1>1, CrashChanges, StoreFollows
<1>3. \A u \in Threads : /\ pc'[u] = "fill" => frame'[u].found = legacy'
                         /\ pc'[u] = "replace" => temp' = legacy'
  BY <1>1 DEF Carried
<1> QED
  BY <1>2, <1>3 DEF Carried

------------------------------------------------------------------------------
(* What a summary covers.                                                  *)

(* The summary of a log in which nothing is twice is that of its entries.  *)
LEMMA SummaryIs ==
    ASSUME NEW bytes \in Seq(Bytes), IsInjective(bytes)
    PROVE  /\ ToSet(ParseEntries(bytes)) \subseteq Entries
           /\ RunsIn(bytes) \in Nat
           /\ SummaryOf(bytes) = ViewsOf(ToSet(ParseEntries(bytes)))
           /\ SummaryOf(bytes).totals.runs = RunsIn(bytes)
<1> DEFINE es == ParseEntries(bytes)
<1>1. es \in Seq(Entries) /\ IsInjective(es)
  BY ParsedAre, ParsedOnce
<1>2. SummaryOf(bytes) = Summarize(es)
  BY LogIsThere DEF SummaryOf
<1> HIDE DEF es
<1>3. ToSet(es) \subseteq Entries
  <2>1. \A i \in DOMAIN es : es[i] \in Entries
    BY <1>1, LenProperties, ElementOfSeq
  <2> QED
    BY <2>1 DEF ToSet
<1>4. SummaryOf(bytes) = ViewsOf(ToSet(es))
  BY <1>1, <1>2, SummaryIsOfTheSet
<1>5. SummaryOf(bytes).totals.runs = Cardinality(ToSet(es))
  BY <1>4 DEF ViewsOf, AggregateOf
<1>6. Cardinality(ToSet(es)) \in Nat
  BY <1>3, EntriesAreFew
<1> QED
  BY <1>3, <1>4, <1>5, <1>6 DEF RunsIn, es

LEMMA LogSummary ==
    ASSUME Shapes, WrittenOnce
    PROVE  /\ SummaryOf(log) = ViewsOf(Readable) /\ Readable \subseteq Entries
           /\ SummaryOf(log).totals.runs = Cardinality(Readable)
           /\ Cardinality(Readable) \in Nat
<1>1. LogBytes \in Seq(Bytes) /\ IsInjective(LogBytes)
  BY LogIsBytes DEF Shapes, WrittenOnce
<1>2. /\ Readable \subseteq Entries /\ Cardinality(Readable) \in Nat
      /\ SummaryOf(LogBytes) = ViewsOf(Readable)
      /\ SummaryOf(LogBytes).totals.runs = Cardinality(Readable)
  BY <1>1, SummaryIs DEF Readable, RunsIn
<1>3. SummaryOf(log) = SummaryOf(LogBytes)
  <2>1. CASE log = None
    <3>1. << >> \in Seq(Bytes) /\ << >> # None /\ Len(<< >>) = 0
      BY LogIsThere, EmptySeq
    <3>2. ParseEntries(<< >>) \in Seq(Entries) /\ Len(ParseEntries(<< >>)) = 0
      <4>1. Starts(<< >>) = {}
        <5>1. Starts(<< >>) \in SUBSET (1 .. 0)
          BY <3>1, StartsAre
        <5> QED
          BY <5>1
      <4>2. /\ ParseEntries(<< >>) \in Seq(Entries)
            /\ Len(ParseEntries(<< >>)) = Cardinality(Starts(<< >>))
        BY <3>1, ParsedAre
      <4>3. Cardinality({}) = 0
        BY FS_EmptySet
      <4> QED
        BY <4>1, <4>2, <4>3, Zenon
    <3>3. ParseEntries(<< >>) = << >>
      BY <3>2, EmptySeq, SeqEqual
    <3> QED
      BY <2>1, <3>1, <3>3 DEF SummaryOf, LogBytes
  <2>2. CASE log # None
    BY <2>2 DEF LogBytes
  <2> QED
    BY <2>1, <2>2
<1> QED
  BY <1>2, <1>3

(* The part of the log under a key: it is there and stays.                 *)
LEMMA KeyedPrefix ==
    ASSUME HInv, WrittenOnce, ~overlapped, Grown, NEW key \in Nat, Reached(log, key)
    PROVE  /\ SubSeq(log, 1, key) \in Seq(Bytes)
           /\ RunsIn(SubSeq(log, 1, key)) \in Nat
           /\ SummaryOf(SubSeq(log, 1, key)).totals.runs = RunsIn(SubSeq(log, 1, key))
           /\ SubSeq(log', 1, key) = SubSeq(log, 1, key)
<1>1. log # None /\ key <= Len(log) /\ log \in Seq(Bytes) /\ LogBytes = log
  <2>1. key # None
    BY HistoryAssumption
  <2> QED
    BY <2>1 DEF Reached, HInv, Shapes, FileTypes, LogBytes
<1>2. IsInjective(log) /\ key \in 0 .. Len(log)
  BY <1>1, LenProperties DEF WrittenOnce
<1>3. PICK x \in Seq(Bytes) : log' = log \o x
  BY <1>1 DEF Grown
<1>4. /\ SubSeq(log, 1, key) \in Seq(Bytes) /\ IsInjective(SubSeq(log, 1, key))
      /\ SubSeq(log', 1, key) = SubSeq(log, 1, key)
  BY <1>1, <1>2, <1>3, PrefixStays
<1> QED
  BY <1>4, SummaryIs

(* What a thread asked for, counted.                                       *)
LEMMA AskedCounts ==
    ASSUME Shapes, NEW t \in Threads
    PROVE  Cardinality(frame[t].asked) \in Nat /\ IsFiniteSet(frame[t].asked)
  BY EntriesAreFew DEF Shapes, FramesTyped, FrameTypes

CoversFor(t) ==
    /\ frame[t].asked \subseteq acked
    /\ frame[t].key # None => Answers(t, RunsIn(SubSeq(log, 1, frame[t].key)))
    /\ pc[t] = "store" => frame[t].key # None /\ OfPrefix(frame[t].key, frame[t].value)
    /\ pc[t] \in {"compare", "store", "answered"} => Answers(t, frame[t].value.totals.runs)

CacheCovers == \A p \in Processes : cache[p].key # None => OfPrefix(cache[p].key, cache[p].value)

LEMMA CoversAre == Covered <=> (~overlapped => CacheCovers /\ \A t \in Threads : CoversFor(t))
  BY DEF Covered, CoversFor, CacheCovers

(* What stays as the log grows and writes are cut: a cut asks for less.    *)
LEMMA KeyCovers ==
    ASSUME HInv, WrittenOnce, Covered, ~overlapped, Grown, Shapes',
           acked \subseteq acked', cut' >= cut, NEW u \in Threads,
           frame'[u].asked = frame[u].asked, frame'[u].key = frame[u].key
    PROVE  /\ frame'[u].asked \subseteq acked'
           /\ frame'[u].key # None => Answers(u, RunsIn(SubSeq(log, 1, frame[u].key)))'
           /\ frame[u].key # None => SubSeq(log', 1, frame[u].key) = SubSeq(log, 1, frame[u].key)
           /\ \A runs : Answers(u, runs) =>
                runs \in Nat /\ runs >= Cardinality(frame'[u].asked) - cut'
<1>1. CoversFor(u) /\ Shapes /\ cut \in Nat /\ cut' \in Nat /\ Reached(log, frame[u].key)
  BY CoversAre DEF HInv, Shapes, OtherTypes, SummariesFit
<1>2. Cardinality(frame[u].asked) \in Nat
  BY <1>1, AskedCounts
<1>3. \A runs : Answers(u, runs) => runs \in Nat /\ runs >= Cardinality(frame'[u].asked) - cut'
  BY <1>1, <1>2 DEF Answers
<1>4. ASSUME frame[u].key # None
      PROVE  /\ Answers(u, RunsIn(SubSeq(log, 1, frame[u].key)))'
             /\ SubSeq(log', 1, frame[u].key) = SubSeq(log, 1, frame[u].key)
  <2>1. frame[u].key \in Nat
    BY <1>1, <1>4 DEF Shapes, FramesTyped, FrameTypes
  <2>2. SubSeq(log', 1, frame[u].key) = SubSeq(log, 1, frame[u].key)
    BY <1>1, <2>1, KeyedPrefix
  <2>3. Answers(u, RunsIn(SubSeq(log, 1, frame[u].key)))
    BY <1>1, <1>4 DEF CoversFor
  <2>4. SubSeq(log, 1, frame[u].key)' = SubSeq(log, 1, frame[u].key)
    BY <2>2
  <2> QED
    BY <1>3, <2>2, <2>3, <2>4 DEF Answers, RunsIn
<1> QED
  BY <1>1, <1>3, <1>4 DEF CoversFor

LEMMA StaysCovered ==
    ASSUME HInv, WrittenOnce, Covered, ~overlapped, Grown, Shapes',
           acked \subseteq acked', cut' >= cut, NEW u \in Threads,
           frame'[u] = frame[u], pc'[u] = pc[u]
    PROVE  CoversFor(u)'
<1>1. CoversFor(u)
  BY CoversAre
<1>2. /\ frame'[u].asked \subseteq acked'
      /\ frame'[u].key # None => Answers(u, RunsIn(SubSeq(log, 1, frame[u].key)))'
      /\ frame[u].key # None => SubSeq(log', 1, frame[u].key) = SubSeq(log, 1, frame[u].key)
      /\ \A runs : Answers(u, runs) => runs \in Nat /\ runs >= Cardinality(frame'[u].asked) - cut'
  BY KeyCovers
<1> QED
  BY <1>1, <1>2 DEF CoversFor, Answers, OfPrefix

(* A thread that has no answer yet.                                        *)
LEMMA AsksStill ==
    ASSUME HInv, WrittenOnce, Covered, ~overlapped, Grown, Shapes',
           acked \subseteq acked', cut' >= cut, NEW u \in Threads,
           \/ frame'[u].asked = frame[u].asked /\ frame'[u].key = frame[u].key
           \/ frame'[u].asked = {} /\ frame'[u].key = None,
           pc'[u] \notin {"compare", "store", "answered"}
    PROVE  CoversFor(u)'
<1>1. CASE frame'[u].asked = frame[u].asked /\ frame'[u].key = frame[u].key
  BY <1>1, KeyCovers DEF CoversFor
<1>2. CASE frame'[u].asked = {} /\ frame'[u].key = None
  BY <1>2 DEF CoversFor
<1> QED
  BY <1>1, <1>2

LEMMA CacheStays ==
    ASSUME HInv, WrittenOnce, Covered, ~overlapped, Grown, NEW p \in Processes,
           cache[p].key # None
    PROVE  cache[p].value = SummaryOf(SubSeq(log', 1, cache[p].key))
<1>1. cache[p].key \in Nat /\ Reached(log, cache[p].key) /\ OfPrefix(cache[p].key, cache[p].value)
  BY CoversAre DEF HInv, Shapes, OtherTypes, SummariesFit, Fits, CacheCovers
<1> QED
  BY <1>1, KeyedPrefix DEF OfPrefix

LEMMA ConvertCovers ==
    ASSUME HInv, WrittenOnce, Covered, ~overlapped, Grown, Shapes',
           NEW t \in Threads, ConvertStep(t)
    PROVE  CoversFor(t)' /\ cache' = cache /\ acked' = acked /\ cut' = cut
<1>0. /\ Shapes /\ Shapes' /\ cut \in Nat /\ acked' = acked /\ cut' = cut /\ cache' = cache
  BY DEF HInv, Shapes, OtherTypes, ConvertStep, CheckStores, ReadLegacy, FillTemp, ReplaceLog,
         RenameLegacy, seenVars
<1>1. \/ frame'[t].asked = frame[t].asked /\ frame'[t].key = frame[t].key
      \/ frame'[t].asked = {} /\ frame'[t].key = None
  <2>1. CASE ReadLegacy(t)
    BY <1>0, <2>1 DEF ReadLegacy, Shapes, FramesTyped, FrameTypes, Fields
  <2>2. CASE CheckStores(t) \/ FillTemp(t) \/ ReplaceLog(t) \/ RenameLegacy(t)
    <3>1. UNCHANGED frame \/ Leave(t)
      BY <2>2 DEF CheckStores, FillTemp, ReplaceLog, RenameLegacy, Proceed
    <3> QED
      BY <1>0, <3>1, Leaving, NoFrameHolds
  <2> QED
    BY <2>1, <2>2 DEF ConvertStep
<1>2. pc'[t] \notin {"compare", "store", "answered"}
  BY <1>0, Going, Leaving
  DEF ConvertStep, CheckStores, ReadLegacy, FillTemp, ReplaceLog, RenameLegacy,
      Proceed, PCs, Converting, AfterMigration
<1>3. cut' >= cut /\ acked \subseteq acked'
  BY <1>0
<1> QED
  BY <1>0, <1>1, <1>2, <1>3, AsksStill

LEMMA AppendCovers ==
    ASSUME HInv, WrittenOnce, Covered, ~overlapped, Grown, Shapes',
           NEW t \in Threads, AppendStep(t)
    PROVE  CoversFor(t)' /\ cache' = cache /\ acked \subseteq acked' /\ cut' >= cut
<1>0. Shapes /\ cut \in Nat /\ cache' = cache
  BY DEF HInv, Shapes, OtherTypes, AppendStep, MakeEntry, TakeLock, WriteEntry, WriteFails
<1>1. acked \subseteq acked' /\ cut' >= cut
  <2>1. CASE MakeEntry(t) \/ TakeLock(t)
    BY <1>0, <2>1 DEF MakeEntry, TakeLock, seenVars
  <2>2. CASE WriteEntry(t)
    BY <1>0, <2>2 DEF WriteEntry
  <2>3. CASE WriteFails(t)
    BY <1>0, <2>3 DEF WriteFails, WritePart
  <2> QED
    BY <2>1, <2>2, <2>3 DEF AppendStep
<1>2. \/ frame'[t].asked = frame[t].asked /\ frame'[t].key = frame[t].key
      \/ frame'[t].asked = {} /\ frame'[t].key = None
  <2>1. CASE MakeEntry(t)
    BY <1>0, <2>1 DEF MakeEntry, Enter, NoFrame, Shapes, FramesTyped
  <2>2. CASE TakeLock(t)
    BY <2>2 DEF TakeLock
  <2>3. CASE WriteEntry(t) \/ WriteFails(t)
    BY <1>0, <2>3, Leaving, NoFrameHolds DEF WriteEntry, WriteFails
  <2> QED
    BY <2>1, <2>2, <2>3 DEF AppendStep
<1>3. pc'[t] \notin {"compare", "store", "answered"}
  BY <1>0, Going, Leaving
  DEF AppendStep, MakeEntry, TakeLock, WriteEntry, WriteFails, Enter, PCs
<1> QED
  BY <1>0, <1>1, <1>2, <1>3, AsksStill

LEMMA ReadCovers ==
    ASSUME HInv, WrittenOnce, Accounted, Covered, ~overlapped, Grown, Shapes',
           NEW t \in Threads, ReadStep(t)
    PROVE  /\ CoversFor(t)' /\ acked' = acked /\ cut' = cut
           /\ \/ cache' = cache
              \/ /\ frame[t].key # None /\ OfPrefix(frame[t].key, frame[t].value)
                 /\ cache' = [cache EXCEPT ![Home[t]] =
                                [key |-> frame[t].key, value |-> frame[t].value]]
<1>0. /\ Shapes /\ Calls /\ Shapes' /\ Alone(t) /\ log' = log /\ acked' = acked /\ cut' = cut
      /\ CoversFor(t) /\ cut \in Nat
  BY ReadFrames, CoversAre DEF fileVars, seenVars, Shapes, OtherTypes
<1>1. cut' >= cut /\ acked \subseteq acked'
  BY <1>0
<1>2. /\ Cardinality(acked) \in Nat /\ Cardinality(Readable) \in Nat
      /\ Cardinality(Readable) >= Cardinality(acked) - cut
      /\ SummaryOf(log).totals.runs = Cardinality(Readable)
      /\ LogBytes \in Seq(Bytes)
  <2>1. Cardinality(acked) \in Nat
    BY <1>0, EntriesAreFew DEF Shapes, OtherTypes
  <2> QED
    BY <1>0, <2>1, AccountsShow, LogSummary, LogIsBytes DEF Shapes
<1>3. CASE ReadTail(t)
  <2>1. frame'[t].asked = {} /\ frame'[t].key = None
    BY <1>0, <1>3 DEF ReadTail, Enter, NoFrame, Shapes, FramesTyped
  <2>2. pc'[t] = "check" /\ cache' = cache
    BY <1>0, <1>3, Going DEF ReadTail, Enter, PCs
  <2> QED
    BY <1>0, <1>1, <2>1, <2>2, AsksStill
<1>4. CASE AskSummary(t)
  <2>1. frame'[t].asked = acked /\ frame'[t].key = Fingerprint
    BY <1>0, <1>4 DEF AskSummary, Enter, NoFrame, Shapes, FramesTyped
  <2>2. pc'[t] = "look" /\ cache' = cache
    BY <1>0, <1>4, Going DEF AskSummary, Enter, PCs
  <2>3. ASSUME Fingerprint # None
        PROVE  Answers(t, RunsIn(SubSeq(log, 1, frame[t].key)))'
    <3>1. log # None /\ Fingerprint = Len(log) /\ LogBytes = log
      BY <2>3 DEF Fingerprint, LogBytes
    <3>2. SubSeq(log, 1, Len(log)) = log
      <4>1. << >> \in Seq(Bytes) /\ Len(log) \in Nat
        BY <1>2, <3>1, EmptySeq, LenProperties
      <4>2. Len(log) \in 0 .. Len(log)
        BY <4>1
      <4> QED
        BY <1>2, <3>1, <4>1, <4>2, PrefixStays
    <3>3. RunsIn(SubSeq(log, 1, frame[t].key))' = Cardinality(Readable)
      BY <1>0, <2>1, <3>1, <3>2 DEF RunsIn, Readable
    <3> QED
      BY <1>0, <1>2, <2>1, <3>3 DEF Answers
  <2> QED
    BY <1>0, <2>1, <2>2, <2>3 DEF CoversFor
<1>5. CASE LookInCache(t)
  <2>1. CASE pc'[t] = "check" /\ UNCHANGED frame
    BY <1>0, <1>1, <1>5, <2>1, AsksStill DEF LookInCache
  <2>2. CASE /\ frame[t].key # None /\ cache[Home[t]].key = frame[t].key
             /\ frame' = [frame EXCEPT ![t].value = cache[Home[t]].value]
    <3>1. /\ frame'[t].key = frame[t].key /\ frame'[t].value = cache[Home[t]].value
          /\ frame'[t].asked = frame[t].asked
      BY <1>0, <2>2, NewValue DEF Fields, Shapes, FramesTyped, FrameTypes
    <3>2. pc'[t] = "answered" /\ cache' = cache
      BY <1>0, <1>5, <2>2, Going DEF LookInCache, PCs
    <3>3. cache[Home[t]].value = SummaryOf(SubSeq(log, 1, frame[t].key))
      BY <2>2, CoversAre, Home_ DEF CacheCovers, OfPrefix
    <3>4. frame[t].key \in Nat /\ Reached(log, frame[t].key)
      BY <1>0, <2>2 DEF HInv, SummariesFit, Shapes, FramesTyped, FrameTypes
    <3>5. SummaryOf(SubSeq(log, 1, frame[t].key)).totals.runs = RunsIn(SubSeq(log, 1, frame[t].key))
      BY <3>4, KeyedPrefix
    <3>6. Answers(t, frame'[t].value.totals.runs)
      BY <1>0, <2>2, <3>1, <3>3, <3>5 DEF CoversFor
    <3> QED
      BY <1>0, <1>1, <3>1, <3>2, <3>6, KeyCovers DEF CoversFor, Answers
  <2>3. GoTo(t, "check") => pc'[t] = "check"
    BY <1>0, Going DEF PCs
  <2> QED
    BY <1>5, <2>1, <2>2, <2>3 DEF LookInCache
<1>6. CASE Load(t)
  <2>0. cache' = cache
    BY <1>6 DEF Load
  <2>1. CASE Leave(t) \/ Proceed(t, "unreadable")
    <3>1. UNCHANGED frame \/ (frame'[t].asked = {} /\ frame'[t].key = None)
      <4>1. CASE Leave(t)
        BY <1>0, <4>1, Leaving, NoFrameHolds
      <4>2. CASE Proceed(t, "unreadable")
        BY <4>2 DEF Proceed
      <4> QED
        BY <2>1, <4>1, <4>2
    <3>2. pc'[t] \in {"idle", "unreadable"}
      BY <1>0, <2>1, Going, Leaving DEF Proceed, PCs
    <3> QED
      BY <1>0, <1>1, <2>0, <3>1, <3>2, AsksStill
  <2>2. CASE frame' = [frame EXCEPT ![t].value = SummaryOf(log)] /\ GoTo(t, "compare")
    <3>1. /\ frame'[t].key = frame[t].key /\ frame'[t].value = SummaryOf(log)
          /\ frame'[t].asked = frame[t].asked
      BY <1>0, <2>2, NewValue DEF Fields, Shapes, FramesTyped, FrameTypes
    <3>2. pc'[t] = "compare"
      BY <1>0, <2>2, Going DEF PCs
    <3>3. Cardinality(frame[t].asked) <= Cardinality(acked) /\ Cardinality(frame[t].asked) \in Nat
      <4>1. IsFiniteSet(acked) /\ frame[t].asked \in SUBSET acked
        BY <1>0, EntriesAreFew DEF Shapes, OtherTypes, CoversFor
      <4> QED
        BY <1>0, <4>1, FS_Subset, AskedCounts
    <3>4. Answers(t, frame'[t].value.totals.runs)
      BY <1>0, <1>2, <3>1, <3>3 DEF Answers
    <3> QED
      BY <1>0, <1>1, <2>0, <3>1, <3>2, <3>4, KeyCovers DEF CoversFor, Answers
  <2> QED
    BY <1>6, <2>1, <2>2 DEF Load
<1>7. CASE Compare(t)
  <2>1. frame' = frame /\ cache' = cache /\ pc[t] = "compare"
    BY <1>7 DEF Compare
  <2>2. Answers(t, frame[t].value.totals.runs) /\ Fits(log, frame[t].key, frame[t].value)
    BY <1>0, <2>1 DEF CoversFor, HInv, SummariesFit
  <2>3. CASE frame[t].key # None /\ frame[t].key = Fingerprint
    <3>1. log # None /\ frame[t].key = Len(log) /\ LogBytes = log
      BY <2>3 DEF Fingerprint, LogBytes
    <3>2. frame[t].value = SummaryOf(log)
      BY <2>2, <3>1 DEF Fits
    <3>3. SubSeq(log, 1, Len(log)) = log
      <4>1. << >> \in Seq(Bytes) /\ Len(log) \in Nat
        BY <1>2, <3>1, EmptySeq, LenProperties
      <4>2. Len(log) \in 0 .. Len(log)
        BY <4>1
      <4> QED
        BY <1>2, <3>1, <4>1, <4>2, PrefixStays
    <3>4. OfPrefix(frame[t].key, frame[t].value)
      BY <3>1, <3>2, <3>3 DEF OfPrefix
    <3> QED
      BY <1>0, <1>1, <2>1, <2>2, <2>3, <3>4, KeyCovers DEF CoversFor, Answers, OfPrefix
  <2>4. CASE ~ (frame[t].key # None /\ frame[t].key = Fingerprint)
    <3>1. pc'[t] = "answered"
      BY <1>0, <1>7, <2>4, Going DEF Compare, PCs
    <3> QED
      BY <1>0, <1>1, <2>1, <2>2, <3>1, KeyCovers DEF CoversFor, Answers
  <2> QED
    BY <2>3, <2>4
<1>8. CASE Store(t)
  <2>1. /\ frame' = frame /\ pc[t] = "store"
        /\ cache' = [cache EXCEPT ![Home[t]] =
                        [key |-> frame[t].key, value |-> frame[t].value]]
    BY <1>8 DEF Store
  <2>2. /\ Answers(t, frame[t].value.totals.runs)
        /\ frame[t].key # None /\ OfPrefix(frame[t].key, frame[t].value)
    BY <1>0, <2>1 DEF CoversFor
  <2>3. pc'[t] = "answered"
    BY <1>0, <1>8, Going DEF Store, PCs
  <2> QED
    BY <1>0, <1>1, <2>1, <2>2, <2>3, KeyCovers DEF CoversFor, Answers
<1>9. CASE Return(t)
  <2>1. cache' = cache /\ Leave(t)
    BY <1>9 DEF Return
  <2>2. frame'[t].asked = {} /\ frame'[t].key = None /\ pc'[t] = "idle"
    BY <1>0, <2>1, Leaving, NoFrameHolds
  <2> QED
    BY <1>0, <1>1, <2>1, <2>2, AsksStill
<1> QED
  BY <1>3, <1>4, <1>5, <1>6, <1>7, <1>8, <1>9 DEF ReadStep

LEMMA ThreadCovers ==
    ASSUME HInv, WrittenOnce, Accounted, Covered, NEW t \in Threads, ThreadStep(t)
    PROVE  Covered'
<1> SUFFICES ASSUME ~overlapped'
             PROVE  CacheCovers' /\ \A u \in Threads : CoversFor(u)'
  BY DEF Covered, CoversFor, CacheCovers
<1>1. Shapes /\ Shapes' /\ Alone(t) /\ ~overlapped /\ Grown
  BY ThreadKeeps, ThreadAlone DEF HInv
<1>2. /\ CoversFor(t)' /\ acked \subseteq acked' /\ cut' >= cut
      /\ \/ cache' = cache
         \/ /\ frame[t].key # None /\ OfPrefix(frame[t].key, frame[t].value)
            /\ cache' = [cache EXCEPT ![Home[t]] =
                            [key |-> frame[t].key, value |-> frame[t].value]]
  <2>1. cut \in Nat
    BY <1>1 DEF Shapes, OtherTypes
  <2> QED
    BY <1>1, <2>1, ConvertCovers, AppendCovers, ReadCovers DEF ThreadStep
<1>3. ASSUME NEW u \in Threads
      PROVE  CoversFor(u)'
  BY <1>1, <1>2, StaysCovered DEF Alone
<1>4. ASSUME NEW p \in Processes, cache'[p].key # None
      PROVE  OfPrefix(cache[p].key, cache[p].value)'
  <2>1. CASE cache'[p] = cache[p]
    BY <1>1, <1>4, <2>1, CacheStays DEF OfPrefix
  <2>2. CASE cache'[p] # cache[p]
    <3>1. /\ cache'[p].key = frame[t].key /\ cache'[p].value = frame[t].value
          /\ OfPrefix(frame[t].key, frame[t].value) /\ frame[t].key # None
      BY <1>1, <1>2, <2>2, Home_ DEF Shapes, OtherTypes
    <3>2. frame[t].key \in Nat /\ Reached(log, frame[t].key)
      BY <1>1, <3>1 DEF HInv, SummariesFit, Shapes, FramesTyped, FrameTypes
    <3>3. SubSeq(log', 1, frame[t].key) = SubSeq(log, 1, frame[t].key)
      BY <1>1, <3>2, KeyedPrefix
    <3> QED
      BY <3>1, <3>3 DEF OfPrefix
  <2> QED
    BY <2>1, <2>2
<1> QED
  BY <1>3, <1>4 DEF CacheCovers

LEMMA CrashCovers ==
    ASSUME HInv, WrittenOnce, Covered, NEW p \in Processes, Crash(p)
    PROVE  Covered'
<1> SUFFICES ASSUME ~overlapped'
             PROVE  CacheCovers' /\ \A u \in Threads : CoversFor(u)'
  BY DEF Covered, CoversFor, CacheCovers
<1>1. /\ Shapes /\ Shapes' /\ ~overlapped /\ Grown
      /\ \A u \in Threads :
            \/ pc'[u] = "idle" /\ frame'[u] = NoFrame
            \/ pc'[u] = pc[u] /\ frame'[u] = frame[u]
  BY CrashTypes, CrashAlone DEF HInv
<1>2. acked' = acked /\ cut' >= cut /\ acked \subseteq acked'
  BY <1>1 DEF Crash, WritePart, Shapes, OtherTypes
<1>3. ASSUME NEW u \in Threads
      PROVE  CoversFor(u)'
  <2>1. CASE pc'[u] = "idle" /\ frame'[u] = NoFrame
    BY <1>1, <1>2, <2>1, NoFrameHolds, AsksStill
  <2>2. CASE pc'[u] = pc[u] /\ frame'[u] = frame[u]
    BY <1>1, <1>2, <2>2, StaysCovered
  <2> QED
    BY <1>1, <2>1, <2>2
<1>4. ASSUME NEW q \in Processes, cache'[q].key # None
      PROVE  OfPrefix(cache[q].key, cache[q].value)'
  <2>1. cache'[q] = cache[q]
    BY <1>1, <1>4 DEF Crash, EmptyCache, Shapes, OtherTypes
  <2> QED
    BY <1>1, <1>4, <2>1, CacheStays DEF OfPrefix
<1> QED
  BY <1>3, <1>4 DEF CacheCovers

------------------------------------------------------------------------------
(* The theorems.                                                           *)

LEMMA StepHolds ==
    ASSUME HInv, [Next]_vars
    PROVE  HInv' /\ (~overlapped' => ~overlapped /\ Grown)
<1>1. ASSUME NEW t \in Threads, ThreadStep(t)
      PROVE  HInv' /\ (~overlapped' => ~overlapped /\ Grown)
  BY <1>1, ThreadKeeps, ThreadAlone, ThreadFits DEF HInv
<1>2. ASSUME NEW p \in Processes, Crash(p)
      PROVE  HInv' /\ (~overlapped' => ~overlapped /\ Grown)
  BY <1>2, CrashTypes, CrashCalls, CrashAlone, CrashFits DEF HInv
<1>3. ASSUME UNCHANGED vars
      PROVE  HInv' /\ (~overlapped' => ~overlapped /\ Grown)
  <2>1. Shapes' /\ Calls'
    BY <1>3 DEF HInv, Shapes, FramesTyped, FrameTypes, FileTypes, OtherTypes, Calls,
                CallFits, AppenderHasLock, vars, fileVars, seenVars
  <2>2. ConvertsAlone' /\ SummariesFit'
    BY <1>3 DEF HInv, ConvertsAlone, Exclusive, SummariesFit, vars, fileVars, seenVars
  <2>3. Grown
    BY <1>3, NoBytes DEF HInv, Shapes, Grown, vars, fileVars
  <2> QED
    BY <1>3, <2>1, <2>2, <2>3 DEF HInv, vars, seenVars
<1> QED
  BY <1>1, <1>2, <1>3 DEF Next, ThreadStep

THEOREM HistoryInvariance == Spec => []HInv
  BY InitHolds, StepHolds, PTL DEF Spec

(* The files hold whole entries or parts of their lines and every thread   *)
(* is inside a call it may be in, whatever was cut and whoever crashed.    *)
THEOREM TypeCorrect == Spec => []TypeOK
<1>1. HInv => TypeOK
  BY TypesFollow DEF HInv
<1> QED
  BY <1>1, HistoryInvariance, PTL

(* summarize(): unless conversions have overlapped, what the cache holds   *)
(* under the present fingerprint is the summary of the present log, in     *)
(* every process, however lanes and other processes append in between.     *)
THEOREM CacheCurrent == Spec => []CacheIsCurrent
<1>1. HInv => CacheIsCurrent
  BY LogIsThere, HistoryAssumption
  DEF HInv, SummariesFit, Fits, CacheIsCurrent, Fingerprint
<1> QED
  BY <1>1, HistoryInvariance, PTL

(* append_job_stats, _migrate_legacy_store: unless conversions have        *)
(* overlapped, a log that is there only grows.  No append, conversion or   *)
(* crash shortens it or changes a byte that was written.                   *)
LogOnlyGrows == ~overlapped' /\ log # None => \E x \in Seq(Bytes) : log' = log \o x

THEOREM LogGrowsOnly == Spec => [][LogOnlyGrows]_vars
<1>1. HInv /\ [Next]_vars => LogOnlyGrows
  BY StepHolds DEF Grown, LogOnlyGrows
<1> QED
  BY <1>1, HistoryInvariance, PTL DEF Spec

------------------------------------------------------------------------------
(* The whole invariant.                                                    *)

LEMMA NoLogYet ==
    ASSUME log = None
    PROVE  /\ LogBytes = << >> /\ EntriesIn(LogBytes) = {} /\ Torn = 0
           /\ IsInjective(LogBytes)
<1>1. LogBytes = << >> /\ Len(LogBytes) = 0
  BY EmptySeq DEF LogBytes
<1>2. EntriesIn(LogBytes) = {} /\ IsInjective(LogBytes)
  BY <1>1 DEF EntriesIn, IsInjective
<1> QED
  BY <1>1, <1>2 DEF Torn, EndsWell

LEMMA FirstEntries == Init => WrittenOnce
<1> SUFFICES ASSUME Init
             PROVE  WrittenOnce
  OBVIOUS
<1>1. log = None /\ temp = None /\ frame = [t \in Threads |-> NoFrame]
  BY DEF Init
<1>2. legacy # None => OfTheOldStore(legacy)
  BY HistoryAssumption DEF Init, OfTheOldStore
<1>3. \A t \in Threads : frame[t].found = << >> /\ frame[t].op # "append"
  BY <1>1, NoFrameHolds
<1> QED
  BY <1>1, <1>2, <1>3, NoLogYet, FirstClock, EmptyStore DEF WrittenOnce, Pending

LEMMA FirstAccounts == Init => Accounted /\ Carried /\ Covered
<1> SUFFICES ASSUME Init
             PROVE  Accounted /\ Carried /\ Covered
  OBVIOUS
<1>1. /\ log = None /\ acked = {} /\ cut = 0
      /\ original = IF legacy = None THEN {} ELSE ToSet(legacy)
      /\ \A t \in Threads : pc[t] = "idle" /\ frame[t] = NoFrame
      /\ \A p \in Processes : cache[p].key = None
  BY DEF Init, EmptyCache
<1>2. Accounted
  <2>1. acked \ Whole(LogBytes) = {} /\ Cardinality({}) = 0
    BY <1>1, FS_EmptySet
  <2> QED
    BY <1>1, <2>1, NoLogYet DEF Accounted
<1>3. Carried
  BY <1>1 DEF Carried
<1>4. Covered
  BY <1>1, NoFrameHolds DEF Covered
<1> QED
  BY <1>2, <1>3, <1>4

LEMMA EverythingStays ==
    ASSUME KInv, UNCHANGED vars
    PROVE  WrittenOnce' /\ Accounted' /\ Carried' /\ Covered'
<1>1. /\ UNCHANGED <<log, legacy, temp, cache, pc, frame, clock>>
      /\ UNCHANGED <<original, acked, cut, overlapped>>
  BY DEF vars, fileVars, seenVars
<1>2. LogBytes' = LogBytes
  BY <1>1, SameLog
<1>3. WrittenOnce'
  BY <1>1, <1>2 DEF KInv, WrittenOnce, OfTheOldStore, Pending
<1>4. Accounted'
  BY <1>1, <1>2 DEF KInv, Accounted, Torn
<1>5. Carried'
  BY <1>1 DEF KInv, Carried
<1>6. Covered'
  BY <1>1 DEF KInv, Covered, OfPrefix, Answers
<1> QED
  BY <1>3, <1>4, <1>5, <1>6

LEMMA WholeStep ==
    ASSUME KInv, [Next]_vars
    PROVE  KInv'
<1> USE DEF KInv
<1>1. HInv' /\ (~overlapped' => ~overlapped)
  BY StepHolds
<1>2. ASSUME NEW t \in Threads, ThreadStep(t)
      PROVE  KInv'
  <2>1. WrittenOnce'
    BY <1>2, ConvertOnce, AppendOnce, ReadOnce DEF ThreadStep
  <2>2. Accounted'
    <3>1. CASE overlapped'
      BY <3>1 DEF Accounted
    <3>2. CASE ~overlapped'
      BY <1>1, <1>2, <3>2, ThreadChanges, AccountsFollow DEF HInv
    <3> QED
      BY <3>1, <3>2
  <2>3. Carried' /\ Covered'
    BY <1>2, ThreadCarries, ThreadCovers
  <2> QED
    BY <1>1, <2>1, <2>2, <2>3
<1>3. ASSUME NEW p \in Processes, Crash(p)
      PROVE  KInv'
  <2>1. WrittenOnce' /\ Carried' /\ Covered'
    BY <1>3, CrashOnce, CrashCarries, CrashCovers
  <2>2. Accounted'
    <3>1. CASE overlapped'
      BY <3>1 DEF Accounted
    <3>2. CASE ~overlapped'
      BY <1>1, <1>3, <3>2, CrashChanges, AccountsFollow DEF HInv
    <3> QED
      BY <3>1, <3>2
  <2> QED
    BY <1>1, <2>1, <2>2
<1>4. CASE UNCHANGED vars
  BY <1>1, <1>4, EverythingStays
<1> QED
  BY <1>2, <1>3, <1>4 DEF Next, ThreadStep

THEOREM WholeInvariance == Spec => []KInv
<1>1. Init => KInv
  BY InitHolds, FirstEntries, FirstAccounts DEF KInv
<1> QED
  BY <1>1, WholeStep, PTL DEF Spec

(* append_job_stats, _parse_entries: unless conversions have overlapped,   *)
(* each write that was cut short costs at most one acknowledged entry, the *)
(* one glued behind the cut; no crash, conversion or other writer costs    *)
(* another, however many there are.                                        *)
THEOREM CutsCost == Spec => []CutsCostOneEntry
<1>1. KInv => CutsCostOneEntry
  BY AccountsShow DEF KInv, CutsCostOneEntry
<1> QED
  BY <1>1, WholeInvariance, PTL

(* _migrate_legacy_store: once there is a log it holds every entry of the  *)
(* old store, at whichever step conversions were interrupted before.       *)
THEOREM LegacyCarried == Spec => []LegacyIsCarriedOver
<1>1. KInv => LegacyIsCarriedOver
  <2> SUFFICES ASSUME KInv, log # None, ~overlapped
               PROVE  original \subseteq Readable
    BY DEF LegacyIsCarriedOver
  <2>1. log = LogBytes /\ LogBytes \in Seq(Bytes)
    BY LogIsBytes DEF KInv, HInv, Shapes
  <2>2. original \subseteq Whole(LogBytes)
    BY <2>1 DEF KInv, Carried
  <2> QED
    BY <2>1, <2>2, WholeIsParsed DEF Readable
<1> QED
  BY <1>1, WholeInvariance, PTL

(* _read_tail_lines, load_entries: for every size of the chunks and of the *)
(* margin, the tail is a suffix of the whole log's entries, and the right  *)
(* one unless more lines than the margin are malformed.                    *)
THEOREM TailExact == Spec => []TailIsExact
<1>1. HInv => TailIsExact
  <2> SUFFICES ASSUME HInv
               PROVE  TailIsExact
    OBVIOUS
  <2>1. LogBytes \in Seq(Bytes)
    BY LogIsBytes DEF HInv, Shapes
  <2>2. 1 .. MaxEntries \subseteq Nat
    BY HistoryAssumption
  <2> QED
    BY <2>1, <2>2, TailReadsTheLastOnes DEF TailIsExact
<1> QED
  BY <1>1, HistoryInvariance, PTL

(* summarize(): unless conversions have overlapped, a request is answered  *)
(* with no fewer runs than were acknowledged when it was made, less the    *)
(* cut ones, whether it reads the log or is served by the cache another    *)
(* request of its process filled.                                          *)
THEOREM SummaryFresh == Spec => []SummaryIsFresh
<1>1. KInv => SummaryIsFresh
  BY DEF KInv, Covered, Answers, SummaryIsFresh
<1> QED
  BY <1>1, WholeInvariance, PTL

(* _summarize_entries, _accumulate: the three views of the log's summary   *)
(* divide the same set of entries, count each once, and date from the      *)
(* newest, in whatever order the lanes wrote them.                         *)
THEOREM SummaryAdds == Spec => []SummaryAddsUp
<1>1. KInv => SummaryAddsUp
  <2> SUFFICES ASSUME KInv
               PROVE  SummaryAddsUp
    OBVIOUS
  <2>1. SummaryOf(log) = ViewsOf(Readable) /\ Readable \in SUBSET Entries
    BY LogSummary DEF KInv, HInv
  <2> QED
    BY <2>1, ViewsAddUp DEF SummaryAddsUp
<1> QED
  BY <1>1, WholeInvariance, PTL
==============================================================================
