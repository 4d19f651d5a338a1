------------------------------- MODULE History -------------------------------
(***************************************************************************)
(* The run history of src/sshsync/stats.py: an append-only log of one line *)
(* per run, the conversion of the older single-file store, the read of its *)
(* tail, and the cache of the summary over it.                             *)
(*                                                                         *)
(* A thread appends an entry, asks for the summary, or reads the tail.     *)
(* Appends of one process exclude each other; readers take no lock, and    *)
(* two processes (the web server and the command line) share nothing but   *)
(* the files.  A write may be cut short by a full disk or a crash.         *)
(*                                                                         *)
(* An entry is a number: the order in which entries were made, which is    *)
(* that of their ended_at.  Its line is four bytes: text, the first byte   *)
(* of a character outside ASCII, the second, and the line feed.            *)
(***************************************************************************)
EXTENDS Integers, FiniteSets, SequencesExt

CONSTANTS
    Writers,        \* threads that append: lanes, the command line
    Readers,        \* threads that read: request handlers, the command line
    Processes,      \* operating system processes
    Home,           \* the process of each thread
    LegacyStores,   \* entries of the old sync-stats.json at start-up, or None
    None,           \* no file, no key, nobody
    JobOf, ServerOf,\* the job and the server of each entry
    Failed,         \* entries whose status is not OK
    ChunkBytes,     \* TAIL_CHUNK_BYTES
    MarginLines,    \* TAIL_MARGIN_LINES
    MaxEntries,     \* bound: entries ever made
    MaxFaults       \* bound: writes cut short and crashes

Threads == Writers \cup Readers
Entries == 1 .. MaxEntries

ASSUME HistoryAssumption ==
    /\ Home \in [Threads -> Processes]
    /\ \A store \in LegacyStores \ {None} : store \in Seq(Entries) /\ IsInjective(store)
    /\ None \notin Threads /\ None \notin Int /\ None \notin Seq(Nat \X Nat)
    /\ None \notin Seq(Entries)
    /\ ChunkBytes \in Nat \ {0} /\ MarginLines \in Nat
    /\ MaxEntries \in Nat /\ MaxFaults \in Nat

VARIABLES
    log,        \* the bytes of STATS_PATH, or None
    legacy,     \* the entries of LEGACY_STATS_PATH, or None
    temp,       \* the entries in the temporary file of a conversion, or None
    lock,       \* the holder of _WRITE_LOCK in each process, or None
    cache,      \* _SUMMARY_CACHE of each process
    pc,         \* where each thread is
    frame,      \* its call and local variables: op, the entry it appends, the
                \* entries found in the old store, the fingerprint and summary
                \* it took, and the entries recorded when it began
    clock,      \* entries made so far
    faults,     \* faults so far
    (* What an observer remembers. *)
    original,   \* the entries the old store held at start-up
    acked,      \* entries whose append has returned
    cut,        \* writes cut short
    overlapped  \* two threads have converted the old store at the same time,
                \* one of them without the lock or in another process

fileVars == <<log, legacy, temp>>
seenVars == <<original, acked, cut, overlapped>>
vars == <<fileVars, lock, cache, pc, frame, clock, faults, seenVars>>

------------------------------------------------------------------------------
(* Bytes and lines.                                                        *)

Line(e) == << <<e, 1>>, <<e, 2>>, <<e, 3>>, <<e, 4>> >>
LineFeed(byte) == byte[2] = 4
Lines(es) ==
    [i \in 1 .. 4 * Len(es) |-> Line(es[((i - 1) \div 4) + 1])[((i - 1) % 4) + 1]]

(* A strict decoder accepts the bytes: no character was cut in two.        *)
Decodable(bytes) ==
    \A i \in DOMAIN bytes : bytes[i][2] = 2 =>
        i < Len(bytes) /\ bytes[i + 1] = <<bytes[i][1], 3>>

(* A line that parses begins at i: it holds one whole entry and no more.   *)
ParsesAt(bytes, i) ==
    /\ i = 1 \/ LineFeed(bytes[i - 1])
    /\ i + 2 \in DOMAIN bytes
    /\ SubSeq(bytes, i, i + 2) = SubSeq(Line(bytes[i][1]), 1, 3)
    /\ i + 3 \in DOMAIN bytes => LineFeed(bytes[i + 3])

(* Where lines that parse begin, and the k-th of a set of places.          *)
Starts(bytes) == {i \in DOMAIN bytes : ParsesAt(bytes, i)}
UpTo(S, i) == {j \in S : j <= i}
Nth(S, k) == CHOOSE i \in S : Cardinality(UpTo(S, i)) = k

(* _parse_entries: lines that do not parse are skipped.                    *)
ParseEntries(bytes) ==
    LET starts == Starts(bytes)
    IN  [k \in 1 .. Cardinality(starts) |-> bytes[Nth(starts, k)][1]]

LineFeeds(bytes) == Cardinality({i \in DOMAIN bytes : LineFeed(bytes[i])})

(* Seeded fault: as many line feeds as lines are taken for enough.         *)
TailStart_OneShort(bytes, lines) ==
    LET Position(n) == Max({0, Len(bytes) - n * ChunkBytes})
        Enough(n) == \/ Position(n) = 0
                     \/ LineFeeds(SubSeq(bytes, Position(n) + 1, Len(bytes))) >= lines
    IN  Position(Min({n \in 0 .. Len(bytes) : Enough(n)}))

(* Where the backwards read stops: chunk by chunk until more line feeds    *)
(* than lines asked for were read, or the start of the file.               *)
TailStart(bytes, lines) ==
    LET Position(n) == Max({0, Len(bytes) - n * ChunkBytes})
        Enough(n) == \/ Position(n) = 0
                     \/ LineFeeds(SubSeq(bytes, Position(n) + 1, Len(bytes))) > lines
    IN  Position(Min({n \in 0 .. Len(bytes) : Enough(n)}))

(* _read_tail_lines: a read that does not reach the start begins mid-line. *)
TailBytes(bytes, lines) ==
    LET from == TailStart(bytes, lines)
        feeds == {i \in (from + 1) .. Len(bytes) : LineFeed(bytes[i])}
    IN  SubSeq(bytes, (IF from = 0 THEN 0 ELSE Min(feeds)) + 1, Len(bytes))

LastN(s, n) == SubSeq(s, Len(s) - Min({n, Len(s)}) + 1, Len(s))

(* load_entries(limit)                                                     *)
TailEntries(bytes, limit) ==
    LastN(ParseEntries(TailBytes(bytes, limit + MarginLines)), limit)

------------------------------------------------------------------------------
(* The summary.                                                            *)

NewAggregate == [runs |-> 0, failures |-> 0, last |-> 0]

(* Seeded fault: the entry read last is taken for the newest.              *)
Accumulate_LastRead(a, e) ==
    [runs |-> a.runs + 1,
     failures |-> a.failures + (IF e \in Failed THEN 1 ELSE 0),
     last |-> e]

Accumulate(a, e) ==
    [runs |-> a.runs + 1,
     failures |-> a.failures + (IF e \in Failed THEN 1 ELSE 0),
     last |-> Max({a.last, e})]

AccumulateAt(buckets, k, e) ==
    [n \in DOMAIN buckets \cup {k} |->
        IF n # k THEN buckets[n]
        ELSE Accumulate(IF k \in DOMAIN buckets THEN buckets[k] ELSE NewAggregate, e)]

Nothing == [totals |-> NewAggregate, jobs |-> << >>, servers |-> << >>]

Include(s, e) == [totals  |-> Accumulate(s.totals, e),
                  jobs    |-> AccumulateAt(s.jobs, JobOf[e], e),
                  servers |-> AccumulateAt(s.servers, ServerOf[e], e)]

(* _summarize_entries: one pass feeds the three views.                     *)
Summarize(es) ==
    LET after[n \in 0 .. Len(es)] ==
            IF n = 0 THEN Nothing ELSE Include(after[n - 1], es[n])
    IN  after[Len(es)]

SummaryOf(bytes) == Summarize(IF bytes = None THEN << >> ELSE ParseEntries(bytes))

(* _history_fingerprint: the size.  The time of the last change only makes *)
(* a hit rarer, and a coarse clock does not even do that.                  *)
Fingerprint == IF log = None THEN None ELSE Len(log)
EmptyCache == [key |-> None, value |-> Nothing]
NoFrame == [op |-> "none", entry |-> 0, found |-> << >>, key |-> None,
            value |-> Nothing, asked |-> {}]

------------------------------------------------------------------------------
Init ==
    /\ log = None
    /\ legacy \in LegacyStores
    /\ temp = None
    /\ lock = [p \in Processes |-> None]
    /\ cache = [p \in Processes |-> EmptyCache]
    /\ pc = [t \in Threads |-> "idle"]
    /\ frame = [t \in Threads |-> NoFrame]
    /\ original = IF legacy = None THEN {} ELSE ToSet(legacy)
    /\ clock = Max(original \cup {0})
    /\ faults = 0
    /\ acked = {}
    /\ cut = 0
    /\ overlapped = FALSE

GoTo(t, there) == pc' = [pc EXCEPT ![t] = there]

Fault == faults < MaxFaults /\ faults' = faults + 1

Enter(t, what, asked, there) ==
    /\ pc[t] = "idle"
    /\ frame' = [frame EXCEPT ![t] =
            [NoFrame EXCEPT !.op = what, !.asked = asked,
                            !.entry = IF what = "append" THEN clock + 1 ELSE 0,
                            !.key = IF what = "summary" THEN Fingerprint ELSE None]]
    /\ GoTo(t, there)

(* The call ends.  The with statement releases the lock, on an exception   *)
(* too.                                                                    *)
Leave(t) ==
    /\ GoTo(t, "idle")
    /\ frame' = [frame EXCEPT ![t] = NoFrame]
    /\ lock' = [p \in Processes |-> IF lock[p] = t THEN None ELSE lock[p]]

Proceed(t, there) == GoTo(t, there) /\ UNCHANGED <<frame, lock>>

------------------------------------------------------------------------------
(* _migrate_legacy_store, called by every append and by every read.        *)

AfterMigration(t) == IF frame[t].op = "append" THEN "write" ELSE "load"
Converting == {"read", "fill", "replace", "rename"}

(* Both append in one process, where they exclude each other.              *)
UnderOneLock(t, u) ==
    Home[t] = Home[u] /\ frame[t].op = "append" /\ frame[u].op = "append"

CheckStores(t) ==
    /\ pc[t] = "check"
    /\ IF log # None \/ legacy = None
       THEN GoTo(t, AfterMigration(t)) /\ UNCHANGED overlapped
       ELSE /\ GoTo(t, "read")
            /\ overlapped' = (overlapped \/ \E u \in Threads :
                                 pc[u] \in Converting /\ ~ UnderOneLock(t, u))
    /\ UNCHANGED <<fileVars, lock, cache, frame, clock, faults, original, acked, cut>>

(* Seeded fault: a store that is gone has no entries, not even none.       *)
ReadLegacy_NoDefault(t) ==
    /\ pc[t] = "read"
    /\ frame' = [frame EXCEPT ![t].found = legacy]
    /\ GoTo(t, "fill")
    /\ UNCHANGED <<fileVars, lock, cache, clock, faults, seenVars>>

(* An old store that is gone or unreadable counts as an empty one.         *)
ReadLegacy(t) ==
    /\ pc[t] = "read"
    /\ frame' = [frame EXCEPT ![t].found = IF legacy = None THEN << >> ELSE legacy]
    /\ GoTo(t, "fill")
    /\ UNCHANGED <<fileVars, lock, cache, clock, faults, seenVars>>

FillTemp(t) ==
    /\ pc[t] = "fill"
    /\ \/ temp' = frame[t].found /\ Proceed(t, "replace") /\ UNCHANGED faults
       \/ temp' = << >> /\ Fault /\ Leave(t)
    /\ UNCHANGED <<log, legacy, cache, clock, seenVars>>

(* Seeded fault: the old store is put away before the log takes its place. *)
ReplaceLog_Last(t) ==
    \/ /\ pc[t] = "replace" /\ legacy # None
       /\ legacy' = None
       /\ Proceed(t, "replace")
       /\ UNCHANGED <<log, temp, cache, clock, faults, seenVars>>
    \/ /\ pc[t] = "replace" /\ legacy = None /\ temp # None
       /\ log' = Lines(temp) /\ temp' = None
       /\ Proceed(t, AfterMigration(t))
       /\ UNCHANGED <<legacy, cache, clock, faults, seenVars>>

(* temp_path.replace(STATS_PATH); it raises if another thread moved it.    *)
ReplaceLog(t) ==
    /\ pc[t] = "replace"
    /\ IF temp # None
       THEN log' = Lines(temp) /\ temp' = None /\ Proceed(t, "rename")
       ELSE Leave(t) /\ UNCHANGED <<log, temp>>
    /\ UNCHANGED <<legacy, cache, clock, faults, seenVars>>

(* The old store is kept under another name, which nothing reads.          *)
RenameLegacy(t) ==
    /\ pc[t] = "rename"
    /\ IF legacy # None
       THEN legacy' = None /\ Proceed(t, AfterMigration(t))
       ELSE Leave(t) /\ UNCHANGED legacy
    /\ UNCHANGED <<log, temp, cache, clock, faults, seenVars>>

------------------------------------------------------------------------------
(* append_job_stats                                                        *)

(* The entry, with its ended_at, is made before the lock is taken.         *)
MakeEntry(t) ==
    /\ t \in Writers
    /\ clock < MaxEntries
    /\ clock' = clock + 1
    /\ Enter(t, "append", {}, "lock")
    /\ UNCHANGED <<fileVars, lock, cache, faults, seenVars>>

(* Seeded fault: lanes append without waiting for one another.             *)
TakeLock_Free(t) ==
    /\ pc[t] = "lock"
    /\ lock' = [lock EXCEPT ![Home[t]] = t]
    /\ GoTo(t, "check")
    /\ UNCHANGED <<fileVars, cache, frame, clock, faults, seenVars>>

TakeLock(t) ==
    /\ pc[t] = "lock"
    /\ lock[Home[t]] = None
    /\ lock' = [lock EXCEPT ![Home[t]] = t]
    /\ GoTo(t, "check")
    /\ UNCHANGED <<fileVars, cache, frame, clock, faults, seenVars>>

LogBytes == IF log = None THEN << >> ELSE log

WriteEntry(t) ==
    /\ pc[t] = "write"
    /\ log' = LogBytes \o Line(frame[t].entry)
    /\ acked' = acked \cup {frame[t].entry}
    /\ Leave(t)
    /\ UNCHANGED <<legacy, temp, cache, clock, faults, original, cut, overlapped>>

(* The first n bytes of the line reach the log.                            *)
WritePart(t, n) ==
    /\ log' = LogBytes \o SubSeq(Line(frame[t].entry), 1, n)
    /\ cut' = cut + 1

(* The disk is full: the call raises.                                      *)
WriteFails(t) ==
    /\ pc[t] = "write"
    /\ Fault
    /\ \E n \in 0 .. 3 : WritePart(t, n)
    /\ Leave(t)
    /\ UNCHANGED <<legacy, temp, cache, clock, original, acked, overlapped>>

------------------------------------------------------------------------------
(* load_entries and summarize                                              *)

ReadTail(t) ==
    /\ t \in Readers
    /\ Enter(t, "tail", {}, "check")
    /\ UNCHANGED <<fileVars, lock, cache, clock, faults, seenVars>>

(* summarize() takes the fingerprint first.                                *)
AskSummary(t) ==
    /\ t \in Readers
    /\ Enter(t, "summary", acked, "look")
    /\ UNCHANGED <<fileVars, lock, cache, clock, faults, seenVars>>

(* Seeded fault: whatever is cached answers.                               *)
LookInCache_AnyKey(t) ==
    /\ pc[t] = "look"
    /\ IF cache[Home[t]].key # None
       THEN /\ frame' = [frame EXCEPT ![t].value = cache[Home[t]].value]
            /\ GoTo(t, "answered")
       ELSE GoTo(t, "check") /\ UNCHANGED frame
    /\ UNCHANGED <<fileVars, lock, cache, clock, faults, seenVars>>

LookInCache(t) ==
    /\ pc[t] = "look"
    /\ IF frame[t].key # None /\ cache[Home[t]].key = frame[t].key
       THEN /\ frame' = [frame EXCEPT ![t].value = cache[Home[t]].value]
            /\ GoTo(t, "answered")
       ELSE GoTo(t, "check") /\ UNCHANGED frame
    /\ UNCHANGED <<fileVars, lock, cache, clock, faults, seenVars>>

(* A read of the whole log decodes it strictly, and a character cut in two *)
(* raises; a read of the tail replaces what it cannot decode.              *)
Load(t) ==
    /\ pc[t] = "load"
    /\ IF frame[t].op = "tail" THEN Leave(t)
       ELSE IF ~ Decodable(LogBytes) THEN Proceed(t, "unreadable")
       ELSE /\ frame' = [frame EXCEPT ![t].value = SummaryOf(log)]
            /\ GoTo(t, "compare")
            /\ UNCHANGED lock
    /\ UNCHANGED <<fileVars, cache, clock, faults, seenVars>>

(* Seeded fault: the fingerprint is taken anew when the summary is stored. *)
Compare_Anew(t) ==
    /\ pc[t] = "compare"
    /\ frame' = [frame EXCEPT ![t].key = Fingerprint]
    /\ GoTo(t, IF Fingerprint # None THEN "store" ELSE "answered")
    /\ UNCHANGED <<fileVars, lock, cache, clock, faults, seenVars>>

Compare(t) ==
    /\ pc[t] = "compare"
    /\ GoTo(t, IF frame[t].key # None /\ frame[t].key = Fingerprint
               THEN "store" ELSE "answered")
    /\ UNCHANGED <<fileVars, lock, cache, frame, clock, faults, seenVars>>

Store(t) ==
    /\ pc[t] = "store"
    /\ cache' = [cache EXCEPT ![Home[t]] =
                    [key |-> frame[t].key, value |-> frame[t].value]]
    /\ GoTo(t, "answered")
    /\ UNCHANGED <<fileVars, lock, frame, clock, faults, seenVars>>

Return(t) ==
    /\ pc[t] \in {"answered", "unreadable"}
    /\ Leave(t)
    /\ UNCHANGED <<fileVars, cache, clock, faults, seenVars>>

(* A process dies, perhaps inside a write, and is started again.           *)
Crash(p) ==
    /\ Fault
    /\ \/ UNCHANGED <<log, cut>>
       \/ \E t \in Threads, n \in 1 .. 4 :
            Home[t] = p /\ pc[t] = "write" /\ WritePart(t, n)
    /\ pc' = [t \in Threads |-> IF Home[t] = p THEN "idle" ELSE pc[t]]
    /\ frame' = [t \in Threads |-> IF Home[t] = p THEN NoFrame ELSE frame[t]]
    /\ lock' = [lock EXCEPT ![p] = None]
    /\ cache' = [cache EXCEPT ![p] = EmptyCache]
    /\ UNCHANGED <<legacy, temp, clock, original, acked, overlapped>>

------------------------------------------------------------------------------
ConvertStep(t) ==
    CheckStores(t) \/ ReadLegacy(t) \/ FillTemp(t) \/ ReplaceLog(t) \/ RenameLegacy(t)
AppendStep(t) == MakeEntry(t) \/ TakeLock(t) \/ WriteEntry(t) \/ WriteFails(t)
ReadStep(t) ==
    \/ ReadTail(t) \/ AskSummary(t) \/ LookInCache(t) \/ Load(t)
    \/ Compare(t) \/ Store(t) \/ Return(t)

Next ==
    \/ \E t \in Threads : ConvertStep(t) \/ AppendStep(t) \/ ReadStep(t)
    \/ \E p \in Processes : Crash(p)

Spec == Init /\ [][Next]_vars

------------------------------------------------------------------------------
(* Properties.                                                             *)

PCs == {"idle", "lock", "check", "write", "look", "load", "compare", "store",
        "answered", "unreadable"} \cup Converting

TypeOK ==
    /\ log = None \/ log \in Seq(Entries \X (1 .. 4))
    /\ legacy \in LegacyStores \cup {None}
    /\ temp = None \/ temp \in Seq(Entries)
    /\ lock \in [Processes -> Threads \cup {None}]
    /\ DOMAIN cache = Processes
    /\ \A p \in Processes : cache[p].key \in Nat \cup {None}
    /\ pc \in [Threads -> PCs]
    /\ \A t \in Threads :
        /\ frame[t].op \in {"none", "append", "summary", "tail"}
        /\ frame[t].entry \in Entries \cup {0}
        /\ frame[t].found \in Seq(Entries)
        /\ frame[t].key \in Nat \cup {None}
        /\ frame[t].asked \subseteq Entries
    /\ clock \in 0 .. MaxEntries
    /\ faults \in 0 .. MaxFaults
    /\ acked \subseteq Entries
    /\ cut \in Nat
    /\ overlapped \in BOOLEAN

Readable == ToSet(ParseEntries(LogBytes))

(* A write that was cut short costs at most one entry that was recorded:   *)
(* the one glued behind it.  No other acknowledged entry is ever lost, to  *)
(* a crash, to a conversion or to an append of another thread or process   *)
(* (append_job_stats, _parse_entries).  The documentation promises more    *)
(* than the code keeps: "a truncated final write only costs that one       *)
(* line", so that nothing acknowledged would be lost.                      *)
CutsCostOneEntry ==
    ~overlapped => Cardinality(acked \ Readable) <= cut

(* Once the log exists it holds every entry of the old store, wherever a   *)
(* conversion was interrupted (_migrate_legacy_store).                     *)
LegacyIsCarriedOver ==
    log # None /\ ~overlapped => original \subseteq Readable

(* The cache never answers for another state of the log than the one its   *)
(* summary was made of (summarize: the fingerprint is taken before the     *)
(* load and compared after it).                                            *)
CacheIsCurrent ==
    ~overlapped =>
        \A p \in Processes : cache[p].key # None /\ cache[p].key = Fingerprint =>
            cache[p].value = SummaryOf(log)

(* A summary covers every run recorded before it was asked for, in this    *)
(* process or another, cached or not, but for the one glued to each cut.   *)
SummaryIsFresh ==
    ~overlapped =>
        \A t \in Threads : pc[t] = "answered" =>
            frame[t].value.totals.runs >= Cardinality(frame[t].asked) - cut

(* With the piece behind the last line feed, empty in a log that ends well. *)
MalformedLines(bytes) ==
    LineFeeds(bytes) + 1 - Len(ParseEntries(bytes))

(* Reading the tail in chunks gives the same entries as reading the whole  *)
(* log and keeping the last ones, unless more lines than the margin are    *)
(* malformed (_read_tail_lines, load_entries).                             *)
TailIsExact ==
    LET all == ParseEntries(LogBytes)
        fits == MalformedLines(LogBytes) <= MarginLines + 1
    IN  \A limit \in 1 .. MaxEntries :
            LET tail == TailEntries(LogBytes, limit)
            IN  /\ IsSuffix(tail, all)
                /\ fits => tail = LastN(all, limit)

(* An aggregate is that of a set of entries, and buckets divide it.        *)
IsOf(a, es) ==
    /\ a.runs = Cardinality(es)
    /\ a.failures = Cardinality(es \cap Failed)
    /\ a.last = Max(es \cup {0})

AreBy(buckets, Of, es) ==
    /\ DOMAIN buckets = {Of[e] : e \in es}
    /\ \A k \in DOMAIN buckets : IsOf(buckets[k], {e \in es : Of[e] = k})

(* The three views of a summary account for the same runs and failures,    *)
(* and each dates from its newest run, in whatever order lanes wrote them  *)
(* (_summarize_entries, _accumulate).                                      *)
SummaryAddsUp ==
    LET s == SummaryOf(log) IN
    /\ IsOf(s.totals, Readable)
    /\ AreBy(s.jobs, JobOf, Readable)
    /\ AreBy(s.servers, ServerOf, Readable)

------------------------------------------------------------------------------
(* What comments and docstrings of the code say and the code does not do.  *)

(* "a truncated final write must not make the whole history unreadable".   *)
HistoryStaysReadable == \A t \in Threads : pc[t] # "unreadable"
==============================================================================
