---------------------------- MODULE BackendOutput ----------------------------
(***************************************************************************)
(* What becomes of a backend's output: the parsers and stream_command of   *)
(* src/sshsync/executor.py, the verdict of _run_job in runner.py, and the  *)
(* failure log of logs.py, which the lanes of a run share.                 *)
(*                                                                         *)
(* A backend prints lines of a few kinds in any order and exits with any   *)
(* code.  A line is known by its place in the output, and so is the text   *)
(* of an error.  Cancellation is left to SyncRunner.                       *)
(***************************************************************************)
EXTENDS Integers, FiniteSets, SequencesExt

CONSTANTS
    Lanes,          \* jobs that run at the same time
    MaxLines,       \* bound: lines each of them prints
    ExitCodes,      \* exit codes of backends
    TailLines,      \* LOG_TAIL_LINES
    ErrorLines,     \* LOG_ERROR_LINES
    Nobody,         \* no holder of the lock
    MaxFaults       \* bound: failed writes to the failure log

ASSUME OutputAssumption ==
    /\ MaxLines \in [Lanes -> Nat]
    /\ ExitCodes \subseteq Int
    /\ TailLines \in Nat \ {0} /\ ErrorLines \in Nat \ {0}
    /\ Nobody \notin Lanes
    /\ MaxFaults \in Nat

VARIABLES
    mode,       \* the backend of each lane
    printed,    \* the kinds of the lines it has printed
    stats,      \* the counters its parser keeps
    lastLine,   \* _last_error_line of the robocopy parser
    tail,       \* line_buffer: the last lines
    errors,     \* error_buffer: the last error lines
    code,       \* its exit code
    pc, status,
    log,        \* the failure log, in the pieces that reach the disk
    lock,       \* the holder of _WRITE_LOCK of logs.py
    logged,     \* lanes whose section of the log was written
    history,    \* what append_job_stats has recorded
    faults

streamVars == <<printed, stats, lastLine, tail, errors>>
vars == <<mode, streamVars, code, pc, status, log, lock, logged, history, faults>>

NoText == 0         \* an empty last_error
ExitText == -1      \* "Robocopy failed with exit code ..."

NewStats == [files |-> 0, errors |-> 0, last |-> NoText]

Init ==
    /\ mode \in [Lanes -> {"rclone", "robocopy"}]
    /\ printed = [l \in Lanes |-> << >>]
    /\ stats = [l \in Lanes |-> NewStats]
    /\ lastLine = [l \in Lanes |-> NoText]
    /\ tail = [l \in Lanes |-> << >>]
    /\ errors = [l \in Lanes |-> << >>]
    /\ code = [l \in Lanes |-> 0]
    /\ pc = [l \in Lanes |-> "streaming"]
    /\ status = [l \in Lanes |-> "RUNNING"]
    /\ log = << >>
    /\ lock = Nobody
    /\ logged = {}
    /\ history = {}
    /\ faults = 0

GoTo(l, there) == pc' = [pc EXCEPT ![l] = there]

------------------------------------------------------------------------------
(* stream_command                                                          *)

Kinds(m) ==
    {"noise", "error", "summary"} \cup IF m = "robocopy" THEN {"failed files"} ELSE {}

(* Seeded fault: error lines share the buffer of the tail.                 *)
IsErrorLine_Never(m, kind) == FALSE

(* _is_error_line; to robocopy's also a file with "error" in its name is.  *)
IsErrorLine(m, kind) == kind = "error"

(* RcloneParser.feed and RobocopyParser.feed, for line n.  Robocopy's      *)
(* error lines count only in the end.                                      *)
Feed(m, s, kind, n) ==
    CASE kind = "noise" -> s
      [] kind = "error" /\ m = "rclone" -> [s EXCEPT !.errors = @ + 1, !.last = n]
      [] kind = "error" /\ m = "robocopy" -> s
      [] kind = "summary" -> [s EXCEPT !.files = n]
      [] kind = "failed files" -> [s EXCEPT !.files = n, !.errors = Max({@, 2})]

(* Seeded fault: the deque has no maxlen.                                  *)
Push_Unbounded(deque, n, limit) == Append(deque, n)

(* Appending to a deque with a maxlen.                                     *)
Push(deque, n, limit) ==
    LET all == Append(deque, n) IN
    IF Len(all) > limit THEN Tail(all) ELSE all

PrintLine(l, kind) ==
    LET n == Len(printed[l]) + 1 IN
    /\ pc[l] = "streaming"
    /\ n <= MaxLines[l]
    /\ kind \in Kinds(mode[l])
    /\ printed' = [printed EXCEPT ![l] = Append(@, kind)]
    /\ tail' = [tail EXCEPT ![l] = Push(@, n, TailLines)]
    /\ errors' = IF IsErrorLine(mode[l], kind)
                 THEN [errors EXCEPT ![l] = Push(@, n, ErrorLines)] ELSE errors
    /\ stats' = [stats EXCEPT ![l] = Feed(mode[l], @, kind, n)]
    /\ lastLine' = IF kind = "error" THEN [lastLine EXCEPT ![l] = n] ELSE lastLine
    /\ UNCHANGED <<mode, code, pc, status, log, lock, logged, history, faults>>

(* Seeded fault: 8 is taken for a success here and for a failure there.    *)
Finalize_OffByOne(m, s, line, c) ==
    IF m = "rclone" THEN s
    ELSE IF c <= 8 THEN [s EXCEPT !.errors = 0, !.last = NoText]
    ELSE [s EXCEPT !.errors = Max({@, 1}), !.last = IF line # NoText THEN line ELSE ExitText]

(* finalize: robocopy's errors count only if its exit code agrees.         *)
Finalize(m, s, line, c) ==
    IF m = "rclone" THEN s
    ELSE IF c < 8 THEN [s EXCEPT !.errors = 0, !.last = NoText]
    ELSE [s EXCEPT !.errors = Max({@, 1}), !.last = IF line # NoText THEN line ELSE ExitText]

Exit(l, c) ==
    /\ pc[l] = "streaming"
    /\ code' = [code EXCEPT ![l] = c]
    /\ stats' = [stats EXCEPT ![l] = Finalize(mode[l], @, lastLine[l], c)]
    /\ GoTo(l, "exited")
    /\ UNCHANGED <<mode, printed, lastLine, tail, errors, status, log, lock, logged,
                   history, faults>>

------------------------------------------------------------------------------
(* _run_job and write_failure_log                                          *)

IsFailedExitCode(m, c) == IF m = "robocopy" THEN c >= 8 ELSE c # 0

Judge(l) ==
    LET failed == IsFailedExitCode(mode[l], code[l]) IN
    /\ pc[l] = "exited"
    /\ status' = [status EXCEPT ![l] = IF failed THEN "FAIL" ELSE "OK"]
    /\ GoTo(l, IF failed THEN "lock" ELSE "record")
    /\ UNCHANGED <<mode, streamVars, code, log, lock, logged, history, faults>>

(* Seeded fault: sections are written without the lock.                    *)
TakeLogLock_Free(l) ==
    /\ pc[l] = "lock"
    /\ lock' = l
    /\ GoTo(l, "head")
    /\ UNCHANGED <<mode, streamVars, code, status, log, logged, history, faults>>

TakeLogLock(l) ==
    /\ pc[l] = "lock"
    /\ lock = Nobody
    /\ lock' = l
    /\ GoTo(l, "head")
    /\ UNCHANGED <<mode, streamVars, code, status, log, logged, history, faults>>

(* The error lines come first; a section is longer than a write buffer.    *)
WriteHead(l) ==
    /\ pc[l] = "head"
    /\ log' = Append(log, [lane |-> l, part |-> "head", lines |-> errors[l],
                           count |-> stats[l].errors, last |-> stats[l].last])
    /\ GoTo(l, "body")
    /\ UNCHANGED <<mode, streamVars, code, status, lock, logged, history, faults>>

WriteBody(l) ==
    /\ pc[l] = "body"
    /\ log' = Append(log, [lane |-> l, part |-> "body", lines |-> tail[l]])
    /\ logged' = logged \cup {l}
    /\ lock' = Nobody
    /\ GoTo(l, "record")
    /\ UNCHANGED <<mode, streamVars, code, status, history, faults>>

(* Seeded fault: the error leaves the lock taken.                          *)
LogFails_KeepsLock(l) ==
    /\ pc[l] \in {"head", "body"}
    /\ faults < MaxFaults
    /\ faults' = faults + 1
    /\ GoTo(l, "record")
    /\ UNCHANGED <<mode, streamVars, code, status, log, lock, logged, history>>

(* An OSError is swallowed: "logging must never take down a sync run".     *)
LogFails(l) ==
    /\ pc[l] \in {"head", "body"}
    /\ faults < MaxFaults
    /\ faults' = faults + 1
    /\ lock' = Nobody
    /\ GoTo(l, "record")
    /\ UNCHANGED <<mode, streamVars, code, status, log, logged, history>>

(* The failures list and append_job_stats: see History.                    *)
Record(l) ==
    /\ pc[l] = "record"
    /\ history' = history \cup {[lane |-> l, status |-> status[l], stats |-> stats[l]]}
    /\ GoTo(l, "recorded")
    /\ UNCHANGED <<mode, streamVars, code, status, log, lock, logged, faults>>

AfterExit(l) ==
    \/ Judge(l) \/ TakeLogLock(l) \/ WriteHead(l) \/ WriteBody(l)
    \/ LogFails(l) \/ Record(l)

Next ==
    \E l \in Lanes :
        \/ \E kind \in Kinds(mode[l]) : PrintLine(l, kind)
        \/ \E c \in ExitCodes : Exit(l, c)
        \/ AfterExit(l)

Spec == Init /\ [][Next]_vars

(* A lane goes on with what it has begun: threads are scheduled, and each  *)
(* takes the lock once.  Nothing is assumed of a backend.                  *)
FairSpec == Spec /\ \A l \in Lanes : WF_vars(AfterExit(l))

------------------------------------------------------------------------------
(* Properties.                                                             *)

Stats == [files : Nat, errors : Nat, last : Nat \cup {ExitText}]

TypeOK ==
    /\ mode \in [Lanes -> {"rclone", "robocopy"}]
    /\ \A l \in Lanes : printed[l] \in Seq(Kinds(mode[l])) /\ Len(printed[l]) <= MaxLines[l]
    /\ stats \in [Lanes -> Stats]
    /\ lastLine \in [Lanes -> Nat]
    /\ \A l \in Lanes : tail[l] \in Seq(DOMAIN printed[l]) /\ Len(tail[l]) <= TailLines
    /\ \A l \in Lanes : errors[l] \in Seq(DOMAIN printed[l]) /\ Len(errors[l]) <= ErrorLines
    /\ code \in [Lanes -> ExitCodes \cup {0}]
    /\ pc \in [Lanes -> {"streaming", "exited", "lock", "head", "body", "record", "recorded"}]
    /\ status \in [Lanes -> {"RUNNING", "OK", "FAIL"}]
    /\ lock \in Lanes \cup {Nobody}
    /\ logged \subseteq Lanes
    /\ history \subseteq [lane : Lanes, status : {"OK", "FAIL"}, stats : Stats]
    /\ faults \in 0 .. MaxFaults

(* The status of a recorded robocopy job and its errors tell one story: OK *)
(* without errors, or FAIL with at least one and a text (the limit in      *)
(* finalize against that of is_failed_exit_code).                          *)
StatusMatchesErrors ==
    \A h \in history : mode[h.lane] = "robocopy" =>
        /\ h.status = "OK" => h.stats.errors = 0 /\ h.stats.last = NoText
        /\ h.status = "FAIL" => h.stats.errors > 0 /\ h.stats.last # NoText

(* s lists, in order, the greatest numbers of S, as many as n allows.      *)
Newest(s, S, n) ==
    /\ Len(s) <= n
    /\ \A i, k \in DOMAIN s : i < k => s[i] < s[k]
    /\ \A i \in DOMAIN s : s[i] \in S
    /\ \A x \in S \ ToSet(s) : Len(s) = n /\ \A i \in DOMAIN s : x < s[i]

Said(l) == {n \in DOMAIN printed[l] : printed[l][n] = "error"}

(* A section of the failure log has the newest error lines its job printed *)
(* however much output followed them, and the last error it reports is the *)
(* last of these (stream_command, write_failure_log).                      *)
ErrorsReachTheLog ==
    \A i \in DOMAIN log : log[i].part = "head" =>
        LET said == Said(log[i].lane) IN
        /\ Newest(log[i].lines, said, ErrorLines)
        /\ log[i].last \in Nat \ {0} =>
              log[i].last \in said /\ \A n \in said : n <= log[i].last

(* Sections of jobs that fail together do not mix, and every failed job    *)
(* that is recorded has a whole section, but for writes that failed        *)
(* (the lock and the except clause of write_failure_log).                  *)
SectionsAreWhole ==
    /\ \A i \in DOMAIN log : log[i].part = "body" =>
          i > 1 /\ log[i - 1].part = "head" /\ log[i - 1].lane = log[i].lane
    /\ Cardinality({h.lane : h \in {k \in history : k.status = "FAIL"}} \ logged) <= faults
    /\ \A l \in logged : \E i \in DOMAIN log : log[i].part = "body" /\ log[i].lane = l

(* A job whose backend has exited is recorded: a failure log that cannot   *)
(* be written holds up neither its own lane nor another one.               *)
LoggingNeverBlocks ==
    \A l \in Lanes : pc[l] = "exited" ~> pc[l] = "recorded"
==============================================================================
