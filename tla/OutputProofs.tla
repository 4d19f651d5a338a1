---------------------------- MODULE OutputProofs -----------------------------
(***************************************************************************)
(* What holds of BackendOutput for any number of lanes, any output, all    *)
(* exit codes and any number of failed writes to the failure log.          *)
(***************************************************************************)
EXTENDS BackendOutput, FiniteSetTheorems, TLAPS

------------------------------------------------------------------------------
(* The inductive invariant.                                                *)

Past == {"exited", "lock", "head", "body", "record", "recorded"}
Judged == Past \ {"exited"}

Shapes ==
    /\ mode \in [Lanes -> {"rclone", "robocopy"}]
    /\ stats \in [Lanes -> Stats]
    /\ lastLine \in [Lanes -> Nat]
    /\ code \in [Lanes -> Int]
    /\ pc \in [Lanes -> Past \cup {"streaming"}]
    /\ status \in [Lanes -> {"RUNNING", "OK", "FAIL"}]
    /\ printed \in [Lanes -> Seq(Kinds("robocopy"))]

(* The counters of a robocopy job agree with its exit code.                *)
CountsFitCode ==
    \A l \in Lanes : mode[l] = "robocopy" /\ pc[l] \in Past =>
        /\ code[l] < 8 => stats[l].errors = 0 /\ stats[l].last = NoText
        /\ code[l] >= 8 => stats[l].errors > 0 /\ stats[l].last # NoText

VerdictFitsCode ==
    \A l \in Lanes : pc[l] \in Judged =>
        status[l] = IF IsFailedExitCode(mode[l], code[l]) THEN "FAIL" ELSE "OK"

HistoryIsOfJobs ==
    \A h \in history :
        /\ h.lane \in Lanes /\ pc[h.lane] = "recorded"
        /\ h.status = status[h.lane] /\ h.stats = stats[h.lane]

VerdictInv == Shapes /\ CountsFitCode /\ VerdictFitsCode /\ HistoryIsOfJobs

LEMMA MaxOfTwo ==
    ASSUME NEW m \in Nat, NEW n \in Nat
    PROVE  Max({m, n}) \in {m, n} /\ Max({m, n}) >= m /\ Max({m, n}) >= n
<1>1. \E x \in {m, n} : \A y \in {m, n} : x >= y
  OBVIOUS
<1>2. /\ Max({m, n}) \in {m, n}
      /\ \A y \in {m, n} : Max({m, n}) >= y
  BY <1>1, Zenon DEF Max
<1> QED
  BY <1>2

LEMMA FeedKeepsStats ==
    ASSUME NEW m, NEW s \in Stats, NEW kind \in Kinds("robocopy"), NEW n \in Nat
    PROVE  Feed(m, s, kind, n) \in Stats \/ m \notin {"rclone", "robocopy"}
<1> DEFINE k == Max({s.errors, 2})
<1>1. k \in Nat /\ s.errors + 1 \in Nat
  BY MaxOfTwo DEF Stats
<1>2. Feed(m, s, kind, n) =
        CASE kind = "noise" -> s
          [] kind = "error" /\ m = "rclone" -> [s EXCEPT !.errors = @ + 1, !.last = n]
          [] kind = "error" /\ m = "robocopy" -> s
          [] kind = "summary" -> [s EXCEPT !.files = n]
          [] kind = "failed files" -> [s EXCEPT !.files = n, !.errors = k]
  BY DEF Feed
<1> HIDE DEF k
<1>3. CASE kind = "noise"
  BY <1>2, <1>3
<1>4. CASE kind = "error" /\ m = "rclone"
  BY <1>1, <1>2, <1>4 DEF Stats
<1>5. CASE kind = "error" /\ m = "robocopy"
  BY <1>2, <1>5
<1>6. CASE kind = "summary"
  BY <1>2, <1>6 DEF Stats
<1>7. CASE kind = "failed files"
  BY <1>1, <1>2, <1>7 DEF Stats
<1> QED
  BY <1>3, <1>4, <1>5, <1>6, <1>7 DEF Kinds

LEMMA FinalizeFitsCode ==
    ASSUME NEW s \in Stats, NEW line \in Nat, NEW c \in Int, NEW m \in {"rclone", "robocopy"}
    PROVE  /\ Finalize(m, s, line, c) \in Stats
           /\ m = "robocopy" /\ c < 8 =>
                 Finalize(m, s, line, c).errors = 0 /\ Finalize(m, s, line, c).last = NoText
           /\ m = "robocopy" /\ c >= 8 =>
                 Finalize(m, s, line, c).errors > 0 /\ Finalize(m, s, line, c).last # NoText
<1> DEFINE k == Max({s.errors, 1})
           text == IF line # NoText THEN line ELSE ExitText
<1>1. k \in Nat /\ k >= 1
  <2>1. s.errors \in Nat /\ 1 \in Nat
    BY DEF Stats
  <2> QED
    BY <2>1, MaxOfTwo
<1>2. text \in Nat \cup {ExitText} /\ text # NoText
  BY DEF NoText, ExitText
<1>3. Finalize(m, s, line, c) =
        IF m = "rclone" THEN s
        ELSE IF c < 8 THEN [s EXCEPT !.errors = 0, !.last = NoText]
        ELSE [s EXCEPT !.errors = k, !.last = text]
  BY DEF Finalize
<1> HIDE DEF k, text
<1>4. CASE m = "rclone"
  BY <1>3, <1>4
<1>5. CASE m = "robocopy" /\ c < 8
  <2>1. Finalize(m, s, line, c) = [s EXCEPT !.errors = 0, !.last = NoText]
    BY <1>3, <1>5
  <2>2. /\ [s EXCEPT !.errors = 0, !.last = NoText] \in Stats
        /\ [s EXCEPT !.errors = 0, !.last = NoText].errors = 0
        /\ [s EXCEPT !.errors = 0, !.last = NoText].last = NoText
    BY DEF Stats, NoText
  <2>3. ~(c >= 8)
    BY <1>5
  <2> QED
    BY <2>1, <2>2, <2>3
<1>6. CASE m = "robocopy" /\ ~(c < 8)
  <2>1. Finalize(m, s, line, c) = [s EXCEPT !.errors = k, !.last = text]
    BY <1>3, <1>6
  <2>2. /\ [s EXCEPT !.errors = k, !.last = text] \in Stats
        /\ [s EXCEPT !.errors = k, !.last = text].errors = k
        /\ [s EXCEPT !.errors = k, !.last = text].last = text
    BY <1>1, <1>2 DEF Stats
  <2>3. k > 0
    BY <1>1
  <2> QED
    BY <1>2, <1>6, <2>1, <2>2, <2>3
<1> QED
  BY <1>4, <1>5, <1>6

(* What a lane does after its verdict but for recording it leaves the      *)
(* verdict and the counters alone.                                         *)
LEMMA MovingOn ==
    ASSUME VerdictInv, NEW l \in Lanes, NEW there \in Judged,
           pc[l] \in Judged \ {"recorded"}, GoTo(l, there),
           UNCHANGED <<mode, streamVars, code, status, history>>
    PROVE  VerdictInv'
<1>1. /\ UNCHANGED <<mode, printed, stats, lastLine, code, status, history>>
      /\ pc' = [pc EXCEPT ![l] = there]
      /\ there \in Past
  BY DEF streamVars, GoTo, Judged
<1>2. pc' \in [Lanes -> Past \cup {"streaming"}]
  BY <1>1 DEF VerdictInv, Shapes
<1>3. Shapes'
  BY <1>1, <1>2 DEF VerdictInv, Shapes
<1>4. \A j \in Lanes : (pc'[j] \in Past <=> pc[j] \in Past) /\ (pc'[j] \in Judged <=> pc[j] \in Judged)
  BY <1>1 DEF VerdictInv, Shapes, Judged
<1>5. CountsFitCode'
  BY <1>1, <1>4 DEF VerdictInv, CountsFitCode
<1>6. VerdictFitsCode'
  BY <1>1, <1>4 DEF VerdictInv, VerdictFitsCode
<1>7. HistoryIsOfJobs'
  BY <1>1 DEF VerdictInv, Shapes, HistoryIsOfJobs, Judged
<1> QED
  BY <1>3, <1>5, <1>6, <1>7 DEF VerdictInv

LEMMA InitVerdict == Init => VerdictInv
<1> SUFFICES ASSUME Init
             PROVE  VerdictInv
  OBVIOUS
<1>1. Shapes
  BY DEF Init, Shapes, Past, NewStats, Stats, NoText
<1> QED
  BY <1>1 DEF Init, VerdictInv, CountsFitCode, VerdictFitsCode, HistoryIsOfJobs, Past, Judged

LEMMA StepVerdict == VerdictInv /\ [Next]_vars => VerdictInv'
<1> SUFFICES ASSUME VerdictInv, [Next]_vars
             PROVE  VerdictInv'
  OBVIOUS
<1> USE DEF VerdictInv, GoTo
<1>1. ASSUME NEW l \in Lanes, NEW kind \in Kinds(mode[l]), PrintLine(l, kind)
      PROVE  VerdictInv'
  <2>1. kind \in Kinds("robocopy") /\ mode[l] \in {"rclone", "robocopy"}
    BY DEF Kinds, Shapes
  <2>2. Len(printed[l]) + 1 \in Nat /\ Append(printed[l], kind) \in Seq(Kinds("robocopy"))
    BY <2>1 DEF Shapes
  <2>3. Shapes'
    <3> DEFINE n == Len(printed[l]) + 1
    <3>1. Feed(mode[l], stats[l], kind, n) \in Stats
      BY <2>1, <2>2, FeedKeepsStats DEF Shapes
    <3>2. /\ printed' = [printed EXCEPT ![l] = Append(@, kind)]
          /\ stats' = [stats EXCEPT ![l] = Feed(mode[l], @, kind, n)]
          /\ lastLine' \in {lastLine, [lastLine EXCEPT ![l] = n]}
          /\ UNCHANGED <<mode, code, pc, status, history>>
      BY <1>1 DEF PrintLine
    <3> HIDE DEF n
    <3>3. n \in Nat
      BY <2>2 DEF n
    <3> QED
      BY <2>2, <3>1, <3>2, <3>3 DEF Shapes
  <2>4. /\ pc[l] = "streaming" /\ UNCHANGED <<mode, code, pc, status, history>>
        /\ \A m \in Lanes : m # l => stats'[m] = stats[m]
    BY <1>1 DEF PrintLine, Shapes
  <2>5. CountsFitCode' /\ VerdictFitsCode'
    BY <2>4 DEF CountsFitCode, VerdictFitsCode, Past, Judged
  <2>6. HistoryIsOfJobs'
    BY <2>4 DEF HistoryIsOfJobs
  <2> QED
    BY <2>3, <2>5, <2>6
<1>2. ASSUME NEW l \in Lanes, NEW c \in ExitCodes, Exit(l, c)
      PROVE  VerdictInv'
  <2>1. c \in Int /\ stats[l] \in Stats /\ lastLine[l] \in Nat /\ mode[l] \in {"rclone", "robocopy"}
    BY OutputAssumption DEF Shapes
  <2>2. /\ pc[l] = "streaming" /\ pc' = [pc EXCEPT ![l] = "exited"]
        /\ code' = [code EXCEPT ![l] = c]
        /\ stats' = [stats EXCEPT ![l] = Finalize(mode[l], @, lastLine[l], c)]
        /\ UNCHANGED <<mode, printed, lastLine, tail, errors, status, log, lock, logged,
                       history, faults>>
    BY <1>2 DEF Exit
  <2>3. Shapes'
    BY <2>1, <2>2, FinalizeFitsCode DEF Shapes, Past
  <2>4. CountsFitCode'
    BY <2>1, <2>2, FinalizeFitsCode DEF CountsFitCode, Shapes, Past
  <2>5. VerdictFitsCode' /\ HistoryIsOfJobs'
    BY <2>2 DEF VerdictFitsCode, HistoryIsOfJobs, Shapes, Judged, Past
  <2> QED
    BY <2>3, <2>4, <2>5
<1>3. ASSUME NEW l \in Lanes, Judge(l)
      PROVE  VerdictInv'
  <2> DEFINE failed == IsFailedExitCode(mode[l], code[l])
  <2>1. /\ pc[l] = "exited"
        /\ status' = [status EXCEPT ![l] = IF failed THEN "FAIL" ELSE "OK"]
        /\ pc' = [pc EXCEPT ![l] = IF failed THEN "lock" ELSE "record"]
        /\ UNCHANGED <<mode, printed, stats, lastLine, code, history>>
    BY <1>3 DEF Judge, streamVars
  <2> HIDE DEF failed
  <2>2. Shapes' /\ CountsFitCode'
    BY <2>1 DEF Shapes, CountsFitCode, Past
  <2>3. VerdictFitsCode'
    BY <2>1 DEF failed, Shapes, VerdictFitsCode, Judged
  <2>4. HistoryIsOfJobs'
    BY <2>1 DEF Shapes, HistoryIsOfJobs
  <2> QED
    BY <2>2, <2>3, <2>4
<1>4. ASSUME NEW l \in Lanes, TakeLogLock(l) \/ LogFails(l)
      PROVE  VerdictInv'
  <2>1. /\ pc[l] \in Judged \ {"recorded"} /\ (GoTo(l, "head") \/ GoTo(l, "record"))
        /\ UNCHANGED <<mode, streamVars, code, status, history>>
    BY <1>4 DEF TakeLogLock, LogFails, Judged, Past
  <2> QED
    BY <2>1, MovingOn DEF Judged, Past
<1>5. ASSUME NEW l \in Lanes, WriteHead(l) \/ WriteBody(l)
      PROVE  VerdictInv'
  <2>1. /\ pc[l] \in Judged \ {"recorded"} /\ (GoTo(l, "body") \/ GoTo(l, "record"))
        /\ UNCHANGED <<mode, streamVars, code, status, history>>
    BY <1>5 DEF WriteHead, WriteBody, Judged, Past
  <2> QED
    BY <2>1, MovingOn DEF Judged, Past
<1>6. ASSUME NEW l \in Lanes, Record(l)
      PROVE  VerdictInv'
  BY <1>6 DEF Record, streamVars, Shapes, CountsFitCode, VerdictFitsCode, HistoryIsOfJobs,
              Judged, Past
<1>7. CASE UNCHANGED vars
  BY <1>7 DEF vars, streamVars, Shapes, CountsFitCode, VerdictFitsCode, HistoryIsOfJobs
<1> QED
  BY <1>1, <1>2, <1>3, <1>4, <1>5, <1>6, <1>7 DEF Next, AfterExit

LEMMA VerdictInvariance == Spec => []VerdictInv
  BY InitVerdict, StepVerdict, PTL DEF Spec

(* Whatever a robocopy job printed and however it exited, its recorded     *)
(* status and its error count never contradict each other.                 *)
THEOREM StatusFitsErrors == Spec => []StatusMatchesErrors
<1>1. VerdictInv => StatusMatchesErrors
  <2> SUFFICES ASSUME VerdictInv, NEW h \in history, mode[h.lane] = "robocopy"
               PROVE  /\ h.status = "OK" => h.stats.errors = 0 /\ h.stats.last = NoText
                      /\ h.status = "FAIL" => h.stats.errors > 0 /\ h.stats.last # NoText
    BY DEF StatusMatchesErrors
  <2>1. /\ h.lane \in Lanes /\ pc[h.lane] = "recorded"
        /\ h.status = status[h.lane] /\ h.stats = stats[h.lane]
        /\ code[h.lane] \in Int
    BY DEF VerdictInv, HistoryIsOfJobs, Shapes
  <2> QED
    BY <2>1 DEF VerdictInv, CountsFitCode, VerdictFitsCode, IsFailedExitCode, Judged, Past
<1> QED
  BY <1>1, VerdictInvariance, PTL

------------------------------------------------------------------------------
(* The sections of the failure log.                                        *)

IsLog == \E S : log \in Seq(S)

(* Only the lane that has the lock is writing, and what it writes last is  *)
(* its own.                                                                *)
WriterHasLock == \A l \in Lanes : pc[l] \in {"head", "body"} => lock = l
HeadIsLast ==
    \A l \in Lanes : pc[l] = "body" =>
        Len(log) > 0 /\ log[Len(log)].part = "head" /\ log[Len(log)].lane = l

BodiesFollowHeads ==
    \A i \in DOMAIN log : log[i].part = "body" =>
        i > 1 /\ log[i - 1].part = "head" /\ log[i - 1].lane = log[i].lane
LoggedHaveBodies ==
    \A l \in logged : \E i \in DOMAIN log : log[i].part = "body" /\ log[i].lane = l

(* Failed jobs past their section that have none: one for each fault.      *)
Unlogged == {l \in Lanes : pc[l] \in {"record", "recorded"} /\ status[l] = "FAIL"} \ logged
FaultsCount ==
    /\ faults \in Nat
    /\ IsFiniteSet(Unlogged)
    /\ Cardinality(Unlogged) <= faults

SectionInv ==
    /\ IsLog
    /\ WriterHasLock /\ HeadIsLast
    /\ BodiesFollowHeads /\ LoggedHaveBodies
    /\ FaultsCount

LEMMA AppendToLog ==
    ASSUME NEW S, NEW s \in Seq(S), NEW e
    PROVE  /\ Append(s, e) \in Seq(S \cup {e})
           /\ Len(s) \in Nat
           /\ DOMAIN s = 1 .. Len(s)
           /\ DOMAIN Append(s, e) = 1 .. Len(s) + 1
           /\ Len(Append(s, e)) = Len(s) + 1
           /\ \A i \in 1 .. Len(s) : Append(s, e)[i] = s[i]
           /\ Append(s, e)[Len(s) + 1] = e
<1>1. s \in Seq(S \cup {e}) /\ e \in S \cup {e}
  OBVIOUS
<1> QED
  BY <1>1

LEMMA InitSections == Init => SectionInv
<1> SUFFICES ASSUME Init
             PROVE  SectionInv
  OBVIOUS
<1>1. IsLog
  BY DEF Init, IsLog
<1>2. WriterHasLock /\ HeadIsLast
  BY DEF Init, WriterHasLock, HeadIsLast
<1>3. BodiesFollowHeads /\ LoggedHaveBodies
  BY DEF Init, BodiesFollowHeads, LoggedHaveBodies
<1>4. Unlogged = {}
  BY DEF Init, Unlogged
<1>5. FaultsCount
  BY <1>4, FS_EmptySet DEF Init, FaultsCount
<1> QED
  BY <1>1, <1>2, <1>3, <1>5 DEF SectionInv

(* No step but a fault adds to the unlogged.                               *)
LEMMA CountStays ==
    ASSUME FaultsCount, Unlogged' \subseteq Unlogged, faults' = faults
    PROVE  FaultsCount'
BY FS_Subset, FS_CardinalityType DEF FaultsCount

(* A step of lane l outside its section leaves the log as it is.           *)
LEMMA OutsideSection ==
    ASSUME SectionInv, NEW l \in Lanes, pc \in [Lanes -> Past \cup {"streaming"}],
           NEW there \in Past, pc' = [pc EXCEPT ![l] = there],
           pc[l] \notin {"head", "body"}, there \notin {"head", "body"},
           UNCHANGED <<log, lock, logged>>,
           faults' = faults, Unlogged' \subseteq Unlogged
    PROVE  SectionInv'
<1>1. IsLog' /\ BodiesFollowHeads' /\ LoggedHaveBodies'
  BY DEF SectionInv, IsLog, BodiesFollowHeads, LoggedHaveBodies
<1>2. WriterHasLock' /\ HeadIsLast'
  BY DEF SectionInv, WriterHasLock, HeadIsLast
<1>3. FaultsCount'
  BY CountStays DEF SectionInv
<1> QED
  BY <1>1, <1>2, <1>3 DEF SectionInv

LEMMA StepSections == VerdictInv /\ SectionInv /\ [Next]_vars => SectionInv'
<1> SUFFICES ASSUME VerdictInv, SectionInv, [Next]_vars
             PROVE  SectionInv'
  OBVIOUS
<1>0. /\ pc \in [Lanes -> Past \cup {"streaming"}]
      /\ status \in [Lanes -> {"RUNNING", "OK", "FAIL"}]
  BY DEF VerdictInv, Shapes
<1>1. ASSUME NEW l \in Lanes, NEW kind \in Kinds(mode[l]), PrintLine(l, kind)
      PROVE  SectionInv'
  <2>1. UNCHANGED <<pc, status, log, lock, logged, faults>>
    BY <1>1 DEF PrintLine
  <2>2. Unlogged' = Unlogged
    BY <2>1 DEF Unlogged
  <2>3. FaultsCount'
    BY <2>1, <2>2 DEF SectionInv, FaultsCount
  <2> QED
    BY <2>1, <2>3 DEF SectionInv, IsLog, WriterHasLock, HeadIsLast, BodiesFollowHeads,
                      LoggedHaveBodies
<1>2. ASSUME NEW l \in Lanes, NEW c \in ExitCodes, Exit(l, c)
      PROVE  SectionInv'
  <2>1. /\ pc[l] = "streaming" /\ pc' = [pc EXCEPT ![l] = "exited"]
        /\ UNCHANGED <<status, log, lock, logged, faults>>
    BY <1>2 DEF Exit, GoTo
  <2>2. Unlogged' \subseteq Unlogged
    BY <1>0, <2>1 DEF Unlogged
  <2> QED
    BY <1>0, <2>1, <2>2, OutsideSection DEF Past
<1>3. ASSUME NEW l \in Lanes, Judge(l)
      PROVE  SectionInv'
  <2> DEFINE failed == IsFailedExitCode(mode[l], code[l])
  <2>1. /\ pc[l] = "exited"
        /\ status' = [status EXCEPT ![l] = IF failed THEN "FAIL" ELSE "OK"]
        /\ pc' = [pc EXCEPT ![l] = IF failed THEN "lock" ELSE "record"]
        /\ UNCHANGED <<log, lock, logged, faults>>
    BY <1>3 DEF Judge, GoTo
  <2> HIDE DEF failed
  <2>2. Unlogged' \subseteq Unlogged
    BY <1>0, <2>1 DEF Unlogged
  <2>3. /\ (IF failed THEN "lock" ELSE "record") \in Past
        /\ (IF failed THEN "lock" ELSE "record") \notin {"head", "body"}
    BY DEF Past
  <2> QED
    BY <1>0, <2>1, <2>2, <2>3, OutsideSection
<1>4. ASSUME NEW l \in Lanes, TakeLogLock(l)
      PROVE  SectionInv'
  <2>1. /\ pc[l] = "lock" /\ lock = Nobody /\ lock' = l
        /\ pc' = [pc EXCEPT ![l] = "head"]
        /\ UNCHANGED <<status, log, logged, faults>>
    BY <1>4 DEF TakeLogLock, GoTo
  <2>2. \A m \in Lanes : pc[m] \notin {"head", "body"}
    BY <2>1, OutputAssumption DEF SectionInv, WriterHasLock
  <2>3. WriterHasLock' /\ HeadIsLast'
    BY <1>0, <2>1, <2>2 DEF WriterHasLock, HeadIsLast
  <2>4. Unlogged' \subseteq Unlogged
    BY <1>0, <2>1 DEF Unlogged
  <2>5. FaultsCount'
    BY <2>1, <2>4, CountStays DEF SectionInv
  <2> QED
    BY <2>1, <2>3, <2>5 DEF SectionInv, IsLog, BodiesFollowHeads, LoggedHaveBodies
<1>5. ASSUME NEW l \in Lanes, WriteHead(l)
      PROVE  SectionInv'
  <2> DEFINE e == [lane |-> l, part |-> "head", lines |-> errors[l],
                   count |-> stats[l].errors, last |-> stats[l].last]
  <2>1. /\ pc[l] = "head" /\ pc' = [pc EXCEPT ![l] = "body"]
        /\ log' = Append(log, e)
        /\ UNCHANGED <<status, lock, logged, faults>>
    BY <1>5 DEF WriteHead, GoTo
  <2>2. e.part = "head" /\ e.lane = l
    OBVIOUS
  <2> HIDE DEF e
  <2>3. PICK S : log \in Seq(S)
    BY DEF SectionInv, IsLog
  <2>4. /\ log' \in Seq(S \cup {e})
        /\ Len(log) \in Nat
        /\ DOMAIN log = 1 .. Len(log)
        /\ DOMAIN log' = 1 .. Len(log) + 1
        /\ Len(log') = Len(log) + 1
        /\ \A i \in 1 .. Len(log) : log'[i] = log[i]
        /\ log'[Len(log) + 1] = e
    BY <2>1, <2>3, AppendToLog
  <2>5. IsLog'
    BY <2>4 DEF IsLog
  <2>6. WriterHasLock' /\ HeadIsLast'
    <3>1. \A m \in Lanes \ {l} : pc[m] \notin {"head", "body"}
      BY <2>1 DEF SectionInv, WriterHasLock
    <3> QED
      BY <1>0, <2>1, <2>2, <2>4, <3>1 DEF SectionInv, WriterHasLock, HeadIsLast
  <2>7. BodiesFollowHeads'
    <3> SUFFICES ASSUME NEW i \in 1 .. Len(log) + 1, log'[i].part = "body"
                 PROVE  i > 1 /\ log'[i - 1].part = "head" /\ log'[i - 1].lane = log'[i].lane
      BY <2>4 DEF BodiesFollowHeads
    <3>1. i \in 1 .. Len(log)
      BY <2>2, <2>4
    <3>2. log'[i] = log[i]
      BY <2>4, <3>1
    <3>3. i > 1 /\ log[i - 1].part = "head" /\ log[i - 1].lane = log[i].lane
      BY <2>4, <3>1, <3>2 DEF SectionInv, BodiesFollowHeads
    <3>4. i - 1 \in 1 .. Len(log)
      BY <2>4, <3>1, <3>3
    <3> QED
      BY <2>4, <3>2, <3>3, <3>4
  <2>8. LoggedHaveBodies'
    BY <2>1, <2>4 DEF SectionInv, LoggedHaveBodies
  <2>9. Unlogged' \subseteq Unlogged
    BY <1>0, <2>1 DEF Unlogged
  <2>10. FaultsCount'
    BY <2>1, <2>9, CountStays DEF SectionInv
  <2> QED
    BY <2>5, <2>6, <2>7, <2>8, <2>10 DEF SectionInv
<1>6. ASSUME NEW l \in Lanes, WriteBody(l)
      PROVE  SectionInv'
  <2> DEFINE e == [lane |-> l, part |-> "body", lines |-> tail[l]]
  <2>1. /\ pc[l] = "body" /\ pc' = [pc EXCEPT ![l] = "record"]
        /\ log' = Append(log, e)
        /\ logged' = logged \cup {l}
        /\ UNCHANGED <<status, faults>>
    BY <1>6 DEF WriteBody, GoTo
  <2>2. e.part = "body" /\ e.lane = l
    OBVIOUS
  <2> HIDE DEF e
  <2>3. PICK S : log \in Seq(S)
    BY DEF SectionInv, IsLog
  <2>4. /\ log' \in Seq(S \cup {e})
        /\ Len(log) \in Nat
        /\ DOMAIN log = 1 .. Len(log)
        /\ DOMAIN log' = 1 .. Len(log) + 1
        /\ \A i \in 1 .. Len(log) : log'[i] = log[i]
        /\ log'[Len(log) + 1] = e
    BY <2>1, <2>3, AppendToLog
  <2>5. IsLog'
    BY <2>4 DEF IsLog
  <2>6. WriterHasLock' /\ HeadIsLast'
    <3>1. \A m \in Lanes \ {l} : pc[m] \notin {"head", "body"}
      BY <2>1 DEF SectionInv, WriterHasLock
    <3> QED
      BY <1>0, <2>1, <3>1 DEF WriterHasLock, HeadIsLast
  <2>7. BodiesFollowHeads'
    <3>1. Len(log) > 0 /\ log[Len(log)].part = "head" /\ log[Len(log)].lane = l
      BY <2>1 DEF SectionInv, HeadIsLast
    <3> SUFFICES ASSUME NEW i \in 1 .. Len(log) + 1, log'[i].part = "body"
                 PROVE  i > 1 /\ log'[i - 1].part = "head" /\ log'[i - 1].lane = log'[i].lane
      BY <2>4 DEF BodiesFollowHeads
    <3>2. CASE i = Len(log) + 1
      <4>1. i - 1 = Len(log) /\ i > 1 /\ Len(log) \in 1 .. Len(log)
        BY <2>4, <3>1, <3>2
      <4>2. log'[i - 1] = log[Len(log)] /\ log'[i] = e
        BY <2>4, <3>2, <4>1
      <4> QED
        BY <2>2, <3>1, <4>1, <4>2
    <3>3. CASE i \in 1 .. Len(log)
      <4>1. log'[i] = log[i]
        BY <2>4, <3>3
      <4>2. i > 1 /\ log[i - 1].part = "head" /\ log[i - 1].lane = log[i].lane
        BY <2>4, <3>3, <4>1 DEF SectionInv, BodiesFollowHeads
      <4>3. i - 1 \in 1 .. Len(log)
        BY <2>4, <3>3, <4>2
      <4> QED
        BY <2>4, <4>1, <4>2, <4>3
    <3> QED
      BY <2>4, <3>2, <3>3
  <2>8. LoggedHaveBodies'
    <3> SUFFICES ASSUME NEW m \in logged \cup {l}
                 PROVE  \E i \in 1 .. Len(log) + 1 : log'[i].part = "body" /\ log'[i].lane = m
      BY <2>1, <2>4 DEF LoggedHaveBodies
    <3>1. CASE m = l
      BY <2>2, <2>4, <3>1
    <3>2. CASE m \in logged
      BY <2>4, <3>2 DEF SectionInv, LoggedHaveBodies
    <3> QED
      BY <3>1, <3>2
  <2>9. Unlogged' \subseteq Unlogged
    BY <1>0, <2>1 DEF Unlogged
  <2>10. FaultsCount'
    BY <2>1, <2>9, CountStays DEF SectionInv
  <2> QED
    BY <2>5, <2>6, <2>7, <2>8, <2>10 DEF SectionInv
<1>7. ASSUME NEW l \in Lanes, LogFails(l)
      PROVE  SectionInv'
  <2>1. /\ pc[l] \in {"head", "body"} /\ pc' = [pc EXCEPT ![l] = "record"]
        /\ faults' = faults + 1
        /\ UNCHANGED <<status, log, logged>>
    BY <1>7 DEF LogFails, GoTo
  <2>2. \A m \in Lanes \ {l} : pc[m] \notin {"head", "body"}
    BY <2>1 DEF SectionInv, WriterHasLock
  <2>3. WriterHasLock' /\ HeadIsLast'
    BY <1>0, <2>1, <2>2 DEF WriterHasLock, HeadIsLast
  <2>4. FaultsCount'
    <3>1. Unlogged' \subseteq Unlogged \cup {l}
      BY <1>0, <2>1 DEF Unlogged
    <3>2. /\ faults \in Nat /\ IsFiniteSet(Unlogged) /\ Cardinality(Unlogged) <= faults
      BY DEF SectionInv, FaultsCount
    <3>3. /\ IsFiniteSet(Unlogged \cup {l})
          /\ Cardinality(Unlogged \cup {l}) <= Cardinality(Unlogged) + 1
          /\ Cardinality(Unlogged) \in Nat
      <4>1. /\ IsFiniteSet(Unlogged \cup {l})
            /\ Cardinality(Unlogged \cup {l}) = IF l \in Unlogged THEN Cardinality(Unlogged)
                                                  ELSE Cardinality(Unlogged) + 1
        BY <3>2, FS_AddElement, Zenon
      <4>2. Cardinality(Unlogged) \in Nat
        BY <3>2, FS_CardinalityType
      <4> QED
        BY <4>1, <4>2
    <3>4. /\ IsFiniteSet(Unlogged') /\ Cardinality(Unlogged') <= Cardinality(Unlogged \cup {l})
      BY <3>1, <3>3, FS_Subset
    <3>5. Cardinality(Unlogged') \in Nat /\ Cardinality(Unlogged \cup {l}) \in Nat
      BY <3>3, <3>4, FS_CardinalityType
    <3>6. Cardinality(Unlogged') <= faults'
      BY <2>1, <3>2, <3>3, <3>4, <3>5
    <3> QED
      BY <2>1, <3>2, <3>4, <3>6 DEF FaultsCount
  <2> QED
    BY <2>1, <2>3, <2>4 DEF SectionInv, IsLog, BodiesFollowHeads, LoggedHaveBodies
<1>8. ASSUME NEW l \in Lanes, Record(l)
      PROVE  SectionInv'
  <2>1. /\ pc[l] = "record" /\ pc' = [pc EXCEPT ![l] = "recorded"]
        /\ UNCHANGED <<status, log, lock, logged, faults>>
    BY <1>8 DEF Record, GoTo
  <2>2. Unlogged' \subseteq Unlogged
    BY <1>0, <2>1 DEF Unlogged
  <2> QED
    BY <1>0, <2>1, <2>2, OutsideSection DEF Past
<1>9. CASE UNCHANGED vars
  <2>1. UNCHANGED <<pc, status, log, lock, logged, faults>>
    BY <1>9 DEF vars
  <2>2. Unlogged' = Unlogged
    BY <2>1 DEF Unlogged
  <2>3. FaultsCount'
    BY <2>1, <2>2 DEF SectionInv, FaultsCount
  <2> QED
    BY <2>1, <2>3 DEF SectionInv, IsLog, WriterHasLock, HeadIsLast, BodiesFollowHeads,
                      LoggedHaveBodies
<1> QED
  BY <1>1, <1>2, <1>3, <1>4, <1>5, <1>6, <1>7, <1>8, <1>9 DEF Next, AfterExit

(* However many jobs fail together, their sections of the failure log are  *)
(* whole and apart, and only a failed write leaves a failed job without.   *)
THEOREM SectionsWhole == Spec => []SectionsAreWhole
<1>1. VerdictInv /\ SectionInv => SectionsAreWhole
  <2> SUFFICES ASSUME VerdictInv, SectionInv
               PROVE  SectionsAreWhole
    OBVIOUS
  <2> DEFINE failed == {h.lane : h \in {k \in history : k.status = "FAIL"}} \ logged
  <2>1. failed \subseteq Unlogged
    BY DEF VerdictInv, HistoryIsOfJobs, Unlogged
  <2>2. Cardinality(failed) <= faults
    <3> HIDE DEF failed
    <3>1. /\ IsFiniteSet(failed) /\ Cardinality(failed) <= Cardinality(Unlogged)
          /\ Cardinality(failed) \in Nat /\ Cardinality(Unlogged) \in Nat
      BY <2>1, FS_Subset, FS_CardinalityType DEF SectionInv, FaultsCount
    <3> QED
      BY <3>1 DEF SectionInv, FaultsCount
  <2> QED
    BY <2>2 DEF SectionInv, BodiesFollowHeads, LoggedHaveBodies, SectionsAreWhole
<1> QED
  BY <1>1, InitSections, StepSections, VerdictInvariance, PTL DEF Spec

------------------------------------------------------------------------------
(* The buffers.                                                            *)

(* Increasing numbers stay so when a greater one follows them.             *)
LEMMA IncreasingExtends ==
    ASSUME NEW len \in Nat, NEW s, NEW t, NEW n \in Nat,
           \A i \in 1 .. len : s[i] \in Nat /\ s[i] < n /\ t[i] = s[i],
           \A i, k \in 1 .. len : i < k => s[i] < s[k],
           t[len + 1] = n
    PROVE  \A i, k \in 1 .. len + 1 : i < k => t[i] < t[k]
<1> SUFFICES ASSUME NEW i \in 1 .. len + 1, NEW k \in 1 .. len + 1, i < k
             PROVE  t[i] < t[k]
  OBVIOUS
<1>1. i \in 1 .. len /\ t[i] = s[i] /\ s[i] < n
  <2>1. i \in 1 .. len
    OBVIOUS
  <2> QED
    BY <2>1
<1>2. CASE k = len + 1
  BY <1>1, <1>2
<1>3. CASE k # len + 1
  <2>1. k \in 1 .. len
    BY <1>3
  <2>2. t[k] = s[k] /\ s[i] < s[k]
    BY <1>1, <2>1
  <2> QED
    BY <1>1, <2>2
<1> QED
  BY <1>2, <1>3

(* And when the first of them leaves.                                      *)
LEMMA IncreasingShifts ==
    ASSUME NEW len \in Nat \ {0}, NEW s, NEW t, NEW n \in Nat,
           \A i \in 1 .. len : s[i] \in Nat /\ s[i] < n,
           \A i, k \in 1 .. len : i < k => s[i] < s[k],
           \A i \in 1 .. len : i # len => t[i] = s[i + 1],
           t[len] = n
    PROVE  /\ \A i, k \in 1 .. len : i < k => t[i] < t[k]
           /\ \A i \in 1 .. len : s[1] < t[i]
<1>1. ASSUME NEW i \in 1 .. len, i # len
      PROVE  /\ i + 1 \in 1 .. len /\ 1 \in 1 .. len /\ 1 < i + 1 /\ t[i] = s[i + 1]
             /\ s[i + 1] < n /\ s[1] < t[i]
  <2>1. i + 1 \in 1 .. len /\ 1 \in 1 .. len /\ 1 < i + 1
    BY <1>1
  <2>2. t[i] = s[i + 1] /\ s[i + 1] < n /\ s[1] < s[i + 1]
    BY <1>1, <2>1
  <2> QED
    BY <2>1, <2>2
<1>2. ASSUME NEW i \in 1 .. len, NEW k \in 1 .. len, i < k
      PROVE  t[i] < t[k]
  <2>1. i # len
    BY <1>2
  <2>2. CASE k = len
    BY <1>1, <2>1, <2>2
  <2>3. CASE k # len
    <3>1. i + 1 < k + 1
      BY <1>2
    <3> QED
      BY <1>1, <2>1, <2>3, <3>1
  <2> QED
    BY <2>2, <2>3
<1>3. 1 \in 1 .. len /\ s[1] < n
  <2>1. 1 \in 1 .. len
    OBVIOUS
  <2> QED
    BY <2>1
<1> QED
  BY <1>1, <1>2, <1>3

(* A deque with room takes the number, a full one drops its oldest for it. *)
LEMMA PushAppends ==
    ASSUME NEW s \in Seq(Nat), NEW limit \in Nat, NEW n \in Nat
    PROVE  /\ Push(s, n, limit) \in Seq(Nat)
           /\ Len(s) < limit => /\ Push(s, n, limit) = Append(s, n)
                                /\ Len(Push(s, n, limit)) <= limit
           /\ Len(s) = limit => /\ Push(s, n, limit) = Tail(Append(s, n))
                                /\ Len(Push(s, n, limit)) = limit
<1>1. /\ Len(s) \in Nat /\ Append(s, n) \in Seq(Nat) /\ Append(s, n) # << >>
      /\ Len(Append(s, n)) = Len(s) + 1
  OBVIOUS
<1>2. Tail(Append(s, n)) \in Seq(Nat) /\ Len(Tail(Append(s, n))) = Len(s)
  BY <1>1
<1> QED
  BY <1>1, <1>2 DEF Push

(* Appending a new number to a deque that holds the newest ones, it does.  *)
LEMMA PushKeepsNewest ==
    ASSUME NEW s \in Seq(Nat), NEW S, NEW limit \in Nat \ {0}, NEW n \in Nat,
           Newest(s, S, limit), \A x \in S : x \in Nat /\ x < n
    PROVE  Push(s, n, limit) \in Seq(Nat) /\ Newest(Push(s, n, limit), S \cup {n}, limit)
<1> DEFINE all == Append(s, n)
<1>0. limit \in Nat /\ limit # 0
  OBVIOUS
<1>1. /\ Len(s) \in Nat /\ DOMAIN s = 1 .. Len(s) /\ Len(s) <= limit
      /\ \A i \in 1 .. Len(s) : s[i] \in Nat
      /\ \A i, k \in 1 .. Len(s) : i < k => s[i] < s[k]
  <2>1. Len(s) \in Nat /\ DOMAIN s = 1 .. Len(s) /\ \A i \in 1 .. Len(s) : s[i] \in Nat
    OBVIOUS
  <2> QED
    BY <2>1 DEF Newest
<1>2. \A i \in 1 .. Len(s) : s[i] \in S /\ s[i] < n
  BY <1>1 DEF Newest
<1>3. ASSUME NEW x \in S, x \notin ToSet(s)
      PROVE  Len(s) = limit /\ \A i \in 1 .. Len(s) : x < s[i]
  BY <1>0, <1>1, <1>3 DEF Newest
<1>4. /\ all \in Seq(Nat) /\ Len(all) = Len(s) + 1 /\ DOMAIN all = 1 .. Len(s) + 1
      /\ \A i \in 1 .. Len(s) : all[i] = s[i]
      /\ all[Len(s) + 1] = n
  OBVIOUS
<1> HIDE DEF all
<1>5. CASE Len(s) < limit
  <2>1. Push(s, n, limit) = all /\ Len(all) <= limit
    BY <1>0, <1>5, PushAppends DEF all
  <2>2. \A i \in 1 .. Len(s) + 1 : all[i] \in S \cup {n}
    <3>1. \A i \in 1 .. Len(s) + 1 : i \in 1 .. Len(s) \/ i = Len(s) + 1
      BY <1>0, <1>1
    <3> QED
      BY <1>2, <1>4, <3>1
  <2>3. \A i, k \in 1 .. Len(s) + 1 : i < k => all[i] < all[k]
    <3>1. \A i \in 1 .. Len(s) : s[i] \in Nat /\ s[i] < n /\ all[i] = s[i]
      BY <1>1, <1>2, <1>4, Zenon
    <3>2. /\ Len(s) \in Nat /\ \A i, k \in 1 .. Len(s) : i < k => s[i] < s[k]
          /\ all[Len(s) + 1] = n
      BY <1>1, <1>4, Zenon
    <3> QED
      BY <3>1, <3>2, IncreasingExtends, Zenon
  <2>4. S \cup {n} \subseteq ToSet(all)
    <3>1. ASSUME NEW x \in S
          PROVE  x \in ToSet(all)
      <4>1. x \in ToSet(s)
        <5>1. Len(s) # limit
          <6>1. Len(s) \in Nat
            BY <1>1, Zenon
          <6> QED
            BY <1>0, <1>5, <6>1
        <5> QED
          BY <1>3, <5>1, Zenon
      <4>2. PICK i \in 1 .. Len(s) : x = s[i]
        BY <1>0, <1>1, <4>1 DEF ToSet
      <4>3. i \in DOMAIN all /\ all[i] = x
        BY <1>0, <1>1, <1>4, <4>2
      <4> QED
        BY <4>3 DEF ToSet
    <3>2. Len(s) + 1 \in DOMAIN all
      BY <1>0, <1>1, <1>4
    <3> QED
      BY <1>4, <3>1, <3>2 DEF ToSet
  <2> QED
    BY <1>4, <2>1, <2>2, <2>3, <2>4 DEF Newest
<1>6. CASE Len(s) = limit
  <2> DEFINE t == Tail(all)
  <2>1. /\ t \in Seq(Nat) /\ Len(t) = Len(s)
        /\ \A i \in 1 .. Len(s) : t[i] = all[i + 1]
    BY <1>0, <1>1, <1>4, <1>6
  <2>2. Push(s, n, limit) = t
    BY <1>0, <1>1, <1>4, <1>6 DEF Push, all
  <2> HIDE DEF t
  <2>3. /\ DOMAIN t = 1 .. Len(s) /\ Len(s) \in 1 .. Len(s) /\ t[Len(s)] = n
        /\ \A i \in 1 .. Len(s) : i # Len(s) => i + 1 \in 1 .. Len(s) /\ t[i] = s[i + 1]
    BY <1>0, <1>1, <1>4, <1>6, <2>1
  <2>4. \A i \in 1 .. Len(s) : t[i] \in S \cup {n}
    BY <1>2, <2>3
  <2>5. /\ \A i, k \in 1 .. Len(s) : i < k => t[i] < t[k]
        /\ \A i \in 1 .. Len(s) : s[1] < t[i]
    BY <1>0, <1>1, <1>2, <1>6, <2>3, IncreasingShifts
  <2>6. ASSUME NEW x \in (S \cup {n}) \ ToSet(t), NEW i \in 1 .. Len(s)
        PROVE  x < t[i]
    <3>1. \A k \in 1 .. Len(s) : x # t[k]
      BY <2>3 DEF ToSet
    <3>2. x \in S /\ x \in Nat /\ x < n
      BY <2>3, <3>1
    <3>3. CASE x \in ToSet(s)
      <4>1. PICK k \in 1 .. Len(s) : x = s[k]
        BY <1>0, <1>1, <3>3 DEF ToSet
      <4>2. k = 1
        <5>1. k # 1 => k - 1 \in 1 .. Len(s) /\ k - 1 # Len(s) /\ (k - 1) + 1 = k
          BY <1>0, <1>1
        <5>2. k # 1 => t[k - 1] = s[k]
          BY <2>3, <5>1
        <5> QED
          BY <3>1, <4>1, <5>1, <5>2
      <4> QED
        BY <2>5, <4>1, <4>2, Zenon
    <3>4. CASE x \notin ToSet(s)
      <4>1. \A k \in 1 .. Len(s) : x < s[k]
        BY <1>3, <3>2, <3>4
      <4> QED
        BY <2>3, <3>2, <4>1
    <3> QED
      BY <3>3, <3>4
  <2> QED
    BY <1>0, <1>1, <1>6, <2>1, <2>2, <2>3, <2>4, <2>5, <2>6 DEF Newest
<1>7. Len(s) < limit \/ Len(s) = limit
  <2>1. Len(s) \in Nat /\ Len(s) <= limit
    BY <1>1, Zenon
  <2> QED
    BY <1>0, <2>1
<1> QED
  BY <1>0, <1>5, <1>6, <1>7, PushAppends

(* What a lane's buffers and its parser hold of the lines it has printed,  *)
(* and what the log has of them.                                           *)
LaneBuffers(l) ==
    /\ printed[l] \in Seq(Kinds(mode[l])) /\ Len(printed[l]) <= MaxLines[l]
    /\ Newest(tail[l], DOMAIN printed[l], TailLines)
    /\ Newest(errors[l], Said(l), ErrorLines)
    /\ lastLine[l] \in Said(l) \cup {NoText} /\ \A n \in Said(l) : n <= lastLine[l]
    /\ stats[l].last \in {NoText, ExitText, lastLine[l]}
    /\ pc[l] = "streaming" /\ mode[l] = "robocopy" => stats[l].last = NoText

HeadsAreOfLanes ==
    \A i \in DOMAIN log : log[i].part = "head" =>
        /\ log[i].lane \in Lanes /\ pc[log[i].lane] # "streaming"
        /\ log[i].lines = errors[log[i].lane] /\ log[i].last = stats[log[i].lane].last

BufferInv ==
    /\ tail \in [Lanes -> Seq(Nat)] /\ errors \in [Lanes -> Seq(Nat)]
    /\ \A l \in Lanes : LaneBuffers(l)
    /\ HeadsAreOfLanes

OtherTypes ==
    /\ code \in [Lanes -> ExitCodes \cup {0}]
    /\ lock \in Lanes \cup {Nobody}
    /\ logged \subseteq Lanes
    /\ history \subseteq [lane : Lanes, status : {"OK", "FAIL"}, stats : Stats]
    /\ faults \in 0 .. MaxFaults

OutputInv == VerdictInv /\ SectionInv /\ BufferInv /\ OtherTypes

LEMMA InitBuffers == Init => BufferInv /\ OtherTypes
<1> SUFFICES ASSUME Init
             PROVE  BufferInv /\ OtherTypes
  OBVIOUS
<1>1. ASSUME NEW l \in Lanes
      PROVE  LaneBuffers(l)
  <2>1. /\ printed[l] = << >> /\ tail[l] = << >> /\ errors[l] = << >>
        /\ lastLine[l] = NoText /\ stats[l].last = NoText
    BY DEF Init, NewStats
  <2>2. MaxLines[l] \in Nat /\ TailLines \in Nat /\ ErrorLines \in Nat
    BY OutputAssumption
  <2>3. Said(l) = {} /\ DOMAIN printed[l] = {}
    BY <2>1 DEF Said
  <2> QED
    BY <2>1, <2>2, <2>3 DEF LaneBuffers, Newest
<1>2. tail \in [Lanes -> Seq(Nat)] /\ errors \in [Lanes -> Seq(Nat)]
  BY DEF Init
<1>3. HeadsAreOfLanes
  BY DEF Init, HeadsAreOfLanes
<1>4. OtherTypes
  BY OutputAssumption DEF Init, OtherTypes
<1> QED
  BY <1>1, <1>2, <1>3, <1>4 DEF BufferInv

LEMMA PrintKeepsBuffers ==
    ASSUME VerdictInv, BufferInv, NEW l \in Lanes, NEW kind \in Kinds(mode[l]), PrintLine(l, kind)
    PROVE  BufferInv'
<1> DEFINE n == Len(printed[l]) + 1
<1>1. /\ pc[l] = "streaming" /\ n <= MaxLines[l]
      /\ printed' = [printed EXCEPT ![l] = Append(@, kind)]
      /\ tail' = [tail EXCEPT ![l] = Push(@, n, TailLines)]
      /\ errors' = IF kind = "error"
                   THEN [errors EXCEPT ![l] = Push(@, n, ErrorLines)] ELSE errors
      /\ stats' = [stats EXCEPT ![l] = Feed(mode[l], @, kind, n)]
      /\ lastLine' = IF kind = "error" THEN [lastLine EXCEPT ![l] = n] ELSE lastLine
      /\ UNCHANGED <<mode, pc, log>>
  BY DEF PrintLine, IsErrorLine
<1>2. /\ printed[l] \in Seq(Kinds(mode[l])) /\ Len(printed[l]) \in Nat /\ n \in Nat \ {0}
      /\ DOMAIN printed[l] = 1 .. Len(printed[l])
      /\ tail[l] \in Seq(Nat) /\ errors[l] \in Seq(Nat) /\ lastLine[l] \in Nat
      /\ TailLines \in Nat \ {0} /\ ErrorLines \in Nat \ {0}
      /\ stats[l] \in Stats /\ mode[l] \in {"rclone", "robocopy"}
  BY OutputAssumption DEF BufferInv, LaneBuffers, VerdictInv, Shapes
<1>3. /\ printed'[l] \in Seq(Kinds(mode[l])) /\ Len(printed'[l]) = n
      /\ DOMAIN printed'[l] = DOMAIN printed[l] \cup {n}
      /\ \A i \in DOMAIN printed[l] : printed'[l][i] = printed[l][i]
      /\ printed'[l][n] = kind
  <2>1. printed'[l] = Append(printed[l], kind)
    BY <1>1 DEF VerdictInv, Shapes
  <2>2. /\ Append(printed[l], kind) \in Seq(Kinds(mode[l])) /\ Len(Append(printed[l], kind)) = n
        /\ DOMAIN Append(printed[l], kind) = 1 .. n
        /\ \A i \in 1 .. Len(printed[l]) : Append(printed[l], kind)[i] = printed[l][i]
        /\ Append(printed[l], kind)[n] = kind
    BY <1>2
  <2>3. 1 .. n = (1 .. Len(printed[l])) \cup {n}
    <3> DEFINE len == Len(printed[l])
    <3>1. len \in Nat /\ n = len + 1
      BY <1>2
    <3> HIDE DEF len, n
    <3>2. 1 .. n = (1 .. len) \cup {n}
      BY <3>1
    <3> QED
      BY <3>2 DEF len
  <2> QED
    BY <1>2, <2>1, <2>2, <2>3
<1>4. \A i \in DOMAIN printed[l] : i \in Nat /\ i < n
  BY <1>2
<1>5. /\ Said(l)' = Said(l) \cup (IF kind = "error" THEN {n} ELSE {})
      /\ \A x \in Said(l) : x \in Nat /\ x < n
  BY <1>2, <1>3, <1>4 DEF Said
<1> HIDE DEF n
<1>6. tail'[l] = Push(tail[l], n, TailLines) /\ tail' \in [Lanes -> Seq(Nat)]
      /\ Newest(tail'[l], DOMAIN printed'[l], TailLines)
  <2>1. Newest(tail[l], DOMAIN printed[l], TailLines)
    BY <1>2 DEF BufferInv, LaneBuffers
  <2>2. /\ Push(tail[l], n, TailLines) \in Seq(Nat)
        /\ Newest(Push(tail[l], n, TailLines), DOMAIN printed[l] \cup {n}, TailLines)
    BY <1>2, <1>4, <2>1, PushKeepsNewest
  <2> QED
    BY <1>1, <1>3, <2>2 DEF BufferInv
<1>7. /\ errors' \in [Lanes -> Seq(Nat)] /\ Newest(errors'[l], Said(l)', ErrorLines)
      /\ \A m \in Lanes \ {l} : errors'[m] = errors[m]
  <2>1. Newest(errors[l], Said(l), ErrorLines)
    BY DEF BufferInv, LaneBuffers
  <2>2. CASE kind = "error"
    <3>1. /\ Push(errors[l], n, ErrorLines) \in Seq(Nat)
          /\ Newest(Push(errors[l], n, ErrorLines), Said(l) \cup {n}, ErrorLines)
      BY <1>2, <1>5, <2>1, PushKeepsNewest
    <3> QED
      BY <1>1, <1>5, <2>2, <3>1 DEF BufferInv
  <2>3. CASE kind # "error"
    BY <1>1, <1>5, <2>1, <2>3 DEF BufferInv
  <2> QED
    BY <2>2, <2>3
<1>8. /\ lastLine'[l] \in Said(l)' \cup {NoText} /\ \A x \in Said(l)' : x <= lastLine'[l]
      /\ \A m \in Lanes \ {l} : lastLine'[m] = lastLine[m]
  <2>1. lastLine \in [Lanes -> Nat] /\ lastLine[l] \in Said(l) \cup {NoText}
        /\ \A x \in Said(l) : x <= lastLine[l]
    BY DEF VerdictInv, Shapes, BufferInv, LaneBuffers
  <2>2. CASE kind = "error"
    BY <1>1, <1>2, <1>5, <2>1, <2>2
  <2>3. CASE kind # "error"
    BY <1>1, <1>5, <2>1, <2>3
  <2> QED
    BY <2>2, <2>3
<1>9. /\ stats'[l].last \in {NoText, ExitText, lastLine'[l]}
      /\ mode[l] = "robocopy" => stats'[l].last = NoText
  <2>1. stats'[l] = Feed(mode[l], stats[l], kind, n) /\ lastLine \in [Lanes -> Nat]
    BY <1>1 DEF VerdictInv, Shapes
  <2>2. /\ stats[l].last \in {NoText, ExitText, lastLine[l]}
        /\ mode[l] = "robocopy" => stats[l].last = NoText
    BY <1>1 DEF BufferInv, LaneBuffers
  <2>3. \/ kind = "error" /\ mode[l] = "rclone" /\ stats'[l].last = n
        \/ kind = "error" /\ mode[l] = "robocopy" /\ stats'[l].last = stats[l].last
        \/ kind # "error" /\ stats'[l].last = stats[l].last
    <3> DEFINE k == Max({stats[l].errors, 2})
    <3>1. stats'[l] = CASE kind = "noise" -> stats[l]
              [] kind = "error" /\ mode[l] = "rclone" ->
                    [stats[l] EXCEPT !.errors = @ + 1, !.last = n]
              [] kind = "error" /\ mode[l] = "robocopy" -> stats[l]
              [] kind = "summary" -> [stats[l] EXCEPT !.files = n]
              [] kind = "failed files" -> [stats[l] EXCEPT !.files = n, !.errors = k]
      BY <2>1 DEF Feed
    <3> HIDE DEF k
    <3>2. \/ kind = "noise" \/ kind = "error" \/ kind = "summary" \/ kind = "failed files"
      BY DEF Kinds
    <3>3. DOMAIN stats[l] = {"errors", "last", "files"}
      BY <1>2 DEF Stats
    <3>4. CASE kind = "noise"
      BY <3>1, <3>4
    <3>5. CASE kind = "error" /\ mode[l] = "rclone"
      BY <3>1, <3>3, <3>5
    <3>6. CASE kind = "error" /\ mode[l] = "robocopy"
      BY <3>1, <3>6
    <3>7. CASE kind = "summary"
      BY <3>1, <3>3, <3>7
    <3>8. CASE kind = "failed files"
      BY <3>1, <3>3, <3>8
    <3>9. mode[l] = "rclone" \/ mode[l] = "robocopy"
      BY <1>2, Zenon
    <3> QED
      BY <3>2, <3>4, <3>5, <3>6, <3>7, <3>8, <3>9, Zenon
  <2> QED
    BY <1>1, <2>1, <2>2, <2>3
<1>10. ASSUME NEW m \in Lanes
       PROVE  LaneBuffers(m)'
  <2>1. CASE m = l
    BY <1>1, <1>3, <1>6, <1>7, <1>8, <1>9, <2>1 DEF LaneBuffers
  <2>2. CASE m # l
    <3>1. /\ printed'[m] = printed[m] /\ tail'[m] = tail[m] /\ errors'[m] = errors[m]
          /\ lastLine'[m] = lastLine[m] /\ stats'[m] = stats[m] /\ mode'[m] = mode[m]
          /\ pc'[m] = pc[m]
      BY <1>1, <1>7, <1>8, <2>2 DEF VerdictInv, Shapes, BufferInv
    <3>2. Said(m)' = Said(m)
      BY <3>1 DEF Said
    <3> QED
      BY <3>1, <3>2 DEF BufferInv, LaneBuffers
  <2> QED
    BY <2>1, <2>2
<1>11. HeadsAreOfLanes'
  BY <1>1, <1>7 DEF BufferInv, HeadsAreOfLanes, VerdictInv, Shapes
<1> QED
  BY <1>6, <1>7, <1>10, <1>11 DEF BufferInv

(* Past the exit the buffers stay; the log may get a head of a lane.       *)
LEMMA OthersKeepBuffers ==
    ASSUME VerdictInv, SectionInv, BufferInv,
           UNCHANGED <<mode, printed, stats, lastLine, tail, errors>>,
           \A m \in Lanes : pc'[m] = "streaming" => pc[m] = "streaming",
           \/ log' = log
           \/ \E e : /\ log' = Append(log, e)
                     /\ e.part = "head" => /\ e.lane \in Lanes /\ pc'[e.lane] # "streaming"
                                           /\ e.lines = errors[e.lane]
                                           /\ e.last = stats[e.lane].last
    PROVE  BufferInv'
<1>1. \A l \in Lanes : LaneBuffers(l)'
  BY DEF BufferInv, LaneBuffers, Said
<1>2. HeadsAreOfLanes'
  <2>1. CASE log' = log
    BY <2>1 DEF BufferInv, HeadsAreOfLanes
  <2>2. CASE \E e : /\ log' = Append(log, e)
                    /\ e.part = "head" => /\ e.lane \in Lanes /\ pc'[e.lane] # "streaming"
                                          /\ e.lines = errors[e.lane]
                                          /\ e.last = stats[e.lane].last
    <3>1. PICK e : /\ log' = Append(log, e)
                   /\ e.part = "head" => /\ e.lane \in Lanes /\ pc'[e.lane] # "streaming"
                                         /\ e.lines = errors[e.lane]
                                         /\ e.last = stats[e.lane].last
      BY <2>2
    <3>2. PICK S : log \in Seq(S)
      BY DEF SectionInv, IsLog
    <3>3. /\ Len(log) \in Nat /\ DOMAIN log = 1 .. Len(log)
          /\ DOMAIN log' = 1 .. Len(log) + 1
          /\ \A i \in 1 .. Len(log) : log'[i] = log[i]
          /\ log'[Len(log) + 1] = e
      BY <3>1, <3>2, AppendToLog
    <3>4. ASSUME NEW i \in DOMAIN log', log'[i].part = "head"
          PROVE  /\ log'[i].lane \in Lanes /\ pc'[log'[i].lane] # "streaming"
                 /\ log'[i].lines = errors[log'[i].lane]
                 /\ log'[i].last = stats[log'[i].lane].last
      <4>1. CASE i \in DOMAIN log
        BY <3>3, <3>4, <4>1 DEF BufferInv, HeadsAreOfLanes
      <4>2. CASE i = Len(log) + 1
        BY <3>1, <3>3, <3>4, <4>2
      <4> QED
        BY <3>3, <4>1, <4>2
    <3> QED
      BY <3>4 DEF HeadsAreOfLanes
  <2> QED
    BY <2>1, <2>2
<1> QED
  BY <1>1, <1>2 DEF BufferInv

LEMMA ExitKeepsBuffers ==
    ASSUME VerdictInv, BufferInv, NEW l \in Lanes, NEW c \in ExitCodes, Exit(l, c)
    PROVE  BufferInv'
<1>1. /\ pc[l] = "streaming" /\ pc' = [pc EXCEPT ![l] = "exited"]
      /\ stats' = [stats EXCEPT ![l] = Finalize(mode[l], @, lastLine[l], c)]
      /\ UNCHANGED <<mode, printed, lastLine, tail, errors, log>>
  BY DEF Exit, GoTo
<1>2. stats[l] \in Stats /\ lastLine[l] \in Nat
  BY DEF VerdictInv, Shapes
<1>3. Finalize(mode[l], stats[l], lastLine[l], c).last \in {NoText, ExitText, lastLine[l]}
  <2> DEFINE k == Max({stats[l].errors, 1})
  <2>1. Finalize(mode[l], stats[l], lastLine[l], c) =
            IF mode[l] = "rclone" THEN stats[l]
            ELSE IF c < 8 THEN [stats[l] EXCEPT !.errors = 0, !.last = NoText]
            ELSE [stats[l] EXCEPT !.errors = k,
                                  !.last = IF lastLine[l] # NoText THEN lastLine[l] ELSE ExitText]
    BY DEF Finalize
  <2> HIDE DEF k
  <2> QED
    BY <1>2, <2>1 DEF BufferInv, LaneBuffers, Stats
<1>4. ASSUME NEW m \in Lanes
      PROVE  LaneBuffers(m)'
  <2>1. Said(m)' = Said(m)
    BY <1>1 DEF Said
  <2>2. stats'[m].last \in {NoText, ExitText, lastLine[m]}
    BY <1>1, <1>3 DEF VerdictInv, Shapes, BufferInv, LaneBuffers
  <2>3. pc'[m] = "streaming" => pc[m] = "streaming" /\ stats'[m] = stats[m]
    BY <1>1 DEF VerdictInv, Shapes
  <2> QED
    BY <1>1, <2>1, <2>2, <2>3 DEF BufferInv, LaneBuffers
<1>5. HeadsAreOfLanes'
  BY <1>1 DEF BufferInv, HeadsAreOfLanes, VerdictInv, Shapes
<1> QED
  BY <1>1, <1>4, <1>5 DEF BufferInv

LEMMA StepBuffers == VerdictInv /\ SectionInv /\ BufferInv /\ [Next]_vars => BufferInv'
<1> SUFFICES ASSUME VerdictInv, SectionInv, BufferInv, [Next]_vars
             PROVE  BufferInv'
  OBVIOUS
<1>0. pc \in [Lanes -> Past \cup {"streaming"}]
  BY DEF VerdictInv, Shapes
<1>1. ASSUME NEW l \in Lanes, NEW kind \in Kinds(mode[l]), PrintLine(l, kind)
      PROVE  BufferInv'
  BY <1>1, PrintKeepsBuffers
<1>2. ASSUME NEW l \in Lanes, NEW c \in ExitCodes, Exit(l, c)
      PROVE  BufferInv'
  BY <1>2, ExitKeepsBuffers
<1>3. ASSUME NEW l \in Lanes, Judge(l) \/ TakeLogLock(l) \/ LogFails(l) \/ Record(l)
      PROVE  BufferInv'
  <2>1. /\ UNCHANGED <<mode, printed, stats, lastLine, tail, errors>> /\ log' = log
        /\ \A m \in Lanes : pc'[m] = "streaming" => pc[m] = "streaming"
    BY <1>0, <1>3 DEF Judge, TakeLogLock, LogFails, Record, GoTo, streamVars
  <2> QED
    BY <2>1, OthersKeepBuffers
<1>4. ASSUME NEW l \in Lanes, WriteHead(l)
      PROVE  BufferInv'
  <2> DEFINE e == [lane |-> l, part |-> "head", lines |-> errors[l],
                   count |-> stats[l].errors, last |-> stats[l].last]
  <2>1. /\ UNCHANGED <<mode, printed, stats, lastLine, tail, errors>>
        /\ log' = Append(log, e) /\ pc' = [pc EXCEPT ![l] = "body"]
    BY <1>4 DEF WriteHead, GoTo, streamVars
  <2>2. e.lane = l /\ e.lines = errors[l] /\ e.last = stats[l].last
    OBVIOUS
  <2>3. /\ \A m \in Lanes : pc'[m] = "streaming" => pc[m] = "streaming"
        /\ pc'[l] # "streaming"
    BY <1>0, <2>1
  <2> HIDE DEF e
  <2> QED
    BY <2>1, <2>2, <2>3, OthersKeepBuffers
<1>5. ASSUME NEW l \in Lanes, WriteBody(l)
      PROVE  BufferInv'
  <2> DEFINE e == [lane |-> l, part |-> "body", lines |-> tail[l]]
  <2>1. /\ UNCHANGED <<mode, printed, stats, lastLine, tail, errors>>
        /\ log' = Append(log, e) /\ pc' = [pc EXCEPT ![l] = "record"]
    BY <1>5 DEF WriteBody, GoTo, streamVars
  <2>2. e.part # "head"
    OBVIOUS
  <2>3. \A m \in Lanes : pc'[m] = "streaming" => pc[m] = "streaming"
    BY <1>0, <2>1
  <2> HIDE DEF e
  <2> QED
    BY <2>1, <2>2, <2>3, OthersKeepBuffers
<1>6. CASE UNCHANGED vars
  <2>1. UNCHANGED <<mode, printed, stats, lastLine, tail, errors>> /\ log' = log /\ pc' = pc
    BY <1>6 DEF vars, streamVars
  <2> QED
    BY <2>1, OthersKeepBuffers
<1> QED
  BY <1>1, <1>2, <1>3, <1>4, <1>5, <1>6 DEF Next, AfterExit

LEMMA StepTypes == VerdictInv /\ OtherTypes /\ [Next]_vars => OtherTypes'
<1> SUFFICES ASSUME VerdictInv, OtherTypes, [Next]_vars
             PROVE  OtherTypes'
  OBVIOUS
<1>0. MaxFaults \in Nat
  BY OutputAssumption
<1>1. ASSUME NEW l \in Lanes,
             (\E kind \in Kinds(mode[l]) : PrintLine(l, kind)) \/ Judge(l)
      PROVE  OtherTypes'
  BY <1>1 DEF PrintLine, Judge, OtherTypes
<1>2. ASSUME NEW l \in Lanes, NEW c \in ExitCodes, Exit(l, c)
      PROVE  OtherTypes'
  BY <1>2 DEF Exit, OtherTypes
<1>3. ASSUME NEW l \in Lanes, TakeLogLock(l) \/ WriteHead(l) \/ WriteBody(l)
      PROVE  OtherTypes'
  BY <1>3 DEF TakeLogLock, WriteHead, WriteBody, OtherTypes
<1>4. ASSUME NEW l \in Lanes, LogFails(l)
      PROVE  OtherTypes'
  BY <1>0, <1>4 DEF LogFails, OtherTypes
<1>5. ASSUME NEW l \in Lanes, Record(l)
      PROVE  OtherTypes'
  <2>1. stats[l] \in Stats /\ status[l] \in {"OK", "FAIL"}
    BY <1>5 DEF Record, VerdictInv, Shapes, VerdictFitsCode, Judged, Past
  <2> QED
    BY <1>5, <2>1 DEF Record, OtherTypes
<1>6. CASE UNCHANGED vars
  BY <1>6 DEF vars, OtherTypes
<1> QED
  BY <1>1, <1>2, <1>3, <1>4, <1>5, <1>6 DEF Next, AfterExit

THEOREM OutputInvariance == Spec => []OutputInv
<1>1. Init => OutputInv
  BY InitVerdict, InitSections, InitBuffers DEF OutputInv
<1>2. OutputInv /\ [Next]_vars => OutputInv'
  BY StepVerdict, StepSections, StepBuffers, StepTypes DEF OutputInv
<1> QED
  BY <1>1, <1>2, PTL DEF Spec

(* The buffers stay within their limits and hold places in the output, and *)
(* what is recorded of a job is a verdict with counters.                   *)
THEOREM TypeCorrect == Spec => []TypeOK
<1>1. OutputInv => TypeOK
  <2> SUFFICES ASSUME OutputInv
               PROVE  TypeOK
    OBVIOUS
  <2> USE DEF OutputInv
  <2>1. ASSUME NEW l \in Lanes
        PROVE  /\ printed[l] \in Seq(Kinds(mode[l])) /\ Len(printed[l]) <= MaxLines[l]
               /\ tail[l] \in Seq(DOMAIN printed[l]) /\ Len(tail[l]) <= TailLines
               /\ errors[l] \in Seq(DOMAIN printed[l]) /\ Len(errors[l]) <= ErrorLines
    <3>1. /\ tail[l] \in Seq(Nat) /\ errors[l] \in Seq(Nat) /\ LaneBuffers(l)
      BY DEF BufferInv
    <3>2. ASSUME NEW s \in Seq(Nat), NEW S \in SUBSET DOMAIN printed[l], NEW n, Newest(s, S, n)
          PROVE  s \in Seq(DOMAIN printed[l]) /\ Len(s) <= n
      <4>1. \A i \in 1 .. Len(s) : s[i] \in DOMAIN printed[l]
        BY <3>2 DEF Newest
      <4> QED
        BY <3>2, <4>1 DEF Newest
    <3>3. Said(l) \in SUBSET DOMAIN printed[l]
      BY DEF Said
    <3> QED
      BY <3>1, <3>2, <3>3 DEF LaneBuffers
  <2>2. /\ mode \in [Lanes -> {"rclone", "robocopy"}] /\ stats \in [Lanes -> Stats]
        /\ lastLine \in [Lanes -> Nat]
        /\ pc \in [Lanes -> {"streaming", "exited", "lock", "head", "body", "record", "recorded"}]
        /\ status \in [Lanes -> {"RUNNING", "OK", "FAIL"}]
    BY DEF VerdictInv, Shapes, Past
  <2> QED
    BY <2>1, <2>2 DEF OtherTypes, TypeOK
<1> QED
  BY <1>1, OutputInvariance, PTL

(* stream_command, write_failure_log: however much output a job prints     *)
(* around them, its section lists its newest error lines, complete up to   *)
(* the size of their buffer, and reports the very last of them.            *)
THEOREM ErrorsReach == Spec => []ErrorsReachTheLog
<1>1. OutputInv => ErrorsReachTheLog
  <2> SUFFICES ASSUME OutputInv, NEW i \in DOMAIN log, log[i].part = "head"
               PROVE  /\ Newest(log[i].lines, Said(log[i].lane), ErrorLines)
                      /\ log[i].last \in Nat \ {0} =>
                            /\ log[i].last \in Said(log[i].lane)
                            /\ \A n \in Said(log[i].lane) : n <= log[i].last
    BY DEF ErrorsReachTheLog
  <2>1. /\ log[i].lane \in Lanes /\ log[i].lines = errors[log[i].lane]
        /\ log[i].last = stats[log[i].lane].last /\ LaneBuffers(log[i].lane)
    BY DEF OutputInv, BufferInv, HeadsAreOfLanes
  <2> QED
    BY <2>1 DEF LaneBuffers, NoText, ExitText
<1> QED
  BY <1>1, OutputInvariance, PTL
==============================================================================
