-------------------------- MODULE ConfigStoreProofs --------------------------
(***************************************************************************)
(* What holds of ConfigStore for any number of tabs, saves, failed calls   *)
(* and crashes, and of selectors for every list of jobs.                   *)
(***************************************************************************)
EXTENDS ConfigStore, FiniteSetTheorems, SequenceTheorems, TLAPS

------------------------------------------------------------------------------
(* What select_jobs does with a selector, for every list of jobs and every *)
(* request.                                                                *)

LEMMA TextRules ==
    ASSUME NEW v \in Words, NEW w \in Words
    PROVE  /\ Lower[v] \in Words /\ Strip[v] \in Words
           /\ Lower[v] = Blank => v = Blank
           /\ Strip[Strip[v]] = Strip[v] /\ Strip[Lower[v]] = Lower[Strip[v]]
           /\ Lower[v] = Lower[w] => SameText(v, w)
           /\ Lower[v] = Lower[Strip[w]] => SameText(v, w) /\ SameText(w, v)
  BY WordsAssumption DEF SameText

LEMMA TypeRules ==
    /\ JobTypes \subseteq Words
    /\ \A type \in JobTypes : Lower[type] = type /\ Strip[type] = type
    /\ Rclone # Robocopy
<1>1. Rclone # Robocopy
  <2> SUFFICES ASSUME Rclone = Robocopy
               PROVE  FALSE
    OBVIOUS
  <2>1. {Blank, Rclone, Robocopy} = {Blank} \cup {Rclone}
    OBVIOUS
  <2>2. IsFiniteSet({Blank}) /\ Cardinality({Blank}) = 1
    BY FS_Singleton
  <2>3. Cardinality({Blank} \cup {Rclone}) \in {1, 2}
    BY <2>2, FS_AddElement
  <2>4. Cardinality({Blank, Rclone, Robocopy}) = 3
    BY WordsAssumption
  <2> QED
    BY <2>1, <2>3, <2>4
<1> QED
  BY <1>1, WordsAssumption DEF JobTypes

LEMMA EnabledIsFinite ==
    ASSUME NEW jobs \in Seq(Job)
    PROVE  /\ IsFiniteSet(Enabled(jobs))
           /\ \A i \in Enabled(jobs) : jobs[i] \in Job
<1>1. IsFiniteSet(1 .. Len(jobs)) /\ DOMAIN jobs = 1 .. Len(jobs)
  BY FS_Interval
<1> QED
  BY <1>1, FS_Subset DEF Enabled

(* The selector of a tidy job, as select_jobs reads it.                    *)
LEMMA SelectorIsRead ==
    ASSUME NEW job \in Job, Tidy(job), job.type = Rclone => job.server # Blank
    PROVE  /\ WellFormed(JobSelector(job)) /\ ~ IsBlank(JobSelector(job))
           /\ \A k \in Job : Matches(k, JobSelector(job)) <=>
                 /\ Len(k.name) = 1 /\ Lower[k.name[1]] = Lower[job.name[1]]
                 /\ k.type = job.type
                 /\ job.type = Rclone => Lower[k.server] = Lower[job.server]
<1> DEFINE n == job.name[1]
           r == JobSelector(job)
<1>1. /\ job.type \in JobTypes /\ job.server \in Words /\ job.name \in Seq(Words)
      /\ Len(job.name) = 1 /\ n \in Words /\ n # Blank /\ job.name = <<n>>
  BY DEF Job, Tidy
<1>2. Strip[n] = n /\ Strip[job.server] = job.server /\ Lower[n] # Blank
  BY <1>1, TextRules DEF Tidy
<1>4. CASE job.type = Robocopy
  <2>1. r = <<Robocopy>> \o job.name
    BY <1>4, TypeRules DEF JobSelector
  <2>2. Len(r) = 2 /\ DOMAIN r = 1 .. 2 /\ r[1] = Robocopy /\ r[2] = n
    BY <1>1, <2>1, TypeRules DEF JobTypes
  <2> HIDE DEF r
  <2>3. Parts(r)[1] = Robocopy /\ Parts(r)[2] = Lower[n]
    BY <1>2, <2>2, TypeRules DEF Parts, JobTypes
  <2>4. WellFormed(r) /\ ~ IsBlank(r)
    BY <1>2, <2>2, <2>3 DEF WellFormed, IsBlank, JobTypes
  <2>5. \A k \in Job : Matches(k, r) <=>
            /\ Len(k.name) = 1 /\ Lower[k.name[1]] = Lower[n]
            /\ k.type = Robocopy
    BY <2>2, <2>3 DEF Matches
  <2> QED
    BY <1>4, <2>4, <2>5, TypeRules DEF r
<1>5. CASE job.type = Rclone
  <2>1. r = <<Rclone, job.server>> \o job.name
    BY <1>2, <1>5 DEF JobSelector
  <2>2. /\ Len(r) = 3 /\ DOMAIN r = 1 .. 3
        /\ r[1] = Rclone /\ r[2] = job.server /\ r[3] = n
    BY <1>1, <2>1, TypeRules DEF JobTypes
  <2> HIDE DEF r
  <2>3. /\ Parts(r)[1] = Rclone /\ Parts(r)[2] = Lower[job.server]
        /\ Parts(r)[3] = Lower[n]
    BY <1>2, <2>2, TypeRules DEF Parts, JobTypes
  <2>4. Lower[job.server] # Blank
    BY <1>1, <1>5, TextRules
  <2>5. WellFormed(r) /\ ~ IsBlank(r)
    BY <1>2, <2>2, <2>3, <2>4 DEF WellFormed, IsBlank, JobTypes
  <2>6. \A k \in Job : Matches(k, r) <=>
            /\ Len(k.name) = 1 /\ Lower[k.name[1]] = Lower[n]
            /\ k.type = Rclone /\ Lower[k.server] = Lower[job.server]
    BY <2>2, <2>3 DEF Matches
  <2> QED
    BY <1>5, <2>5, <2>6 DEF r
<1> QED
  BY <1>1, <1>4, <1>5 DEF JobTypes

(* The selector the page and the queue give a job selects that job alone,  *)
(* unless another enabled job is its twin (job_selector, select_jobs).     *)
THEOREM SelectorFindsItsJob ==
    ASSUME NEW jobs \in Seq(Job)
    PROVE  SelectorFinds(jobs)
<1> SUFFICES ASSUME NEW i \in Enabled(jobs), Tidy(jobs[i]),
                    jobs[i].type = Rclone => jobs[i].server # Blank,
                    \A k \in Enabled(jobs) \ {i} : ~ Twins(jobs[i], jobs[k])
             PROVE  /\ Accepts(jobs, {JobSelector(jobs[i])})
                    /\ SelectJobs(jobs, {JobSelector(jobs[i])}) = {i}
  BY DEF SelectorFinds
<1> DEFINE r == JobSelector(jobs[i])
<1>1. \A k \in Enabled(jobs) : jobs[k] \in Job
  BY EnabledIsFinite
<1>2. /\ WellFormed(r) /\ ~ IsBlank(r)
      /\ \A k \in Enabled(jobs) : Matches(jobs[k], r) <=>
            /\ Len(jobs[k].name) = 1 /\ Lower[jobs[k].name[1]] = Lower[jobs[i].name[1]]
            /\ jobs[k].type = jobs[i].type
            /\ jobs[i].type = Rclone => Lower[jobs[k].server] = Lower[jobs[i].server]
  BY <1>1, SelectorIsRead
<1>3. Matches(jobs[i], r)
  BY <1>2 DEF Tidy
<1>4. ASSUME NEW k \in Enabled(jobs), Matches(jobs[k], r)
      PROVE  k = i
  <2>1. /\ jobs[k].server \in Words /\ jobs[i].server \in Words
        /\ Len(jobs[k].name) = 1 /\ jobs[k].name[1] \in Words
        /\ Len(jobs[i].name) = 1 /\ jobs[i].name[1] \in Words
    BY <1>1, <1>2, <1>4 DEF Job, Tidy
  <2>2. SameText(jobs[i].name[1], jobs[k].name[1])
    BY <1>2, <1>4, <2>1, TextRules
  <2>3. jobs[i].type = Rclone => SameText(jobs[i].server, jobs[k].server)
    BY <1>2, <1>4, <2>1, TextRules
  <2>4. Twins(jobs[i], jobs[k])
    BY <1>2, <1>4, <2>1, <2>2, <2>3 DEF Twins
  <2> QED
    BY <2>4
<1>5. EnabledMatches(jobs, r) = {i}
  BY <1>3, <1>4 DEF EnabledMatches
<1>6. Named({r}) = {r}
  BY <1>2 DEF Named
<1>7. Cardinality({i}) = 1
  BY FS_Singleton
<1> HIDE DEF r
<1>8. Accepts(jobs, {r}) /\ SelectJobs(jobs, {r}) = {i}
  BY <1>2, <1>5, <1>6, <1>7 DEF Accepts, Resolves, SelectJobs
<1> QED
  BY <1>8 DEF r

(* What _job_matches accepts the request means; of a tidy job the request  *)
(* means, _job_matches accepts it.                                         *)
LEMMA MatchIsMeant ==
    ASSUME NEW job \in Job, NEW request \in Seq(Words), WellFormed(request)
    PROVE  /\ Matches(job, request) => Means(job, request)
           /\ Tidy(job) /\ Means(job, request) => Matches(job, request)
<1> DEFINE len == Len(request)
           parts == Parts(request)
<1>1. /\ len \in 1 .. 3 /\ request[1] \in Words /\ request[len] \in Words
      /\ len = 3 => request[2] \in Words
      /\ parts[1] = Lower[Strip[request[1]]] /\ parts[len] = Lower[Strip[request[len]]]
      /\ len = 3 => parts[2] = Lower[Strip[request[2]]]
  BY DEF WellFormed, Parts
<1>2. /\ job.type \in Words /\ Lower[job.type] = job.type /\ Strip[job.type] = job.type
      /\ job.server \in Words
      /\ Len(job.name) = 1 => job.name[1] \in Words
  BY TypeRules DEF Job
<1>3. Matches(job, request) <=>
          /\ Len(job.name) = 1 /\ Lower[job.name[1]] = parts[len]
          /\ len > 1 => job.type = parts[1]
          /\ len = 3 => Lower[job.server] = parts[2]
  BY DEF Matches
<1>4. Means(job, request) <=>
          /\ Len(job.name) = 1 /\ SameText(request[len], job.name[1])
          /\ len > 1 => SameText(request[1], job.type)
          /\ len = 3 => SameText(request[2], job.server)
  BY <1>1 DEF Means
<1> HIDE DEF len, parts
<1>5. ASSUME Matches(job, request)
      PROVE  Means(job, request)
  <2>1. SameText(request[len], job.name[1])
    BY <1>1, <1>2, <1>3, <1>5, TextRules
  <2>2. len > 1 => SameText(request[1], job.type)
    BY <1>1, <1>2, <1>3, <1>5 DEF SameText
  <2>3. len = 3 => SameText(request[2], job.server)
    BY <1>1, <1>2, <1>3, <1>5, TextRules
  <2> QED
    BY <1>3, <1>4, <1>5, <2>1, <2>2, <2>3
<1>6. ASSUME Tidy(job), Means(job, request)
      PROVE  Matches(job, request)
  BY <1>1, <1>2, <1>3, <1>4, <1>6 DEF SameText, Tidy
<1> QED
  BY <1>5, <1>6

(* A selection that is not refused is meant, and meant unambiguously: no   *)
(* job is guessed among several, or for want of one (select_jobs).         *)
THEOREM NothingGuessed ==
    ASSUME NEW jobs \in Seq(Job), NEW requests \in SUBSET Seq(Words)
    PROVE  NothingIsGuessed(jobs, requests)
<1> SUFFICES ASSUME requests # {}, Accepts(jobs, requests)
             PROVE  /\ \A i \in SelectJobs(jobs, requests) :
                           \E r \in requests : Means(jobs[i], r)
                    /\ \A r \in Named(requests) :
                           /\ \E i \in SelectJobs(jobs, requests) : Means(jobs[i], r)
                           /\ Cardinality({i \in Enabled(jobs) :
                                             Tidy(jobs[i]) /\ Means(jobs[i], r)}) <= 1
  BY DEF NothingIsGuessed
<1>1. /\ Named(requests) \subseteq requests
      /\ SelectJobs(jobs, requests) = UNION {EnabledMatches(jobs, r) : r \in Named(requests)}
      /\ \A r : EnabledMatches(jobs, r) \subseteq Enabled(jobs)
  BY DEF Named, SelectJobs, EnabledMatches
<1>2. \A i \in Enabled(jobs) : jobs[i] \in Job
  BY EnabledIsFinite
<1>3. \A r \in Named(requests) :
          r \in Seq(Words) /\ WellFormed(r) /\ Cardinality(EnabledMatches(jobs, r)) = 1
  BY <1>1 DEF Accepts, Resolves
<1>4. ASSUME NEW i \in SelectJobs(jobs, requests)
      PROVE  \E r \in requests : Means(jobs[i], r)
  <2>1. PICK r \in Named(requests) : i \in EnabledMatches(jobs, r)
    BY <1>1
  <2>2. i \in Enabled(jobs) /\ Matches(jobs[i], r)
    BY <2>1 DEF EnabledMatches
  <2> QED
    BY <1>1, <1>2, <1>3, <2>2, MatchIsMeant
<1>5. ASSUME NEW r \in Named(requests)
      PROVE  Cardinality({i \in Enabled(jobs) : Tidy(jobs[i]) /\ Means(jobs[i], r)}) <= 1
  <2> DEFINE meant == {i \in Enabled(jobs) : Tidy(jobs[i]) /\ Means(jobs[i], r)}
  <2>1. meant \subseteq EnabledMatches(jobs, r)
    BY <1>2, <1>3, MatchIsMeant DEF EnabledMatches
  <2>2. IsFiniteSet(EnabledMatches(jobs, r))
    BY <1>1, EnabledIsFinite, FS_Subset
  <2> QED
    BY <1>3, <2>1, <2>2, FS_Subset
<1>6. ASSUME NEW r \in Named(requests)
      PROVE  \E i \in SelectJobs(jobs, requests) : Means(jobs[i], r)
  <2>1. IsFiniteSet(EnabledMatches(jobs, r)) /\ EnabledMatches(jobs, r) # {}
    BY <1>1, <1>3, EnabledIsFinite, FS_Subset, FS_EmptySet
  <2>2. PICK i \in EnabledMatches(jobs, r) : TRUE
    BY <2>1
  <2>3. i \in SelectJobs(jobs, requests) /\ i \in Enabled(jobs) /\ Matches(jobs[i], r)
    BY <1>1, <2>2 DEF EnabledMatches
  <2> QED
    BY <1>2, <1>3, <2>3, MatchIsMeant
<1> QED
  BY <1>4, <1>5, <1>6

------------------------------------------------------------------------------
(* A save at work has a temporary file of its own, and what it renames is  *)
(* what was validated.                                                     *)

Busy == {"sent", "valid", "open", "written", "cleaning", "stored"}

OwnTemp ==
    \A t \in Tabs : pc[t] \in Busy =>
        /\ save[t] # 0
        /\ \A u \in Tabs \ {t} : pc[u] \in Busy => save[t] # save[u]

DraftsAreChecked ==
    \A t \in Tabs :
        /\ pc[t] \in {"valid", "open", "written"} => Valid(draft[t])
        /\ pc[t] = "written" /\ save[t] \in DOMAIN temps => temps[save[t]] = draft[t]

StoreInv ==
    /\ TypeOK
    /\ OwnTemp
    /\ DraftsAreChecked
    /\ ConfigStaysValid

(* What the dialogs send is a document.                                    *)
LEMMA EditsAreDocuments ==
    ASSUME TypeOK, NEW t \in Tabs, Dialog(t)
    PROVE  \E doc \in Document : Send(t, doc)
<1>1. shown[t] \in Document /\ shown[t].jobs \in Seq(Job) /\ shown[t].servers \in Seq(Server)
  BY DEF TypeOK, Document
<1>2. ASSUME NEW job \in Jobs, SaveJob(t, job)
      PROVE  \E doc \in Document : Send(t, doc)
  <2>1. job \in Job
    BY StoreAssumption
  <2>2. [shown[t] EXCEPT !.jobs = Append(@, job)] \in Document
    <3>1. Append(shown[t].jobs, job) \in Seq(Job)
      BY <1>1, <2>1
    <3> QED
      BY <1>1, <3>1 DEF Document
  <2>3. \A i \in DOMAIN shown[t].jobs : [shown[t] EXCEPT !.jobs[i] = job] \in Document
    <3>1. \A i \in DOMAIN shown[t].jobs : [shown[t].jobs EXCEPT ![i] = job] \in Seq(Job)
      BY <1>1, <2>1
    <3>2. \A i \in DOMAIN shown[t].jobs :
              [shown[t] EXCEPT !.jobs[i] = job]
                  = [shown[t] EXCEPT !.jobs = [shown[t].jobs EXCEPT ![i] = job]]
      BY <1>1 DEF Document
    <3> QED
      BY <1>1, <3>1, <3>2 DEF Document
  <2> QED
    BY <1>2, <2>2, <2>3 DEF SaveJob
<1>3. ASSUME DeleteJob(t)
      PROVE  \E doc \in Document : Send(t, doc)
  <2>1. PICK i \in DOMAIN shown[t].jobs : Send(t, [shown[t] EXCEPT !.jobs = RemoveAt(@, i)])
    BY <1>3 DEF DeleteJob
  <2>2. RemoveAt(shown[t].jobs, i) \in Seq(Job)
    BY <1>1, <2>1 DEF RemoveAt
  <2> QED
    BY <1>1, <2>1, <2>2 DEF Document
<1>4. ASSUME NEW server \in [name : ServerNames, filled : BOOLEAN], AddServer(t, server)
      PROVE  \E doc \in Document : Send(t, doc)
  <2>1. server \in Server
    BY StoreAssumption DEF Server
  <2>2. [shown[t] EXCEPT !.servers = Append(@, server)] \in Document
    <3>1. Append(shown[t].servers, server) \in Seq(Server)
      BY <1>1, <2>1
    <3> QED
      BY <1>1, <3>1 DEF Document
  <2> QED
    BY <1>4, <2>2 DEF AddServer
<1>5. ASSUME NEW server \in [name : ServerNames, filled : BOOLEAN], EditServer(t, server)
      PROVE  \E doc \in Document : Send(t, doc)
  <2> DEFINE Follow(old, job) == IF job.type = Rclone /\ job.server = old
                                 THEN [job EXCEPT !.server = server.name] ELSE job
             Edited(i) == [servers |-> [shown[t].servers EXCEPT ![i] = server],
                           jobs |-> [k \in DOMAIN shown[t].jobs |->
                                        Follow(shown[t].servers[i].name, shown[t].jobs[k])]]
  <2>1. server \in Server /\ server.name \in Words
    BY StoreAssumption DEF Server
  <2>2. \A old : \A job \in Job : Follow(old, job) \in Job
    BY <2>1 DEF Job
  <2>3. PICK i \in DOMAIN shown[t].servers : Send(t, Edited(i))
    BY <1>5 DEF EditServer
  <2>4. \A k \in DOMAIN shown[t].jobs : shown[t].jobs[k] \in Job
    BY <1>1
  <2> HIDE DEF Follow
  <2>5. Edited(i).jobs \in Seq(Job)
    BY <1>1, <2>2, <2>4
  <2>6. Edited(i) \in Document
    BY <1>1, <2>1, <2>5 DEF Document
  <2> QED
    BY <2>3, <2>6
<1>6. ASSUME DeleteServer(t)
      PROVE  \E doc \in Document : Send(t, doc)
  <2>1. PICK i \in DOMAIN shown[t].servers :
            Send(t, [shown[t] EXCEPT !.servers = RemoveAt(@, i)])
    BY <1>6 DEF DeleteServer
  <2>2. RemoveAt(shown[t].servers, i) \in Seq(Server)
    BY <1>1, <2>1 DEF RemoveAt
  <2> QED
    BY <1>1, <2>1, <2>2 DEF Document
<1> QED
  BY <1>2, <1>3, <1>4, <1>5, <1>6 DEF Dialog

LEMMA InitStore == Init => StoreInv
<1> SUFFICES ASSUME Init
             PROVE  StoreInv
  OBVIOUS
<1>1. file \in Document /\ Valid(file) /\ file # Broken
  BY StoreAssumption DEF Init
<1>2. DOMAIN temps = {}
  BY DEF Init
<1>3. TypeOK
  <2>1. saves \in 0 .. MaxSaves /\ faults \in 0 .. MaxFaults /\ 0 \in 0 .. saves
    BY StoreAssumption DEF Init
  <2>2. /\ shown \in [Tabs -> Document] /\ draft \in [Tabs -> Document]
        /\ pc \in [Tabs -> PCs] /\ save \in [Tabs -> 0 .. saves]
    BY <1>1, <2>1 DEF Init, PCs
  <2> QED
    BY <1>1, <1>2, <2>1, <2>2 DEF Init, TypeOK
<1> QED
  BY <1>1, <1>3 DEF Init, StoreInv, OwnTemp, DraftsAreChecked, ConfigStaysValid, Busy

LEMMA StepStore == StoreInv /\ [Next]_vars => StoreInv'
<1> SUFFICES ASSUME StoreInv, [Next]_vars
             PROVE  StoreInv'
  OBVIOUS
<1> USE DEF StoreInv, OwnTemp, DraftsAreChecked, ConfigStaysValid, Busy, PCs, GoTo, Fault, TempName
<1>0. MaxSaves \in Nat /\ MaxFaults \in Nat /\ Broken \notin Document
  BY StoreAssumption
<1>1. CASE Crash
  BY <1>0, <1>1 DEF Crash, TypeOK
<1>2. ASSUME NEW t \in Tabs, Dialog(t)
      PROVE  StoreInv'
  <2>1. PICK doc \in Document : Send(t, doc)
    BY <1>2, EditsAreDocuments
  <2> QED
    BY <1>0, <2>1 DEF Send, TypeOK
<1>3. ASSUME NEW t \in Tabs, Validate(t)
      PROVE  StoreInv'
  BY <1>0, <1>3 DEF Validate, TypeOK
<1>4. ASSUME NEW t \in Tabs, OpenTemp(t) \/ WriteTemp(t)
      PROVE  StoreInv'
  <2>1. /\ save[t] \in 1 .. saves /\ draft[t] \in Document
        /\ UNCHANGED <<file, shown, draft, save, crashed, saves>>
    BY <1>0, <1>4 DEF OpenTemp, WriteTemp, TypeOK
  <2>2. \/ temps' = temps
        \/ /\ DOMAIN temps' = DOMAIN temps \cup {save[t]}
           /\ \A n \in DOMAIN temps : n # save[t] => temps'[n] = temps[n]
           /\ temps'[save[t]] \in {Broken, draft[t]}
           /\ pc'[t] = "written" => temps'[save[t]] = draft[t]
    BY <1>4, <2>1 DEF OpenTemp, WriteTemp, Put, TypeOK
  <2>3. /\ pc[t] \in {"valid", "open"} /\ pc' = [pc EXCEPT ![t] = pc'[t]]
        /\ pc'[t] \in {"open", "written", "cleaning", "refused"}
        /\ faults' \in 0 .. MaxFaults
        /\ pc'[t] = "written" => temps' # temps \/ temps[save[t]] = draft[t]
    BY <1>0, <1>4, <2>2 DEF OpenTemp, WriteTemp, Put, TypeOK
  <2>4. TypeOK'
    BY <2>1, <2>2, <2>3 DEF TypeOK
  <2>5. OwnTemp'
    BY <2>1, <2>3 DEF TypeOK
  <2>6. DraftsAreChecked'
    BY <2>1, <2>2, <2>3 DEF TypeOK
  <2> QED
    BY <2>1, <2>4, <2>5, <2>6
<1>5. ASSUME NEW t \in Tabs, Replace(t) \/ CleanUp(t)
      PROVE  StoreInv'
  BY <1>0, <1>5 DEF Replace, CleanUp, WithoutTemp, TypeOK
<1>6. ASSUME NEW t \in Tabs, Answer(t) \/ Refuse(t) \/ Reload(t)
      PROVE  StoreInv'
  BY <1>0, <1>6 DEF Answer, Refuse, Reload, Show, TypeOK
<1>7. CASE UNCHANGED vars
  BY <1>7 DEF vars, TypeOK
<1> QED
  BY <1>1, <1>2, <1>3, <1>4, <1>5, <1>6, <1>7 DEF Next, Request

LEMMA StoreInvariance == Spec => []StoreInv
  BY InitStore, StepStore, PTL DEF Spec

(* The variables keep their types: every document on disk, shown or sent   *)
(* is one, and temporary files are numbered by saves.                      *)
THEOREM TypeCorrect == Spec => []TypeOK
<1>1. StoreInv => TypeOK
  BY DEF StoreInv
<1> QED
  BY <1>1, StoreInvariance, PTL

(* However saves interleave, fail or are cut off by a crash, config.json   *)
(* is a whole document that validates.                                     *)
THEOREM ConfigValid == Spec => []ConfigStaysValid
<1>1. StoreInv => ConfigStaysValid
  BY DEF StoreInv
<1> QED
  BY <1>1, StoreInvariance, PTL

(* In every config the edits lead to, the selector of a tidy enabled job   *)
(* without a twin finds that job.                                          *)
THEOREM SelectorsFound == Spec => []SelectorsFind
<1>1. StoreInv => SelectorsFind
  <2> SUFFICES ASSUME StoreInv
               PROVE  SelectorFinds(file.jobs)
    BY DEF SelectorsFind
  <2>1. file \in Document
    BY DEF StoreInv, ConfigStaysValid, TypeOK
  <2>2. file.jobs \in Seq(Job)
    BY <2>1 DEF Document
  <2> QED
    BY <2>2, SelectorFindsItsJob
<1> QED
  BY <1>1, StoreInvariance, PTL

(* In every config the edits lead to, whatever sets of selectors are asked *)
(* for, a selection that is not refused is meant and unambiguous.          *)
THEOREM SelectionUnambiguous == Spec => []SelectionIsUnambiguous
<1>1. StoreInv => SelectionIsUnambiguous
  <2> SUFFICES ASSUME StoreInv, NEW requests \in Asked
               PROVE  NothingIsGuessed(file.jobs, requests)
    BY DEF SelectionIsUnambiguous
  <2>1. file \in Document
    BY DEF StoreInv, ConfigStaysValid, TypeOK
  <2>2. file.jobs \in Seq(Job) /\ requests \in SUBSET Seq(Words)
    BY <2>1, StoreAssumption DEF Document
  <2> QED
    BY <2>2, NothingGuessed
<1> QED
  BY <1>1, StoreInvariance, PTL

------------------------------------------------------------------------------
(* Temporary files left behind.                                            *)

(* The saves whose write or rename has failed and whose removal is due:    *)
(* each stands for a fault, and each stray for two.                        *)
Cleaning == {save[t] : t \in {u \in Tabs : pc[u] = "cleaning"}}

StrayInv == ~crashed => 2 * Cardinality(Strays) + Cardinality(Cleaning) <= faults

FewSaves ==
    /\ IsFiniteSet(Strays) /\ Cardinality(Strays) \in Nat
    /\ IsFiniteSet(Cleaning) /\ Cardinality(Cleaning) \in Nat

LEMMA SavesAreFew == TypeOK => FewSaves
<1> SUFFICES ASSUME TypeOK
             PROVE  FewSaves
  OBVIOUS
<1>1. saves \in Nat /\ IsFiniteSet(0 .. saves)
  BY StoreAssumption, FS_Interval DEF TypeOK
<1>2. Strays \subseteq 0 .. saves
  BY <1>1 DEF TypeOK, Strays
<1>3. Cleaning \subseteq 0 .. saves
  BY <1>1 DEF TypeOK, Cleaning
<1> QED
  BY <1>1, <1>2, <1>3, FS_Subset, FS_CardinalityType DEF FewSaves

LEMMA SavesStayFew == TypeOK' => FewSaves'
  BY SavesAreFew, PTL

(* What one fault may do: nothing, let a removal become due, or make that  *)
(* removal fail.                                                           *)
LEMMA FaultsExplain ==
    ASSUME TypeOK, TypeOK', StrayInv, ~crashed, NEW n,
           \/ Strays' \subseteq Strays /\ Cleaning' \subseteq Cleaning /\ faults' >= faults
           \/ /\ Strays' \subseteq Strays /\ Cleaning' \subseteq Cleaning \cup {n}
              /\ faults' = faults + 1
           \/ /\ Strays' \subseteq Strays \cup {n} /\ n \in Cleaning
              /\ Cleaning' \subseteq Cleaning \ {n} /\ faults' = faults + 1
    PROVE  StrayInv'
<1>1. /\ IsFiniteSet(Strays) /\ IsFiniteSet(Strays') /\ IsFiniteSet(Cleaning)
      /\ IsFiniteSet(Cleaning')
      /\ Cardinality(Strays) \in Nat /\ Cardinality(Strays') \in Nat
      /\ Cardinality(Cleaning) \in Nat /\ Cardinality(Cleaning') \in Nat
  BY SavesAreFew, SavesStayFew DEF FewSaves
<1>2. faults \in Nat /\ faults' \in Nat
  BY StoreAssumption DEF TypeOK
<1>3. 2 * Cardinality(Strays) + Cardinality(Cleaning) <= faults
  BY DEF StrayInv
<1>4. Strays' \subseteq Strays => Cardinality(Strays') <= Cardinality(Strays)
  BY <1>1, FS_Subset
<1>5. Cleaning' \subseteq Cleaning => Cardinality(Cleaning') <= Cardinality(Cleaning)
  BY <1>1, FS_Subset
<1>6. Strays' \subseteq Strays \cup {n} => Cardinality(Strays') <= Cardinality(Strays) + 1
  <2>1. /\ IsFiniteSet(Strays \cup {n})
        /\ Cardinality(Strays \cup {n}) \in {Cardinality(Strays), Cardinality(Strays) + 1}
    BY <1>1, FS_AddElement
  <2>2. Strays' \subseteq Strays \cup {n} => Cardinality(Strays') <= Cardinality(Strays \cup {n})
    BY <2>1, FS_Subset
  <2> QED
    BY <1>1, <2>1, <2>2
<1>7. Cleaning' \subseteq Cleaning \cup {n} => Cardinality(Cleaning') <= Cardinality(Cleaning) + 1
  <2>1. /\ IsFiniteSet(Cleaning \cup {n})
        /\ Cardinality(Cleaning \cup {n}) \in {Cardinality(Cleaning), Cardinality(Cleaning) + 1}
    BY <1>1, FS_AddElement
  <2>2. Cleaning' \subseteq Cleaning \cup {n} =>
            Cardinality(Cleaning') <= Cardinality(Cleaning \cup {n})
    BY <2>1, FS_Subset
  <2> QED
    BY <1>1, <2>1, <2>2
<1>8. n \in Cleaning /\ Cleaning' \subseteq Cleaning \ {n} =>
          Cardinality(Cleaning') + 1 <= Cardinality(Cleaning)
  <2>1. n \in Cleaning => /\ IsFiniteSet(Cleaning \ {n})
                          /\ Cardinality(Cleaning \ {n}) = Cardinality(Cleaning) - 1
    BY <1>1, FS_RemoveElement
  <2>2. n \in Cleaning /\ Cleaning' \subseteq Cleaning \ {n} =>
            Cardinality(Cleaning') <= Cardinality(Cleaning \ {n})
    BY <2>1, FS_Subset
  <2> QED
    BY <1>1, <2>1, <2>2
<1>9. 2 * Cardinality(Strays') + Cardinality(Cleaning') <= faults'
  BY <1>1, <1>2, <1>3, <1>4, <1>5, <1>6, <1>7, <1>8
<1> QED
  BY <1>9 DEF StrayInv

LEMMA StepStrays == StoreInv /\ StrayInv /\ [Next]_vars => StrayInv'
<1> SUFFICES ASSUME StoreInv, StrayInv, [Next]_vars
             PROVE  StrayInv'
  OBVIOUS
<1>0. TypeOK /\ TypeOK' /\ OwnTemp /\ faults \in Nat
  BY StepStore, StoreAssumption DEF StoreInv, TypeOK
<1>1. CASE crashed \/ crashed'
  BY <1>1 DEF StrayInv, Next, Crash, Dialog, SaveJob, DeleteJob, AddServer, EditServer,
              DeleteServer, Send, Request, Validate, OpenTemp, WriteTemp, Replace, CleanUp,
              Answer, Refuse, Reload, Show, vars
<1> SUFFICES ASSUME ~crashed, ~crashed'
             PROVE  StrayInv'
  BY <1>1
(* The number a tab leaves while it is not writing is nobody's stray.      *)
<1>2. ASSUME NEW t \in Tabs, pc[t] \notin {"open", "written", "cleaning"},
             \A u \in Tabs \ {t} : pc'[u] = pc[u] /\ save'[u] = save[u],
             pc'[t] # "cleaning", DOMAIN temps' = DOMAIN temps, faults' >= faults
      PROVE  StrayInv'
  <2>1. Strays' \subseteq Strays
    BY <1>2 DEF Strays, Saving
  <2>2. Cleaning' \subseteq Cleaning
    BY <1>2 DEF Cleaning
  <2> QED
    BY <1>0, <1>2, <2>1, <2>2, FaultsExplain
<1>3. ASSUME NEW t \in Tabs, Dialog(t)
      PROVE  StrayInv'
  <2>1. PICK doc \in Document : Send(t, doc)
    BY <1>0, <1>3, EditsAreDocuments
  <2> QED
    BY <1>0, <1>2, <2>1 DEF Send, GoTo, TypeOK
<1>4. ASSUME NEW t \in Tabs, Validate(t) \/ Answer(t) \/ Refuse(t) \/ Reload(t)
      PROVE  StrayInv'
  BY <1>0, <1>2, <1>4 DEF Validate, Answer, Refuse, Reload, Show, GoTo, TypeOK
<1>5. ASSUME NEW t \in Tabs, OpenTemp(t) \/ WriteTemp(t)
      PROVE  StrayInv'
  <2>1. /\ save' = save /\ \A u \in Tabs \ {t} : pc'[u] = pc[u]
        /\ pc[t] \in {"valid", "open"}
    BY <1>0, <1>5 DEF OpenTemp, WriteTemp, GoTo, TypeOK
  <2>2. \/ DOMAIN temps' = DOMAIN temps \cup {save[t]} /\ pc'[t] \in {"open", "written"}
           /\ faults' = faults
        \/ temps' = temps /\ faults' = faults + 1 /\ pc[t] = "valid" /\ pc'[t] = "refused"
        \/ temps' = temps /\ faults' = faults + 1 /\ pc[t] = "open" /\ pc'[t] = "cleaning"
    BY <1>0, <1>5 DEF OpenTemp, WriteTemp, GoTo, Put, TempName, Fault, TypeOK
  <2>3. Strays' \subseteq Strays
    BY <2>1, <2>2 DEF Strays, Saving
  <2>4. Cleaning' \subseteq Cleaning \cup {save[t]} /\ (faults' = faults => Cleaning' \subseteq Cleaning)
    BY <1>0, <2>1, <2>2 DEF Cleaning
  <2> QED
    BY <1>0, <2>2, <2>3, <2>4, FaultsExplain
<1>6. ASSUME NEW t \in Tabs, Replace(t)
      PROVE  StrayInv'
  <2>1. /\ save' = save /\ \A u \in Tabs \ {t} : pc'[u] = pc[u]
        /\ pc[t] = "written"
    BY <1>0, <1>6 DEF Replace, GoTo, TypeOK
  <2>2. \/ DOMAIN temps' = DOMAIN temps \ {save[t]} /\ pc'[t] = "stored" /\ faults' = faults
        \/ temps' = temps /\ faults' = faults + 1 /\ pc'[t] = "cleaning"
    BY <1>0, <1>6 DEF Replace, GoTo, WithoutTemp, TempName, Fault, TypeOK
  <2>3. Strays' \subseteq Strays
    BY <2>1, <2>2 DEF Strays, Saving
  <2>4. Cleaning' \subseteq Cleaning \cup {save[t]} /\ (faults' = faults => Cleaning' \subseteq Cleaning)
    BY <1>0, <2>1, <2>2 DEF Cleaning
  <2> QED
    BY <1>0, <2>2, <2>3, <2>4, FaultsExplain
<1>7. ASSUME NEW t \in Tabs, CleanUp(t)
      PROVE  StrayInv'
  <2>1. /\ save' = save /\ \A u \in Tabs \ {t} : pc'[u] = pc[u]
        /\ pc[t] = "cleaning" /\ pc'[t] = "refused"
    BY <1>0, <1>7 DEF CleanUp, GoTo, TypeOK
  <2>2. \/ DOMAIN temps' = DOMAIN temps \ {save[t]} /\ faults' = faults
        \/ temps' = temps /\ faults' = faults + 1
    BY <1>0, <1>7 DEF CleanUp, WithoutTemp, TempName, Fault, TypeOK
  <2>3. /\ Strays' \subseteq Strays \cup {save[t]}
        /\ faults' = faults => Strays' \subseteq Strays
    <3>1. DOMAIN temps' \subseteq DOMAIN temps
          /\ (faults' = faults => save[t] \notin DOMAIN temps')
      BY <1>0, <2>2
    <3>2. ASSUME NEW n \in DOMAIN temps', ~ Saving(n)', n # save[t]
          PROVE  n \in Strays
      BY <2>1, <3>1, <3>2 DEF Strays, Saving
    <3> QED
      BY <3>1, <3>2 DEF Strays
  <2>4. save[t] \in Cleaning /\ Cleaning' \subseteq Cleaning \ {save[t]}
    <3>1. save[t] \in Cleaning
      BY <2>1 DEF Cleaning
    <3>2. ASSUME NEW u \in Tabs, pc'[u] = "cleaning"
          PROVE  pc[u] = "cleaning" /\ save'[u] # save[t]
      <4>1. u # t /\ pc[u] = "cleaning"
        BY <2>1, <3>2
      <4> QED
        BY <1>0, <2>1, <4>1 DEF OwnTemp, Busy
    <3> QED
      BY <2>1, <3>1, <3>2 DEF Cleaning
  <2> QED
    BY <1>0, <2>2, <2>3, <2>4, FaultsExplain
<1>8. CASE UNCHANGED vars
  BY <1>8 DEF vars, StrayInv, Strays, Saving, Cleaning
<1>9. ~ Crash
  BY DEF Crash
<1> QED
  BY <1>3, <1>4, <1>5, <1>6, <1>7, <1>8, <1>9 DEF Next, Request

(* save_config: until the server is killed, each temporary file left       *)
(* behind is explained by two failed calls, however many saves run at once.*)
THEOREM StraysExplained == Spec => []StraysAreExplained
<1>1. Init => StrayInv
  <2> SUFFICES ASSUME Init
               PROVE  StrayInv
    OBVIOUS
  <2>1. Strays = {} /\ Cleaning = {}
    BY DEF Init, Strays, Cleaning
  <2>2. Cardinality({}) = 0
    BY FS_EmptySet
  <2> QED
    BY <2>1, <2>2 DEF Init, StrayInv
<1>2. StoreInv /\ StrayInv => StraysAreExplained
  <2> SUFFICES ASSUME StoreInv, StrayInv, ~crashed
               PROVE  2 * Cardinality(Strays) <= faults
    BY DEF StraysAreExplained
  <2>1. /\ Cardinality(Strays) \in Nat /\ Cardinality(Cleaning) \in Nat /\ faults \in Nat
    BY SavesAreFew, StoreAssumption DEF FewSaves, StoreInv, TypeOK
  <2> QED
    BY <2>1 DEF StrayInv
<1> QED
  BY <1>1, <1>2, StepStrays, StoreInvariance, PTL DEF Spec

------------------------------------------------------------------------------
(* No dangling server names.                                               *)

Bound(doc) ==
    \A i \in DOMAIN doc.jobs :
        doc.jobs[i].type = Rclone => doc.jobs[i].server \in Names(doc) \cup {Blank}

AllBound == \A t \in Tabs : Bound(shown[t]) /\ Bound(draft[t])

(* Removing an entry of a list keeps the others and adds none.             *)
LEMMA RemovalShifts ==
    ASSUME NEW S, NEW s \in Seq(S), NEW i \in 1 .. Len(s)
    PROVE  /\ Len(RemoveAt(s, i)) = Len(s) - 1 /\ RemoveAt(s, i) \in Seq(S)
           /\ \A k \in 1 .. Len(s) - 1 : RemoveAt(s, i)[k] = IF k < i THEN s[k] ELSE s[k + 1]
<1> DEFINE before == SubSeq(s, 1, i - 1)
           after == SubSeq(s, i + 1, Len(s))
<1>0. /\ Len(s) \in Nat /\ \A k \in 1 .. i - 1 : s[k] \in S
      /\ \A k \in i + 1 .. Len(s) : s[k] \in S
  OBVIOUS
<1>1. /\ before \in Seq(S) /\ Len(before) = i - 1
      /\ \A k \in 1 .. i - 1 : before[k] = s[k]
  <2>1. /\ before \in Seq(S)
        /\ Len(before) = IF 1 <= i - 1 THEN i - 1 - 1 + 1 ELSE 0
        /\ \A k \in 1 .. i - 1 - 1 + 1 : before[k] = s[1 + k - 1]
    BY <1>0, SubSeqProperties
  <2> HIDE DEF before
  <2> QED
    BY <1>0, <2>1
<1>2. /\ after \in Seq(S) /\ Len(after) = Len(s) - i
      /\ \A k \in 1 .. Len(s) - i : after[k] = s[k + i]
  <2>1. /\ after \in Seq(S)
        /\ Len(after) = IF i + 1 <= Len(s) THEN Len(s) - (i + 1) + 1 ELSE 0
        /\ \A k \in 1 .. Len(s) - (i + 1) + 1 : after[k] = s[i + 1 + k - 1]
    BY <1>0, SubSeqProperties
  <2> HIDE DEF after
  <2> QED
    BY <1>0, <2>1
<1> HIDE DEF before, after
<1>3. /\ before \o after \in Seq(S) /\ Len(before \o after) = Len(s) - 1
      /\ \A k \in 1 .. Len(s) - 1 :
            (before \o after)[k] = IF k < i THEN before[k] ELSE after[k - (i - 1)]
  <2>1. /\ before \o after \in Seq(S)
        /\ Len(before \o after) = Len(before) + Len(after)
        /\ \A k \in 1 .. Len(before) + Len(after) : (before \o after)[k] =
              IF k <= Len(before) THEN before[k] ELSE after[k - Len(before)]
    BY <1>1, <1>2, ConcatProperties
  <2> QED
    BY <1>0, <1>1, <1>2, <2>1
<1>4. RemoveAt(s, i) = before \o after
  BY DEF RemoveAt, before, after
<1>5. ASSUME NEW k \in 1 .. Len(s) - 1
      PROVE  (before \o after)[k] = IF k < i THEN s[k] ELSE s[k + 1]
  <2>1. CASE k < i
    BY <1>0, <1>1, <1>3, <2>1
  <2>2. CASE k >= i
    <3>1. k - (i - 1) \in 1 .. Len(s) - i /\ k - (i - 1) + i = k + 1
      BY <1>0, <2>2
    <3>2. after[k - (i - 1)] = s[k + 1]
      BY <1>2, <3>1
    <3> QED
      BY <1>3, <2>2, <3>2
  <2>3. k < i \/ k >= i
    BY <1>0
  <2> QED
    BY <2>1, <2>2, <2>3
<1> QED
  BY <1>3, <1>4, <1>5

LEMMA RemovedStaysIn ==
    ASSUME NEW S, NEW s \in Seq(S), NEW i \in 1 .. Len(s)
    PROVE  \A k \in DOMAIN RemoveAt(s, i) : \E j \in 1 .. Len(s) : RemoveAt(s, i)[k] = s[j]
<1>1. /\ Len(RemoveAt(s, i)) = Len(s) - 1 /\ RemoveAt(s, i) \in Seq(S)
      /\ \A k \in 1 .. Len(s) - 1 : RemoveAt(s, i)[k] = IF k < i THEN s[k] ELSE s[k + 1]
  BY RemovalShifts
<1> QED
  BY <1>1

LEMMA OthersStay ==
    ASSUME NEW S, NEW s \in Seq(S), NEW i \in 1 .. Len(s), NEW j \in 1 .. Len(s), s[j] # s[i]
    PROVE  \E k \in DOMAIN RemoveAt(s, i) : RemoveAt(s, i)[k] = s[j]
<1>1. /\ Len(RemoveAt(s, i)) = Len(s) - 1 /\ RemoveAt(s, i) \in Seq(S)
      /\ \A k \in 1 .. Len(s) - 1 : RemoveAt(s, i)[k] = IF k < i THEN s[k] ELSE s[k + 1]
  BY RemovalShifts
<1>2. CASE j < i
  BY <1>1, <1>2
<1>3. CASE j > i
  <2>1. j - 1 \in 1 .. Len(s) - 1 /\ RemoveAt(s, i)[j - 1] = s[j]
    BY <1>1, <1>3
  <2> QED
    BY <1>1, <2>1
<1> QED
  BY <1>2, <1>3

LEMMA EditsAreBound ==
    ASSUME TypeOK, NEW t \in Tabs, Bound(shown[t]), Dialog(t)
    PROVE  \E doc : Bound(doc) /\ Send(t, doc)
<1>1. /\ shown[t] \in Document /\ shown[t].jobs \in Seq(Job) /\ shown[t].servers \in Seq(Server)
      /\ DOMAIN shown[t].jobs = 1 .. Len(shown[t].jobs)
      /\ DOMAIN shown[t].servers = 1 .. Len(shown[t].servers)
  BY DEF TypeOK, Document
<1>2. ASSUME NEW job \in Jobs, SaveJob(t, job)
      PROVE  \E doc : Bound(doc) /\ Send(t, doc)
  <2>1. job \in Job /\ (job.type = Rclone => job.server \in Names(shown[t]) \cup {Blank})
    BY <1>2, StoreAssumption DEF SaveJob, Offered
  <2>2. ASSUME NEW jobs \in Seq(Job),
               \A k \in DOMAIN jobs : jobs[k] = job \/ \E i \in DOMAIN shown[t].jobs :
                   jobs[k] = shown[t].jobs[i]
        PROVE  Bound([shown[t] EXCEPT !.jobs = jobs])
    <3> DEFINE doc == [shown[t] EXCEPT !.jobs = jobs]
    <3>1. doc.jobs = jobs /\ doc.servers = shown[t].servers
      BY <1>1 DEF Document
    <3>2. Names(doc) = Names(shown[t])
      BY <3>1 DEF Names
    <3> QED
      BY <2>1, <2>2, <3>1, <3>2 DEF Bound
  <2>3. Bound([shown[t] EXCEPT !.jobs = Append(@, job)])
    <3>1. Append(shown[t].jobs, job) \in Seq(Job)
      BY <1>1, <2>1
    <3>2. \A k \in DOMAIN Append(shown[t].jobs, job) :
              \/ Append(shown[t].jobs, job)[k] = job
              \/ \E i \in DOMAIN shown[t].jobs :
                     Append(shown[t].jobs, job)[k] = shown[t].jobs[i]
      BY <1>1, <2>1
    <3> QED
      BY <2>2, <3>1, <3>2
  <2>4. \A i \in DOMAIN shown[t].jobs : Bound([shown[t] EXCEPT !.jobs[i] = job])
    <3> SUFFICES ASSUME NEW i \in DOMAIN shown[t].jobs
                 PROVE  Bound([shown[t] EXCEPT !.jobs = [@ EXCEPT ![i] = job]])
      OBVIOUS
    <3>1. [shown[t].jobs EXCEPT ![i] = job] \in Seq(Job)
      BY <1>1, <2>1
    <3>2. \A k \in DOMAIN [shown[t].jobs EXCEPT ![i] = job] :
              \/ [shown[t].jobs EXCEPT ![i] = job][k] = job
              \/ \E j \in DOMAIN shown[t].jobs :
                     [shown[t].jobs EXCEPT ![i] = job][k] = shown[t].jobs[j]
      BY <1>1, <2>1
    <3> QED
      BY <2>2, <3>1, <3>2
  <2> QED
    BY <1>2, <2>3, <2>4 DEF SaveJob
<1>3. ASSUME DeleteJob(t)
      PROVE  \E doc : Bound(doc) /\ Send(t, doc)
  <2>1. PICK i \in DOMAIN shown[t].jobs : Send(t, [shown[t] EXCEPT !.jobs = RemoveAt(@, i)])
    BY <1>3 DEF DeleteJob
  <2>2. \A k \in DOMAIN RemoveAt(shown[t].jobs, i) : \E j \in DOMAIN shown[t].jobs :
            RemoveAt(shown[t].jobs, i)[k] = shown[t].jobs[j]
    BY <1>1, <2>1, RemovedStaysIn
  <2>3. Bound([shown[t] EXCEPT !.jobs = RemoveAt(@, i)])
    BY <1>1, <2>2 DEF Bound, Names, Document
  <2> QED
    BY <2>1, <2>3
<1>4. ASSUME NEW server \in [name : ServerNames, filled : BOOLEAN], AddServer(t, server)
      PROVE  \E doc : Bound(doc) /\ Send(t, doc)
  <2> DEFINE doc == [shown[t] EXCEPT !.servers = Append(@, server)]
  <2>1. server \in Server
    BY StoreAssumption DEF Server
  <2>2. doc.servers = Append(shown[t].servers, server) /\ doc.jobs = shown[t].jobs
    BY <1>1 DEF Document
  <2>3. Names(shown[t]) \subseteq Names(doc)
    BY <1>1, <2>1, <2>2 DEF Names
  <2> QED
    BY <1>4, <2>2, <2>3 DEF AddServer, Bound
<1>5. ASSUME NEW server \in [name : ServerNames, filled : BOOLEAN], EditServer(t, server)
      PROVE  \E doc : Bound(doc) /\ Send(t, doc)
  <2> DEFINE Follow(old, job) == IF job.type = Rclone /\ job.server = old
                                 THEN [job EXCEPT !.server = server.name] ELSE job
             Edited(i) == [servers |-> [shown[t].servers EXCEPT ![i] = server],
                           jobs |-> [k \in DOMAIN shown[t].jobs |->
                                        Follow(shown[t].servers[i].name, shown[t].jobs[k])]]
  <2>1. PICK i \in DOMAIN shown[t].servers : Send(t, Edited(i))
    BY <1>5 DEF EditServer
  <2>2. /\ server.name \in Names(Edited(i))
        /\ \A name \in Names(shown[t]) :
              name # shown[t].servers[i].name => name \in Names(Edited(i))
    BY <1>1, <2>1 DEF Names
  <2>3. \A k \in DOMAIN shown[t].jobs : shown[t].jobs[k] \in Job
    BY <1>1
  <2>4. Bound(Edited(i))
    BY <2>2, <2>3 DEF Bound, Job
  <2> QED
    BY <2>1, <2>4
<1>6. ASSUME DeleteServer(t)
      PROVE  \E doc : Bound(doc) /\ Send(t, doc)
  <2>1. PICK i \in DOMAIN shown[t].servers :
            /\ \A k \in DOMAIN shown[t].jobs : shown[t].jobs[k].type = Rclone =>
                   shown[t].jobs[k].server # shown[t].servers[i].name
            /\ Send(t, [shown[t] EXCEPT !.servers = RemoveAt(@, i)])
    BY <1>6 DEF DeleteServer
  <2> DEFINE doc == [shown[t] EXCEPT !.servers = RemoveAt(@, i)]
  <2>2. doc.servers = RemoveAt(shown[t].servers, i) /\ doc.jobs = shown[t].jobs
    BY <1>1 DEF Document
  <2>3. \A name \in Names(shown[t]) :
            name # shown[t].servers[i].name => name \in Names(doc)
    <3> SUFFICES ASSUME NEW j \in DOMAIN shown[t].servers,
                        shown[t].servers[j].name # shown[t].servers[i].name
                 PROVE  shown[t].servers[j].name \in Names(doc)
      BY DEF Names
    <3>1. \E k \in DOMAIN RemoveAt(shown[t].servers, i) :
              RemoveAt(shown[t].servers, i)[k] = shown[t].servers[j]
      <4>1. /\ i \in 1 .. Len(shown[t].servers) /\ j \in 1 .. Len(shown[t].servers)
            /\ shown[t].servers[j] # shown[t].servers[i]
        BY <1>1, <2>1
      <4> HIDE DEF doc
      <4> QED
        BY <1>1, <4>1, OthersStay
    <3>2. RemoveAt(shown[t].servers, i) \in Seq(Server)
      BY <1>1, <2>1, RemovalShifts
    <3> HIDE DEF doc
    <3> QED
      BY <2>2, <3>1, <3>2 DEF Names
  <2> QED
    BY <2>1, <2>2, <2>3 DEF Bound
<1> QED
  BY <1>2, <1>3, <1>4, <1>5, <1>6 DEF Dialog

LEMMA StepBound == StoreInv /\ AllBound /\ [Next]_vars => AllBound'
<1> SUFFICES ASSUME StoreInv, AllBound, [Next]_vars
             PROVE  AllBound'
  OBVIOUS
<1> USE DEF AllBound
<1>1. TypeOK /\ Bound(file)
  <2>1. file \in Document /\ file.jobs \in Seq(Job) /\ Valid(file)
    BY DEF StoreInv, ConfigStaysValid, TypeOK, Document
  <2> QED
    BY <2>1 DEF StoreInv, Valid, ValidJob, Bound
<1>2. CASE Crash \/ UNCHANGED vars
  BY <1>2 DEF Crash, vars
<1>3. ASSUME NEW t \in Tabs, Dialog(t)
      PROVE  AllBound'
  <2>1. PICK doc : Bound(doc) /\ Send(t, doc)
    BY <1>1, <1>3, EditsAreBound
  <2> QED
    BY <1>1, <2>1 DEF Send, TypeOK
<1>4. ASSUME NEW t \in Tabs, Validate(t) \/ OpenTemp(t) \/ WriteTemp(t) \/ Replace(t) \/ CleanUp(t)
      PROVE  AllBound'
  BY <1>4 DEF Validate, OpenTemp, WriteTemp, Replace, CleanUp
<1>5. ASSUME NEW t \in Tabs, Answer(t) \/ Refuse(t) \/ Reload(t)
      PROVE  AllBound'
  BY <1>1, <1>5 DEF Answer, Refuse, Reload, Show, TypeOK
<1> QED
  BY <1>2, <1>3, <1>4, <1>5 DEF Next, Request

(* Whatever other tabs saved in between, no edit of a dialog names a       *)
(* server that its own document lacks.                                     *)
THEOREM NoEditDangles == Spec => []EditsNeverDangle
<1>1. Init => AllBound
  <2> SUFFICES ASSUME Init
               PROVE  Bound(file)
    BY DEF Init, AllBound
  <2>1. file \in Document /\ file.jobs \in Seq(Job) /\ Valid(file)
    BY StoreAssumption DEF Init, Document
  <2> QED
    BY <2>1 DEF Valid, ValidJob, Bound
<1>2. AllBound => EditsNeverDangle
  BY DEF AllBound, Bound, EditsNeverDangle
<1> QED
  BY <1>1, <1>2, StepBound, StoreInvariance, PTL DEF Spec
==============================================================================
