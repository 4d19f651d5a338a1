------------------------------ MODULE Selectors ------------------------------
(***************************************************************************)
(* Job selectors and the rules a config obeys: src/sshsync/config.py.      *)
(*                                                                         *)
(* A text is the sequence of the words between its colons, so that a name  *)
(* with a colon in it has two words.  Case and surrounding blanks are the  *)
(* functions Lower and Strip on words.                                     *)
(***************************************************************************)
EXTENDS Naturals, Sequences, FiniteSets

CONSTANTS
    Words,          \* texts without a colon
    Blank,          \* the empty one
    Rclone, Robocopy,
    Lower, Strip    \* str.lower and str.strip on words

ASSUME WordsAssumption ==
    /\ Blank \in Words /\ Rclone \in Words /\ Robocopy \in Words
    /\ Lower \in [Words -> Words] /\ Strip \in [Words -> Words]
    /\ \A w \in {Blank, Rclone, Robocopy} : Lower[w] = w /\ Strip[w] = w
    /\ \A w \in Words : /\ Lower[w] = Blank => w = Blank
                        /\ Strip[Strip[w]] = Strip[w] /\ Lower[Lower[w]] = Lower[w]
                        /\ Strip[Lower[w]] = Lower[Strip[w]]
    /\ Cardinality({Blank, Rclone, Robocopy}) = 3

JobTypes == {Rclone, Robocopy}

(* filled: every other required field holds something.                     *)
Job == [type : JobTypes, server : Words, name : Seq(Words),
        enabled : BOOLEAN, filled : BOOLEAN]
Server == [name : Words, filled : BOOLEAN]
Document == [servers : Seq(Server), jobs : Seq(Job)]

------------------------------------------------------------------------------
(* validate_config                                                         *)

Names(doc) == {doc.servers[i].name : i \in DOMAIN doc.servers}

ValidServers(servers) ==
    /\ \A i \in DOMAIN servers : servers[i].name # Blank /\ servers[i].filled
    /\ \A i, k \in DOMAIN servers : servers[i].name = servers[k].name => i = k

ValidJob(job, known) ==
    /\ job.filled
    /\ job.type = Rclone => job.server # Blank /\ job.server \in known

Valid(doc) ==
    /\ doc.jobs # << >>
    /\ ValidServers(doc.servers)
    /\ \A i \in DOMAIN doc.jobs : ValidJob(doc.jobs[i], Names(doc))

------------------------------------------------------------------------------
(* Selectors.                                                              *)

JobSelector(job) ==
    (IF job.type = Rclone THEN <<Rclone, Strip[job.server]>> ELSE <<job.type>>) \o job.name

Parts(request) == [i \in DOMAIN request |-> Lower[Strip[request[i]]]]

IsBlank(request) == request \in Seq({w \in Words : Strip[w] = Blank}) /\ Len(request) = 1

(* parse_selector accepts NAME, TYPE:NAME and TYPE:SERVER:NAME.            *)
WellFormed(request) ==
    LET parts == Parts(request) IN
    /\ Len(request) \in 1 .. 3
    /\ parts[Len(request)] # Blank
    /\ Len(request) = 2 => parts[1] \in JobTypes
    /\ Len(request) = 3 => parts[1] = Rclone /\ parts[2] # Blank

(* Seeded fault: what a request has before the name is not compared.       *)
Matches_NameOnly(job, request) ==
    Len(job.name) = 1 /\ Lower[job.name[1]] = Parts(request)[Len(request)]

(* Seeded fault: the name of the job is compared as it is written.         *)
Matches_CaseSensitive(job, request) ==
    LET parts == Parts(request) IN
    /\ job.name = <<parts[Len(request)]>>
    /\ Len(request) > 1 => job.type = parts[1]
    /\ Len(request) = 3 => Lower[job.server] = parts[2]

(* _job_matches: a missing type or server matches any.                     *)
Matches(job, request) ==
    LET parts == Parts(request) IN
    /\ Len(job.name) = 1 /\ Lower[job.name[1]] = parts[Len(request)]
    /\ Len(request) > 1 => job.type = parts[1]
    /\ Len(request) = 3 => Lower[job.server] = parts[2]

Enabled(jobs) == {i \in DOMAIN jobs : jobs[i].enabled}
EnabledMatches(jobs, request) == {i \in Enabled(jobs) : Matches(jobs[i], request)}

Resolves(jobs, request) ==
    WellFormed(request) /\ Cardinality(EnabledMatches(jobs, request)) = 1

(* select_jobs, as positions in the config: the jobs it returns, and       *)
(* whether it returns any or raises.                                       *)
Named(requests) == {r \in requests : ~ IsBlank(r)}
Accepts(jobs, requests) ==
    requests # {} => Named(requests) # {} /\ \A r \in Named(requests) : Resolves(jobs, r)
SelectJobs(jobs, requests) ==
    IF requests = {} THEN Enabled(jobs)
    ELSE UNION {EnabledMatches(jobs, r) : r \in Named(requests)}

------------------------------------------------------------------------------
(* What a selector means to its user, without regard to case and blanks:   *)
(* the texts of the job it gives, from the name backwards.                 *)

SameText(a, b) == Lower[Strip[a]] = Lower[Strip[b]]

Means(job, request) ==
    /\ Len(job.name) = 1
    /\ SameText(request[Len(request)], job.name[1])
    /\ Len(request) > 1 => SameText(request[1], job.type)
    /\ Len(request) > 2 => SameText(request[2], job.server)

(* Texts as the web form saves them: trimmed, and a name without a colon.  *)
Tidy(job) ==
    /\ Len(job.name) = 1
    /\ job.name[1] # Blank
    /\ Strip[job.name[1]] = job.name[1]
    /\ Strip[job.server] = job.server

Twins(j, k) ==
    /\ j.type = k.type
    /\ j.type = Rclone => SameText(j.server, k.server)
    /\ Len(j.name) = 1 /\ Len(k.name) = 1 /\ SameText(j.name[1], k.name[1])

(* The selector of an enabled job selects that job and no other, unless    *)
(* another enabled job has the same type, server and name (job_selector    *)
(* against parse_selector, _job_matches and select_jobs).                  *)
SelectorFinds(jobs) ==
    \A i \in Enabled(jobs) :
        Tidy(jobs[i]) /\ (jobs[i].type = Rclone => jobs[i].server # Blank)
                      /\ (\A k \in Enabled(jobs) \ {i} : ~ Twins(jobs[i], jobs[k]))
        => /\ Accepts(jobs, {JobSelector(jobs[i])})
           /\ SelectJobs(jobs, {JobSelector(jobs[i])}) = {i}

(* "raises rather than silently guessing which tree to overwrite": a set   *)
(* of requests that is accepted selects only jobs that a request means,    *)
(* one for every request, and no other tidy enabled job is meant by the    *)
(* same request (select_jobs).  Of disabled jobs it says nothing: "skipped *)
(* unless selected explicitly" (README) is not what the code does, which   *)
(* refuses a request that only they match (Resolves).                      *)
NothingIsGuessed(jobs, requests) ==
    requests # {} /\ Accepts(jobs, requests) =>
        /\ \A i \in SelectJobs(jobs, requests) : \E r \in requests : Means(jobs[i], r)
        /\ \A r \in Named(requests) :
              /\ \E i \in SelectJobs(jobs, requests) : Means(jobs[i], r)
              /\ Cardinality({i \in Enabled(jobs) : Tidy(jobs[i]) /\ Means(jobs[i], r)}) <= 1
==============================================================================
