----------------------------- MODULE JobSchedule -----------------------------
(***************************************************************************)
(* What a run promises about its jobs, whatever lanes and threads it uses: *)
(* jobs that contend for a local tree are at work one at a time, in the    *)
(* order the config lists them.  A job that cannot be run any more is      *)
(* given up, and a job that is over never starts again.                    *)
(***************************************************************************)
EXTENDS Planner

VARIABLES
    jobs,       \* the plan
    state       \* each job: "waiting", "working" or "over"

svars == <<jobs, state>>

(* Every earlier job this one contends with is over.                       *)
Clear(i) ==
    \A k \in 1 .. (i - 1) : Contend(jobs[k], jobs[i]) => state[k] = "over"

SInit ==
    /\ jobs \in Plans
    /\ state = [i \in Index(jobs) |-> "waiting"]

Start(i) ==
    /\ state[i] = "waiting"
    /\ Clear(i)
    /\ state' = [state EXCEPT ![i] = "working"]
    /\ UNCHANGED jobs

(* Jobs end, or are given up, alone or together.                           *)
Settle(S) ==
    /\ S # {}
    /\ \A i \in S : state[i] # "over"
    /\ state' = [i \in Index(jobs) |-> IF i \in S THEN "over" ELSE state[i]]
    /\ UNCHANGED jobs

SNext ==
    \/ \E i \in Index(jobs) : Start(i)
    \/ \E S \in SUBSET Index(jobs) : Settle(S)

SSpec == SInit /\ [][SNext]_svars
==============================================================================
