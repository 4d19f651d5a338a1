------------------------------ MODULE JobPlans -------------------------------
(***************************************************************************)
(* Every plan of at most MaxJobs jobs, built one job at a time, and the    *)
(* places on this machine its jobs really share: the reference the         *)
(* dependencies of Planner are compared with.                              *)
(***************************************************************************)
EXTENDS Planner

CONSTANTS
    Offered,    \* the jobs a plan may be built of
    Depth,      \* bound: segments of a place
    MaxJobs     \* bound: jobs of a plan

(* A place is a path below the root.                                       *)
Places == UNION {[1 .. n -> Segments] : n \in 1 .. Depth}

(* The root directory is left out: see the README.                         *)
ASSUME PlansAssumption ==
    /\ Offered \subseteq Job
    /\ \A job \in Offered :
        /\ job.type = "rclone" => job.server \in Servers
        /\ {job.source, job.destination} \subseteq Places \cup {NoPath}
    /\ Depth \in Nat /\ MaxJobs \in Nat

VARIABLE plan

Init == plan = << >>

AddJob ==
    /\ Len(plan) < MaxJobs
    /\ \E job \in Offered : plan' = Append(plan, job)

Next == AddJob

Spec == Init /\ [][Next]_plan

------------------------------------------------------------------------------
(* Places on this machine a job can touch: every place at or below a path. *)

Tree(path) ==
    IF path = NoPath THEN {}
    ELSE {p \in Places : \E rest \in Places \cup {<< >>} : p = path \o rest}

ReadPlaces(job) == Tree(job.source)

WrittenPlaces(job) ==
    IF job.type = "rclone" /\ job.server \notin Loopback
    THEN {} ELSE Tree(job.destination)

SharePlaces(j, k) ==
    \/ WrittenPlaces(j) \cap (ReadPlaces(k) \cup WrittenPlaces(k)) # {}
    \/ ReadPlaces(j) \cap WrittenPlaces(k) # {}

(* A job waits for an earlier job of another lane exactly when some place  *)
(* on this machine is touched by both and written by one of them: no such  *)
(* pair can run together, and no other pair is held back                   *)
(* (build_job_dependencies, paths_overlap).                                *)
DependenciesAreExact ==
    \A k \in Index(plan), i \in Index(plan) :
        i \in Dependencies(plan, k) <=>
            /\ i < k
            /\ LaneOf(plan, i) # LaneOf(plan, k)
            /\ SharePlaces(plan[i], plan[k])
==============================================================================
