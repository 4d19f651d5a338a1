------------------------------- MODULE Planner -------------------------------
(***************************************************************************)
(* The scheduling rules of src/sshsync/planner.py, which is free of I/O:   *)
(* which jobs share a lane, which local trees a job reads and writes, and  *)
(* which earlier jobs a job must wait for.                                 *)
(*                                                                         *)
(* A plan is the sequence of job records one run was given, in config      *)
(* order.  A path is written as the sequence of its segments, so the root  *)
(* directory is << >>; NoPath stands for a missing or empty path text.     *)
(***************************************************************************)
EXTENDS Naturals, Sequences, FiniteSets, SequencesExt

CONSTANTS
    Servers,        \* names of the configured rclone servers
    Loopback,       \* the servers whose host is this machine
    Segments,       \* path segments, lower-cased
    NoPath,         \* the empty path text
    NoServer,       \* a job without a server field
    Plans           \* the job lists a run may be given

Path == Seq(Segments) \cup {NoPath}


Job == [type : {"rclone", "robocopy"},
        server : Servers \cup {NoServer},
        source : Path,
        destination : Path]

ASSUME PlannerAssumption ==
    /\ Loopback \subseteq Servers
    /\ NoServer \notin Servers
    /\ Plans \subseteq Seq(Job)

------------------------------------------------------------------------------
(* Lanes: each rclone server is one lane, every other job shares one lane. *)

LaneKey(job) ==
    IF job.type = "rclone" THEN <<"rclone", job.server>>
                           ELSE <<"robocopy", NoServer>>

LaneKeys == ({"rclone"} \X (Servers \cup {NoServer})) \cup {<<"robocopy", NoServer>>}

Index(plan) == 1 .. Len(plan)

LaneOf(plan, i) == LaneKey(plan[i])

LaneJobs(plan, lane) == {i \in Index(plan) : LaneOf(plan, i) = lane}

PlanLanes(plan) == {LaneOf(plan, i) : i \in Index(plan)}

------------------------------------------------------------------------------
(* Local trees.                                                            *)

(* Trailing slashes are stripped, so the root becomes the empty string,   *)
(* the same value as a missing path.                                      *)
NormalizeLocalPath(p) == IF p = NoPath THEN << >> ELSE p

PathsOverlap(p, q) ==
    /\ p # << >>
    /\ q # << >>
    /\ IsPrefix(p, q) \/ IsPrefix(q, p)

(* A job without a known server has no host, which counts as loopback.    *)
IsLoopback(server) == server \in Loopback \cup {NoServer}

ReadPath(job) == NormalizeLocalPath(job.source)

(* Seeded fault: an rclone destination is always taken for remote.         *)
WritePath_RcloneIsRemote(job) ==
    IF job.type = "robocopy" THEN NormalizeLocalPath(job.destination) ELSE << >>

WritePath(job) ==
    IF job.type = "robocopy" \/ IsLoopback(job.server)
    THEN NormalizeLocalPath(job.destination)
    ELSE << >>

(* Two jobs contend when one of them writes a tree the other one touches. *)
Contend(earlier, later) ==
    \/ PathsOverlap(WritePath(earlier), ReadPath(later))
    \/ PathsOverlap(WritePath(earlier), WritePath(later))
    \/ PathsOverlap(ReadPath(earlier), WritePath(later))

(* Seeded fault: a later job overwriting what an earlier one reads is      *)
(* forgotten.                                                              *)
Dependencies_WritesOnly(plan, later) ==
    {earlier \in 1 .. (later - 1) :
        /\ LaneOf(plan, earlier) # LaneOf(plan, later)
        /\ PathsOverlap(WritePath(plan[earlier]), ReadPath(plan[later]))}

Dependencies(plan, later) ==
    {earlier \in 1 .. (later - 1) :
        /\ LaneOf(plan, earlier) # LaneOf(plan, later)
        /\ Contend(plan[earlier], plan[later])}

RequiredServers(plan) ==
    {plan[i].server : i \in {k \in Index(plan) : plan[k].type = "rclone"}} \ {NoServer}

==============================================================================
