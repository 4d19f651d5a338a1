---------------------------- MODULE MCSyncRunner -----------------------------
(***************************************************************************)
(* Instances of SyncRunner for TLC: two rclone servers, one of them on     *)
(* this machine, and job lists that between them have every kind of        *)
(* dependency the planner makes.                                           *)
(***************************************************************************)
EXTENDS SyncRunner

CONSTANTS nas, home, a, b, c, d, c1

MCServers == {nas, home}
MCLoopback == {home}
MCSegments == {a, b, c, d}
MCCancellers == {c1}

Mirror(from, to) ==
    [type |-> "robocopy", server |-> NoServer, source |-> from, destination |-> to]
Upload(s, from, to) ==
    [type |-> "rclone", server |-> s, source |-> from, destination |-> to]

(* One mirror feeds an upload; a copy then overwrites what both touched.   *)
FanOut == << Mirror(<<a>>, <<b>>), Upload(nas, <<b, c>>, <<a>>), Upload(home, <<a>>, <<b>>) >>

(* The second overwrites what the first reads, the third reads that.       *)
Chain == << Upload(nas, <<a>>, <<a>>), Upload(home, <<b>>, <<a>>), Mirror(<<a, b>>, <<d>>) >>

(* One mirror of a lane feeds an upload on another.                        *)
SecondOfLane == << Mirror(<<a>>, <<b>>), Mirror(<<c>>, <<d>>), Upload(nas, <<d>>, <<c>>) >>

(* Two lanes, each with a job that waits for one of the other lane.        *)
Crossed == << Upload(nas, <<a>>, <<a>>), Mirror(<<a>>, <<c>>),
              Mirror(<<c>>, <<a>>), Upload(nas, <<c>>, <<c>>) >>

(* The upload waits for the other lane, and that lane then for the upload. *)
ThereAndBack == << Mirror(<<a>>, <<b>>), Upload(nas, <<b>>, <<b>>), Mirror(<<a>>, <<b, c>>) >>

(* Two jobs with one source, and independent of the third.                 *)
OneSource == << Upload(nas, <<a>>, <<b>>), Upload(nas, <<a>>, <<c>>), Mirror(<<b>>, <<d>>) >>

SafetyPlans == {FanOut, Chain, SecondOfLane, Crossed}
LivenessPlans == {SecondOfLane, OneSource, ThereAndBack}
==============================================================================
