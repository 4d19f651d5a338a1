------------------------------ MODULE MCPlanner ------------------------------
(***************************************************************************)
(* Instances of JobPlans for TLC: local and rclone jobs over paths that    *)
(* contain each other, on a server that is this machine and one that is    *)
(* not.                                                                    *)
(***************************************************************************)
EXTENDS JobPlans

CONSTANTS nas, home, a, b

MCServers == {nas, home}
MCLoopback == {home}
MCSegments == {a, b}

MCPaths == {<<a>>, <<b>>, <<a, b>>}

MCOffered ==
    [type : {"robocopy"}, server : {NoServer},
     source : MCPaths, destination : MCPaths \cup {NoPath}]
    \cup
    [type : {"rclone"}, server : Servers,
     source : MCPaths, destination : MCPaths \cup {NoPath}]
==============================================================================
