------------------------------- MODULE MCConfig ------------------------------
(***************************************************************************)
(* Instances of ConfigStore for TLC.  Names differ in case, contain a      *)
(* colon or blanks, repeat each other and repeat the name of a type.       *)
(***************************************************************************)
EXTENDS ConfigStore, TLC

CONSTANTS t1, t2

TabSymmetry == Permutations({t1, t2})

MCWords == {"", " ", "rclone", "robocopy", "docs", "Docs", "nas", " nas", "home"}
MCLower == [w \in MCWords |-> IF w = "Docs" THEN "docs" ELSE w]
MCStrip == [w \in MCWords |-> CASE w = " " -> "" [] w = " nas" -> "nas" [] OTHER -> w]

MkJob(type, server, name, enabled, filled) ==
    [type |-> type, server |-> server, name |-> name, enabled |-> enabled,
     filled |-> filled]

MCJobs ==
    { MkJob("robocopy", "", <<"docs">>, FALSE, TRUE),
      MkJob("robocopy", "", <<"Docs">>, TRUE, TRUE),
      MkJob("rclone", "nas", <<"docs">>, TRUE, TRUE),
      MkJob("rclone", "nas", <<"rclone">>, TRUE, TRUE) }

MCInitial ==
    { [servers |-> << [name |-> "nas", filled |-> TRUE] >>,
       jobs |-> << MkJob("robocopy", "", <<"docs", "nas">>, TRUE, TRUE) >>],
      [servers |-> << [name |-> "nas", filled |-> TRUE], [name |-> " nas", filled |-> TRUE] >>,
       jobs |-> << MkJob("robocopy", "", <<"docs">>, TRUE, TRUE),
                   MkJob("rclone", " nas", <<"Docs">>, TRUE, TRUE) >>] }

MCRequests ==
    {<<w>> : w \in {"Docs", "rclone", " "}}
    \cup {<<type, "Docs">> : type \in {"rclone", "robocopy"}}
    \cup {<<"rclone", " nas", "docs">>}

(* Alone, and together with another one.                                   *)
MCAsked == {{r} : r \in MCRequests} \cup {{r, <<"robocopy", "docs">>} : r \in MCRequests}
==============================================================================
