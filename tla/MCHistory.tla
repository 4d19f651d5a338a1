------------------------------ MODULE MCHistory ------------------------------
(***************************************************************************)
(* Instances of History for TLC: two lanes and a dashboard request of the  *)
(* web server, and the command line in a process of its own.                *)
(***************************************************************************)
EXTENDS History, TLC

CONSTANTS web, cli, lane, lane2, dash, other

MCWriters == {lane, lane2, other}
MCReaders == {dash}
LaneSymmetry == Permutations({lane, lane2})
MCHome == (lane :> web) @@ (lane2 :> web) @@ (dash :> web) @@ (other :> cli)
MCLegacyStores == {None, <<1, 2>>}

MCJobOf == [e \in 1 .. 4 |-> IF e = 2 THEN "books" ELSE "films"]
MCServerOf == [e \in 1 .. 4 |-> IF e < 3 THEN "local" ELSE "nas"]
MCFailed == {2, 3}
==============================================================================
