------------------------------ MODULE MCAStar ------------------------------
(***************************************************************************)
(* AStar for TLC.  The first search is on one of three maps: without       *)
(* obstacles, with some in the way, and with an end that can only be       *)
(* pushed out of the pool.  The second, on the pool the first left, is on  *)
(* any map of eight cells between and around the two ends.                  *)
(***************************************************************************)
EXTENDS AStar

Around == ({3, 4} \X {1, 2, 3}) \cup {<<2, 2>>, <<5, 2>>}

MCMaps ==
  << {{}, {<<3, 2>>, <<4, 2>>}, {<<5, 2>>, <<6, 2>>}}, SUBSET Around >>

MCRequests == {<<4000, 0>>, <<2000, 2000>>, <<0, -2000>>}
=============================================================================
