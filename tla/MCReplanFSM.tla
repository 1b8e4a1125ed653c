---------------------------- MODULE MCReplanFSM ----------------------------
(* Small instances of ReplanFSM: a quarter turn is one unit, one unit of    *)
(* time is half a settling time.                                            *)
EXTENDS ReplanFSM
=============================================================================
