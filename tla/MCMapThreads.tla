---------------------------- MODULE MCMapThreads ----------------------------
(***************************************************************************)
(* Small instances of the threading system for TLC.                        *)
(***************************************************************************)
EXTENDS MapThreads

MCMaps == {1, 2}
=============================================================================
