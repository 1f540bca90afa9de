---------------------------- MODULE MCPlaySession ----------------------------
(* Two lists of waypoints are enough to tell an answer from another.       *)
EXTENDS PlaySession
=============================================================================
