--------------------------- MODULE MC_MoveRequest ---------------------------
(***************************************************************************)
(* Model-checking instance of MoveRequest: a plan of three waypoints (the  *)
(* start and two moves, so the index is advanced once and then held at the *)
(* last waypoint) with both replanners polling.                            *)
(***************************************************************************)
EXTENDS MoveRequest

MCNumWaypoints == 3
MCPolling == {"position", "obstacle"}
=============================================================================
