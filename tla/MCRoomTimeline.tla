--------------------------- MODULE MCRoomTimeline ---------------------------
(* RoomTimeline with the values of its constants for model checking.       *)
EXTENDS RoomTimeline
=============================================================================
