---------------------------- MODULE MCRoomRoster ----------------------------
(* RoomRoster for model checking: the first room is left for the second.   *)
EXTENDS RoomRoster

CONSTANTS a, r1, r2

Visited == <<r1, r2>>
Rosters == {[r \in Rooms |-> IF r = r1 THEN {a} ELSE {}]}

Spec == Init /\ [][Next]_rosterVars
=============================================================================
