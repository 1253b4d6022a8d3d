----------------------------- MODULE MCShipTrack -----------------------------
(* ShipTrack for model checking: a ship that moves in either direction, and *)
(* sends in every minute of the first hour, half a minute before its end,   *)
(* and at the beginning, in the middle and at the end of the second.        *)
EXTENDS ShipTrack

MCTimestamps == {0, 2, 4, 6, 8, 10, 11, 12, 18, 22}
MCPositions == {[x |-> 3, y |-> 3], [x |-> 5, y |-> 3], [x |-> 5, y |-> 4]}
=============================================================================
