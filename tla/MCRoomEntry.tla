----------------------------- MODULE MCRoomEntry -----------------------------
(* Two creations, and a pool of two ports, the first of which another program *)
(* holds: a creation finds the other one, or one the system hands out.        *)
EXTENDS RoomEntry

CONSTANTS p1, p2, p3

MCPortPool == <<p1, p2>>
MCOccupied == {{p1}}
=============================================================================
