-------------------------- MODULE MCWorkspaceLocks --------------------------
(* Small instances of WorkspaceLocks: rooms on shared directories. *)
EXTENDS WorkspaceLocks

CONSTANTS r1, r2, r3, d1, d2

TwoRooms == {r1, r2}
ThreeRooms == {r1, r2, r3}
OneDirectory == {d1}
TwoDirectories == {d1, d2}
Crash == {"crash"}
=============================================================================
