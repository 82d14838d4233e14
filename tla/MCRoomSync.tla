----------------------------- MODULE MCRoomSync -----------------------------
(* Two node objects (a second load or create makes twins), two positions,  *)
(* one process node and one client: a description goes to all clients      *)
(* alike, so one that asks again stands for one that watches others come.  *)
(* Objects are interchangeable, and so are the mouse and the process node  *)
(* as holders: one of them at a time is enough.                            *)
EXTENDS RoomSync, TLC

CONSTANTS o1, o2, p1, p2, c1, n1

MCObject == {o1, o2}
MCPosition == {p1, p2}
MCClient == {c1}
MCProcNode == {n1}
MCSymmetry == Permutations(MCObject)
MCFewHolders == hovered = Nobody \/ kept[n1] = Nobody
=============================================================================
