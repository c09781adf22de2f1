------------------------- MODULE MCResourcePlanning -------------------------
(***************************************************************************)
(* Two assignees with a capacity of 2; requests for one assignee compete   *)
(* for it, and the repository may never answer a call for the other.       *)
(***************************************************************************)
EXTENDS ResourcePlanning

CONSTANTS k1, k2

MCAsks ==
    [op : {"assign"}, assignee : {k1}, share : {1, 2}, capacity : {2}]
    \cup [op : {"assign"}, assignee : {k2}, share : {1}, capacity : {2}]
    \cup [op : {"update"}, assignment : Assignments, share : {2}, capacity : {2, 3}]
=============================================================================
