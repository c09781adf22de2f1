--------------------------- MODULE MCCoordination ---------------------------
(***************************************************************************)
(* Two plans of two steps, the first of which runs a workflow; the steps   *)
(* of the plan by which the mission is judged are advanced, and callers    *)
(* begin the mission, plan it and complete it themselves, too.             *)
(***************************************************************************)
EXTENDS Coordination, TLC

CONSTANTS w1, w2

Asked(op, i, w, to) == [op |-> op, step |-> <<1, i>>, worker |-> w, to |-> to]

MCAsks ==
    {Asked("start", 1, w1, "active"), Asked("complete", 1, w1, "active"),
     Asked("advance", 1, w1, "active"), Asked("advance", 2, w1, "active"),
     Asked("assign", 1, w2, "active"), Asked("begin", 1, w1, "active")} \cup
    {Asked("move", 1, w1, to) : to \in {"planning", "completed"}}

CallerSymmetry == Permutations(Callers)
=============================================================================
