------------------------- MODULE MCWorkflowHandlers -------------------------
(***************************************************************************)
(* An order flow.  A condition chooses                                    *)
(*   - a sequence: reserve, charge and ship, then a conditional way to     *)
(*     notify and a default one to archive, which is done by hand; reserve *)
(*     and charge are compensated by release and refund and charge is      *)
(*     tried twice; or                                                     *)
(*   - a fork: open starts the branches, whose join confirms, and the join *)
(*     requires every branch.                                              *)
(* The runs differ in the number of branches, in what may fail and in what *)
(* has an output.                                                          *)
(***************************************************************************)
EXTENDS WorkflowProperties

Edge(type, from, to) ==
    [type |-> type, from |-> from, to |-> to, branches |-> <<>>, required |-> 0]

Fork(branches) ==
    [type |-> "fork", from |-> "open", to |-> "confirm",
     branches |-> branches, required |-> Len(branches)]

Sequence == {"reserve", "charge", "ship", "notify", "archive", "release", "refund"}
Parallel == {"open", "stock", "credit", "fraud", "confirm", "undoOpen", "undoStock"}

MCSteps == {"intake"} \cup Sequence \cup Parallel

MCHandled == MCSteps \ {"archive"}

MCTransitions ==
    {Edge("conditional", "intake", "reserve"), Edge("default", "intake", "open"),
     Edge("sequential", "reserve", "charge"), Edge("sequential", "charge", "ship"),
     Edge("conditional", "ship", "notify"), Edge("default", "ship", "archive"),
     Fork(<<"stock", "credit", "fraud">>)}

TwoBranches == {Fork(<<"stock", "credit">>)}

MCMaxAttempts == [s \in MCSteps |-> IF s \in {"charge", "stock"} THEN 2 ELSE 1]
MCCompensatedBy ==
    [s \in MCSteps |-> CASE s = "reserve" -> "release" [] s = "charge" -> "refund"
                         [] s = "open" -> "undoOpen" [] s = "stock" -> "undoStock"
                         [] OTHER -> NoStep]
=============================================================================
