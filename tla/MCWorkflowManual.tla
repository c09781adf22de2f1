-------------------------- MODULE MCWorkflowManual --------------------------
(***************************************************************************)
(* A document flow without handlers: draft (two attempts), an optional     *)
(* review, a cooling-off wait and publish, all driven by the commands that *)
(* callers dispatch, in any order.                                         *)
(***************************************************************************)
EXTENDS WorkflowProperties

Edge(from, to) ==
    [type |-> "sequential", from |-> from, to |-> to, branches |-> <<>>, required |-> 0]

MCSteps == {"draft", "review", "cool", "publish", "discard"}
MCTransitions == {Edge("draft", "review"), Edge("review", "cool"), Edge("cool", "publish")}
MCMaxAttempts == [s \in MCSteps |-> IF s = "draft" THEN 2 ELSE 1]
MCCompensatedBy == [s \in MCSteps |-> IF s = "draft" THEN "discard" ELSE NoStep]

OnSteps(ops, ids) == ops \X ids
OnInstance(ops) == ops \X {"draft"}

AllRequests ==
    OnSteps({"complete", "fail"}, {"draft", "review", "cool", "publish"})
    \cup OnSteps({"retry", "start"}, {"draft"})
    \cup OnSteps({"skip"}, {"review", "publish"})
    \cup OnSteps({"cancel"}, {"review", "publish"})
    \cup OnInstance({"advance", "suspend", "resume", "terminate"})
=============================================================================
