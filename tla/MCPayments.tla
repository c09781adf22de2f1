----------------------------- MODULE MCPayments -----------------------------
(***************************************************************************)
(* Invoice 1 is issued and only settled; invoice 2 is created, issued,     *)
(* paid, credited and cancelled by calls that overlap.                     *)
(***************************************************************************)
EXTENDS Payments

CONSTANT n1

Asked(op, i, n, amount) == [op |-> op, invoice |-> i, note |-> n, amount |-> amount]

MCTotal == [i \in Keys |-> IF i = 1 THEN 3 ELSE 2]
MCNoteAmount == [n \in Notes |-> 1]
MCSeedStatus == [i \in Keys |-> IF i = 1 THEN "issued" ELSE "none"]

MCAsks ==
    {Asked("pay", 1, NoNote, 1), Asked("pay", 1, NoNote, 2), Asked("pay", 2, NoNote, 2),
     Asked("issue", 2, NoNote, 0), Asked("cancel", 2, NoNote, 0),
     Asked("issueNote", 1, n1, 0), Asked("apply", 1, n1, 0), Asked("apply", 2, n1, 0)}
=============================================================================
