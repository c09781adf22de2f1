--------------------------- MODULE MCJournalEntries -------------------------
(***************************************************************************)
(* One template, due on date 1 and every second date, and one kind of      *)
(* entry that callers create.                                              *)
(***************************************************************************)
EXTENDS JournalEntries, TLC

CONSTANT t1

Line(cash, other) == [cash |-> cash, other |-> other]

MCInputLines == {Line(1, -1), Line(1, 0)}
MCBalanced == [t \in Templates |-> Line(2, -2)]
MCStartDate == [t \in Templates |-> 1]
MCEndDate == [t \in Templates |-> 4]
MCInterval == [t \in Templates |-> 2]

Symmetric == Permutations(Calls)
=============================================================================
