--------------------------- MODULE PaymentLedger ---------------------------
(***************************************************************************)
(* What the settlement of invoices or bills promises: each payment or      *)
(* credit is taken off what is due at once, and never takes more than that.*)
(***************************************************************************)
EXTENDS Integers

CONSTANTS Invoices, Totals

VARIABLE due

Init == due = Totals

Settle(i) ==
    \E rest \in 0..due[i] : due' = [due EXCEPT ![i] = rest]

Next == \E i \in Invoices : Settle(i)

Spec == Init /\ [][Next]_due
=============================================================================
