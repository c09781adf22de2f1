------------------------------ MODULE Payments ------------------------------
(***************************************************************************)
(* Invoices, payments and credit notes of the accounts receivable engine.  *)
(* Accounts payable has the same code with bills and vendor credits.       *)
(*                                                                         *)
(* A call awaits the repository between its read and its save, and other   *)
(* calls run there.  applyToInvoice holds the lock of the invoice, which   *)
(* is used here through what KeyMutex is shown to implement, FifoLock.     *)
(* Issuing and cancelling take no lock.                                    *)
(***************************************************************************)
EXTENDS FifoLock

CONSTANTS
    Notes,      \* credit notes
    NoNote,     \* the note of a request that has none
    Total,      \* per invoice (the keys of the lock): its total
    NoteAmount, \* per credit note: its amount
    Asks,       \* the requests callers may make
    SeedStatus  \* per invoice: its status at the start

Statuses == {"none", "draft", "issued", "partially_paid", "paid", "cancelled"}
NoteStatuses == {"none", "draft", "issued", "applied"}
Operations == {"issue", "cancel", "pay", "issueNote", "apply"}
Request == [op : Operations, invoice : Keys, note : Notes \cup {NoNote}, amount : Nat]

ASSUME TotalAssumption == Total \in [Keys -> Nat] /\ NoteAmount \in [Notes -> Nat]
ASSUME AsksAssumption ==
    /\ Asks # {} /\ Asks \subseteq Request
    /\ \A a \in Asks : a.op \in {"issueNote", "apply"} => a.note \in Notes
ASSUME SeedAssumption == SeedStatus \in [Keys -> {"none", "draft", "issued"}]

VARIABLES
    invoice,  \* per invoice: its status and what is paid (the rest is due)
    note,     \* per credit note: its status
    ask,      \* per call: its request
    step,     \* per call: how far it is
    copy,     \* per call: the invoice it read last
    credited  \* history: per invoice, what applyToInvoice took off its balance

callVars == <<ask, step, copy>>
paymentVars == <<vars, invoice, note, callVars, credited>>

Steps == {"idle", "read", "queued", "guarded", "applied", "done", "failed"}

PaymentsInit ==
    /\ Init
    /\ invoice = [i \in Keys |-> [status |-> SeedStatus[i], paid |-> 0]]
    /\ note = [n \in Notes |-> "none"]
    /\ ask = [c \in Clients |-> CHOOSE a \in Asks : TRUE]
    /\ step = [c \in Clients |-> "idle"]
    /\ copy = [c \in Clients |-> [status |-> "none", paid |-> 0]]
    /\ credited = [i \in Keys |-> 0]

CanTransitionARInvoice(from, to) ==
    \/ from = "draft" /\ to \in {"issued", "cancelled"}
    \/ from = "issued" /\ to \in {"partially_paid", "paid", "cancelled"}
    \/ from = "partially_paid" /\ to = "paid"

CanTransitionCreditNote(from, to) ==
    \/ from = "draft" /\ to = "issued"
    \/ from = "issued" /\ to = "applied"

\* What a call finds before it goes on.
Permitted(a) ==
    LET status == invoice[a.invoice].status
    IN  \/ a.op = "issue" /\ CanTransitionARInvoice(status, "issued")
        \/ a.op = "cancel" /\ CanTransitionARInvoice(status, "cancelled")
        \/ a.op = "pay" /\ status \in {"issued", "partially_paid"}
        \/ a.op = "issueNote" /\ CanTransitionCreditNote(note[a.note], "issued")
        \/ a.op = "apply" /\ CanTransitionCreditNote(note[a.note], "applied")

Exists(a) ==
    /\ invoice[a.invoice].status # "none"
    /\ a.note # NoNote => note[a.note] # "none"

CreateInvoice(i) ==
    /\ invoice[i].status = "none"
    /\ invoice' = [invoice EXCEPT ![i] = [status |-> "draft", paid |-> 0]]
    /\ UNCHANGED <<vars, note, callVars, credited>>

CreateCreditNote(n) ==
    /\ note[n] = "none"
    /\ note' = [note EXCEPT ![n] = "draft"]
    /\ UNCHANGED <<vars, invoice, callVars, credited>>

\* requireInvoice or requireCreditNote, and the check of the status.
Read(c, a) ==
    /\ step[c] = "idle" /\ Exists(a)
    /\ ask' = [ask EXCEPT ![c] = a]
    /\ copy' = [copy EXCEPT ![c] = invoice[a.invoice]]
    /\ step' = [step EXCEPT ![c] = IF Permitted(a) THEN "read" ELSE "failed"]
    /\ UNCHANGED <<vars, invoice, note, credited>>

\* The end of issueInvoice and cancelInvoice: the copy, with its new status.
SaveCopy(c) ==
    /\ step[c] = "read" /\ ask[c].op \in {"issue", "cancel"}
    /\ invoice' = [invoice EXCEPT ![ask[c].invoice] =
           [status |-> IF ask[c].op = "issue" THEN "issued" ELSE "cancelled",
            paid |-> copy[c].paid]]
    /\ step' = [step EXCEPT ![c] = "done"]
    /\ UNCHANGED <<vars, note, ask, copy, credited>>

IssueCreditNote(c) ==
    /\ step[c] = "read" /\ ask[c].op = "issueNote"
    /\ note' = [note EXCEPT ![ask[c].note] = "issued"]
    /\ step' = [step EXCEPT ![c] = "done"]
    /\ UNCHANGED <<vars, invoice, ask, copy, credited>>

\* Faulty: the credit note is marked before its amount is taken off.
QueueAndMark(c) ==
    /\ step[c] = "read" /\ ask[c].op \in {"pay", "apply"}
    /\ Arrive(c, ask[c].invoice)
    /\ note' = IF ask[c].op = "pay" THEN note ELSE [note EXCEPT ![ask[c].note] = "applied"]
    /\ step' = [step EXCEPT ![c] = "queued"]
    /\ UNCHANGED <<invoice, ask, copy, credited>>

\* applyToInvoice: runExclusive of the invoice's lock, ...
Queue(c) ==
    /\ step[c] = "read" /\ ask[c].op \in {"pay", "apply"}
    /\ Arrive(c, ask[c].invoice)
    /\ step' = [step EXCEPT ![c] = "queued"]
    /\ UNCHANGED <<invoice, note, ask, copy, credited>>

\* Faulty: the invoice read before queueing is used inside the lock.
EnterWithOldCopy(c) ==
    /\ step[c] = "queued" /\ Take(c, ask[c].invoice)
    /\ step' = [step EXCEPT ![c] = "guarded"]
    /\ UNCHANGED <<invoice, note, ask, copy, credited>>

\* ... the invoice is read again inside, ...
Enter(c) ==
    /\ step[c] = "queued"
    /\ Take(c, ask[c].invoice)
    /\ copy' = [copy EXCEPT ![c] = invoice[ask[c].invoice]]
    /\ step' = [step EXCEPT ![c] = "guarded"]
    /\ UNCHANGED <<invoice, note, ask, credited>>

Amount(c) == IF ask[c].op = "apply" THEN NoteAmount[ask[c].note] ELSE ask[c].amount

\* Faulty: any amount is accepted while something is due.
ExceedsNothing(c) == Total[ask[c].invoice] = copy[c].paid

Exceeds(c) == Amount(c) > Total[ask[c].invoice] - copy[c].paid

\* ... and an amount above its balance is refused ...
Refuse(c) ==
    /\ step[c] = "guarded" /\ Exceeds(c)
    /\ Leave(c, ask[c].invoice)
    /\ step' = [step EXCEPT ![c] = "failed"]
    /\ UNCHANGED <<invoice, note, ask, copy, credited>>

\* ... or taken off and saved.
Apply(c) ==
    /\ step[c] = "guarded" /\ ~ Exceeds(c)
    /\ Leave(c, ask[c].invoice)
    /\ LET i == ask[c].invoice
           paid == copy[c].paid + Amount(c)
       IN  /\ invoice' = [invoice EXCEPT ![i] =
                 [status |-> IF paid = Total[i] THEN "paid" ELSE "partially_paid",
                  paid |-> paid]]
           /\ credited' = [credited EXCEPT ![i] = @ + Amount(c)]
    /\ step' = [step EXCEPT ![c] = "applied"]
    /\ UNCHANGED <<note, ask, copy>>

\* The payment is recorded (by this very step), or the note marked.
Record(c) ==
    /\ step[c] = "applied"
    /\ note' = IF ask[c].op = "pay" THEN note
               ELSE [note EXCEPT ![ask[c].note] = "applied"]
    /\ step' = [step EXCEPT ![c] = "done"]
    /\ UNCHANGED <<vars, invoice, ask, copy, credited>>

Proceed(c) ==
    \/ SaveCopy(c)
    \/ IssueCreditNote(c)
    \/ Queue(c)
    \/ Enter(c)
    \/ Refuse(c)
    \/ Apply(c)
    \/ Record(c)

PaymentsNext ==
    \/ \E i \in Keys : CreateInvoice(i)
    \/ \E n \in Notes : CreateCreditNote(n)
    \/ \E c \in Clients : Proceed(c) \/ \E a \in Asks : Read(c, a)

PaymentsSpec == PaymentsInit /\ [][PaymentsNext]_paymentVars

-----------------------------------------------------------------------------

PaymentsTypeOK ==
    /\ queue \in [Keys -> Seq(Clients)]
    /\ holding \subseteq Clients /\ gone \subseteq Clients
    /\ invoice \in [Keys -> [status : Statuses, paid : Nat]]
    /\ note \in [Notes -> NoteStatuses]
    /\ ask \in [Clients -> Asks] /\ step \in [Clients -> Steps]
    /\ copy \in [Clients -> [status : Statuses, paid : Nat]]
    /\ credited \in [Keys -> Nat]

\* The invoices whose callers only pay and credit them.
Settled == {i \in Keys : \A a \in Asks : a.invoice = i => a.op \notin {"issue", "cancel"}}

\* "No code path ever produces a negative balance", whatever overlaps.
BalanceNeverNegative == \A i \in Keys : invoice[i].paid <= Total[i]

\* The lost update the mutex is there for: "the second save() silently
\* discards the first's effect".  Everything taken off a balance stays off, as
\* long as no call outside the lock saves the invoice.
NoLostPayment == \A i \in Settled : invoice[i].paid = credited[i]

\* Money taken off a balance comes back only through the stale copy of a
\* cancelInvoice or issueInvoice, never through another payment or credit.
LossOnlyByOverwrite ==
    [][\A i \in Keys : invoice'[i].paid < invoice[i].paid =>
          \E c \in Clients : ask[c].invoice = i /\ SaveCopy(c)]_paymentVars

CreditsOf(n) ==
    {c \in Clients : /\ ask[c].op = "apply" /\ ask[c].note = n
                     /\ step[c] \in {"applied", "done"}}

\* A credit note is marked applied only after its amount was taken off an
\* invoice, so that a refused application leaves it usable.
AppliedNoteCredited ==
    \A n \in Notes : note[n] = "applied" => CreditsOf(n) # {}

\* The settlement of invoices is what PaymentLedger says, one step at a time.
Ledger == INSTANCE PaymentLedger WITH
    Invoices <- Settled,
    Totals <- [i \in Settled |-> Total[i]],
    due <- [i \in Settled |-> Total[i] - invoice[i].paid]

ImplementsPaymentLedger == Ledger!Spec
=============================================================================
