--------------------------- MODULE PaymentsProofs ---------------------------
(***************************************************************************)
(* Theorems about Payments, for any invoices, credit notes, requests and   *)
(* number of overlapping calls.                                            *)
(***************************************************************************)
EXTENDS Payments, TLAPS

\* A call inside the section of its invoice is at the head of the queue.
LockInv == \A c \in Clients : step[c] = "guarded" => AtHead(c, ask[c].invoice)

\* Nothing is paid before the first payment or credit.
Unpaid(i) == i.status \in {"none", "draft", "issued"} => i.paid = 0

InvoiceInv ==
    \A i \in Keys : Unpaid(invoice[i]) /\ invoice[i].paid <= Total[i]

\* What a call has read: an invoice that exists, for issueInvoice and
\* cancelInvoice an unpaid one, and inside the section one at least as paid as
\* the stored invoice, which is the stored one if the invoice is only settled.
CopyInv ==
    \A c \in Clients : step[c] # "idle" =>
        LET i == ask[c].invoice
        IN  /\ invoice[i].status # "none"
            /\ Unpaid(copy[c]) /\ copy[c].paid <= Total[i]
            /\ (step[c] = "read" /\ ask[c].op \in {"issue", "cancel"}) => copy[c].paid = 0
            /\ step[c] \in {"queued", "guarded", "applied"} => ask[c].op \in {"pay", "apply"}
            /\ step[c] = "guarded" =>
                  /\ invoice[i].paid <= copy[c].paid
                  /\ i \in Settled => copy[c] = invoice[i]

PaymentsInv ==
    /\ PaymentsTypeOK
    /\ LockInv
    /\ InvoiceInv
    /\ CopyInv
    /\ NoLostPayment
    /\ AppliedNoteCredited

LEMMA AskFacts ==
    ASSUME PaymentsTypeOK, NEW c \in Clients
    PROVE  /\ ask[c] \in Asks /\ ask[c].invoice \in Keys /\ ask[c].op \in Operations
           /\ ask[c].op \in {"issueNote", "apply"} => ask[c].note \in Notes
           /\ Amount(c) \in Nat /\ Total[ask[c].invoice] \in Nat
           /\ copy[c].paid \in Nat /\ copy[c].status \in Statuses
           /\ ask[c].op \in {"issue", "cancel"} => ask[c].invoice \notin Settled
  BY AsksAssumption, TotalAssumption DEF PaymentsTypeOK, Request, Amount, Settled

LEMMA InitPaymentsInv == PaymentsInit => PaymentsInv
  <1> SUFFICES ASSUME PaymentsInit PROVE PaymentsInv
    OBVIOUS
  <1>1. (CHOOSE a \in Asks : TRUE) \in Asks
    BY AsksAssumption
  <1>2. PaymentsTypeOK
    BY <1>1, SeedAssumption DEF PaymentsInit, Init, PaymentsTypeOK, Statuses, NoteStatuses, Steps
  <1>3. LockInv /\ InvoiceInv /\ CopyInv
    BY TotalAssumption DEF PaymentsInit, LockInv, InvoiceInv, CopyInv, Unpaid
  <1>4. NoLostPayment /\ AppliedNoteCredited
    BY DEF PaymentsInit, NoLostPayment, AppliedNoteCredited, Settled
  <1>5. QED
    BY <1>2, <1>3, <1>4 DEF PaymentsInv

LEMMA CreateKeepsInv ==
    ASSUME PaymentsInv, NEW i \in Keys, CreateInvoice(i)
    PROVE  PaymentsInv'
  <1> USE DEF PaymentsInv, CreateInvoice, callVars, vars
  <1>1. PaymentsTypeOK'
    BY DEF PaymentsTypeOK, Statuses
  <1>2. LockInv' /\ AppliedNoteCredited'
    BY DEF LockInv, AtHead, AppliedNoteCredited, CreditsOf
  <1>3. InvoiceInv' /\ NoLostPayment'
    BY TotalAssumption DEF InvoiceInv, Unpaid, NoLostPayment, Settled, PaymentsTypeOK
  <1>4. CopyInv'
    BY AskFacts DEF CopyInv, Unpaid, PaymentsTypeOK, Settled
  <1>5. QED
    BY <1>1, <1>2, <1>3, <1>4

LEMMA CreateNoteKeepsInv ==
    ASSUME PaymentsInv, NEW n \in Notes, CreateCreditNote(n)
    PROVE  PaymentsInv'
  <1> USE DEF PaymentsInv, CreateCreditNote, callVars, vars
  <1>1. PaymentsTypeOK' /\ AppliedNoteCredited'
    BY DEF PaymentsTypeOK, NoteStatuses, AppliedNoteCredited, CreditsOf
  <1>2. LockInv' /\ InvoiceInv' /\ NoLostPayment' /\ CopyInv'
    BY DEF LockInv, AtHead, InvoiceInv, Unpaid, NoLostPayment, Settled, CopyInv
  <1>3. QED
    BY <1>1, <1>2

LEMMA ReadKeepsInv ==
    ASSUME PaymentsInv, NEW c \in Clients, NEW a \in Asks, Read(c, a)
    PROVE  PaymentsInv'
  <1> USE DEF PaymentsInv, Read, vars
  <1>1. PaymentsTypeOK'
    BY AsksAssumption DEF PaymentsTypeOK, Steps, Request
  <1>2. LockInv' /\ InvoiceInv' /\ NoLostPayment'
    BY DEF LockInv, AtHead, InvoiceInv, Unpaid, NoLostPayment, Settled, PaymentsTypeOK
  <1>3. AppliedNoteCredited'
    BY DEF AppliedNoteCredited, CreditsOf, PaymentsTypeOK
  <1>4. CopyInv'
    <2> SUFFICES ASSUME NEW d \in Clients, step'[d] # "idle" PROVE CopyInv!(d)!2'
      BY DEF CopyInv
    <2>1. CASE d = c
      <3>1. ask'[c] = a /\ a.invoice \in Keys /\ copy'[c] = invoice[a.invoice]
        BY AsksAssumption DEF PaymentsTypeOK, Request
      <3>2. step'[c] = "read" => Permitted(a)
        BY DEF PaymentsTypeOK
      <3>3. step'[c] # "guarded"
        BY DEF PaymentsTypeOK
      <3>4. a.op \in {"issue", "cancel"} /\ Permitted(a) => copy'[c].paid = 0
        BY <3>1 DEF Permitted, CanTransitionARInvoice, InvoiceInv, Unpaid
      <3>5. QED
        BY <2>1, <3>1, <3>2, <3>3, <3>4 DEF InvoiceInv, Unpaid, Exists
    <2>2. CASE d # c
      BY <2>2 DEF CopyInv, Unpaid, PaymentsTypeOK, Settled
    <2>3. QED
      BY <2>1, <2>2
  <1>5. QED
    BY <1>1, <1>2, <1>3, <1>4

LEMMA SaveCopyKeepsInv ==
    ASSUME PaymentsInv, NEW c \in Clients, SaveCopy(c)
    PROVE  PaymentsInv'
  <1> USE DEF PaymentsInv, SaveCopy, vars
  <1>1. /\ ask[c].invoice \in Keys \ Settled /\ copy[c].paid = 0
    BY AskFacts DEF CopyInv
  <1>2. PICK s \in {"issued", "cancelled"} :
            invoice' = [invoice EXCEPT ![ask[c].invoice] = [status |-> s, paid |-> copy[c].paid]]
    OBVIOUS
  <1>3. PaymentsTypeOK'
    BY <1>1, <1>2 DEF PaymentsTypeOK, Steps, Statuses
  <1>4. LockInv' /\ AppliedNoteCredited'
    BY DEF LockInv, AtHead, AppliedNoteCredited, CreditsOf, PaymentsTypeOK
  <1>5. /\ invoice' \in [Keys -> [status : Statuses, paid : Nat]]
        /\ invoice'[ask[c].invoice].paid = 0
        /\ \A i \in Keys : i # ask[c].invoice => invoice'[i] = invoice[i]
    BY <1>1, <1>2, <1>3 DEF PaymentsTypeOK
  <1>6. InvoiceInv' /\ NoLostPayment'
    BY <1>1, <1>5, TotalAssumption DEF InvoiceInv, Unpaid, NoLostPayment, Settled
  <1>7. CopyInv'
    BY <1>1, <1>2, AskFacts DEF CopyInv, Unpaid, PaymentsTypeOK, Settled
  <1>8. QED
    BY <1>3, <1>4, <1>6, <1>7

LEMMA IssueNoteKeepsInv ==
    ASSUME PaymentsInv, NEW c \in Clients, IssueCreditNote(c)
    PROVE  PaymentsInv'
  <1> USE DEF PaymentsInv, IssueCreditNote, vars
  <1>1. PaymentsTypeOK'
    BY DEF PaymentsTypeOK, Steps, NoteStatuses
  <1>2. LockInv' /\ InvoiceInv' /\ NoLostPayment' /\ CopyInv'
    BY DEF LockInv, AtHead, InvoiceInv, Unpaid, NoLostPayment, Settled, CopyInv, PaymentsTypeOK
  <1>3. AppliedNoteCredited'
    BY DEF AppliedNoteCredited, CreditsOf, PaymentsTypeOK
  <1>4. QED
    BY <1>1, <1>2, <1>3

LEMMA QueueKeepsInv ==
    ASSUME PaymentsInv, NEW c \in Clients, Queue(c)
    PROVE  PaymentsInv'
  <1> USE DEF PaymentsInv, Queue, Arrive
  <1>1. PaymentsTypeOK'
    BY AskFacts DEF PaymentsTypeOK, Steps
  <1>2. \A d \in Clients, k \in Keys : AtHead(d, k) => AtHead(d, k)'
    <2>1. ASSUME NEW q \in Seq(Clients), q # <<>>
          PROVE  Append(q, c) # <<>> /\ Head(Append(q, c)) = Head(q)
      BY <2>1
    <2>2. QED
      BY <2>1, AskFacts DEF AtHead, PaymentsTypeOK
  <1>3. LockInv'
    BY <1>2, AskFacts DEF LockInv, PaymentsTypeOK
  <1>4. InvoiceInv' /\ NoLostPayment' /\ CopyInv'
    BY DEF InvoiceInv, Unpaid, NoLostPayment, Settled, CopyInv, PaymentsTypeOK
  <1>5. AppliedNoteCredited'
    BY DEF AppliedNoteCredited, CreditsOf, PaymentsTypeOK
  <1>6. QED
    BY <1>1, <1>3, <1>4, <1>5

LEMMA EnterKeepsInv ==
    ASSUME PaymentsInv, NEW c \in Clients, Enter(c)
    PROVE  PaymentsInv'
  <1> USE DEF PaymentsInv, Enter, Take
  <1>1. ask[c].invoice \in Keys
    BY AskFacts
  <1>2. PaymentsTypeOK'
    BY <1>1 DEF PaymentsTypeOK, Steps
  <1>3. LockInv'
    BY DEF LockInv, AtHead, PaymentsTypeOK
  <1>4. InvoiceInv' /\ NoLostPayment' /\ AppliedNoteCredited'
    BY DEF InvoiceInv, Unpaid, NoLostPayment, Settled, AppliedNoteCredited, CreditsOf, PaymentsTypeOK
  <1>5. CopyInv'
    BY <1>1 DEF CopyInv, InvoiceInv, Unpaid, PaymentsTypeOK, Settled
  <1>6. QED
    BY <1>2, <1>3, <1>4, <1>5

\* Two calls in the sections of one invoice would both head its queue.
LEMMA OneInside ==
    ASSUME LockInv, NEW c \in Clients, NEW d \in Clients, step[c] = "guarded",
           step[d] = "guarded", ask[c].invoice = ask[d].invoice
    PROVE  c = d
  BY DEF LockInv, AtHead

\* The call that leaves makes room in its own queue only.
LEMMA LeaveKeepsLock ==
    ASSUME PaymentsInv, NEW c \in Clients, step[c] = "guarded", Leave(c, ask[c].invoice),
           ask' = ask, NEW s, s # "guarded", step' = [step EXCEPT ![c] = s]
    PROVE  LockInv'
  <1> SUFFICES ASSUME NEW d \in Clients, step'[d] = "guarded"
               PROVE  AtHead(d, ask[d].invoice)'
    BY DEF LockInv
  <1>1. d # c /\ step[d] = "guarded"
    BY DEF PaymentsInv, PaymentsTypeOK
  <1>2. ask[d].invoice # ask[c].invoice /\ ask[d].invoice \in Keys
    BY <1>1, OneInside, AskFacts DEF PaymentsInv
  <1>3. QED
    BY <1>1, <1>2 DEF PaymentsInv, LockInv, AtHead, Leave, PaymentsTypeOK

LEMMA RefuseKeepsInv ==
    ASSUME PaymentsInv, NEW c \in Clients, Refuse(c)
    PROVE  PaymentsInv'
  <1> USE DEF PaymentsInv, Refuse
  <1>1. PaymentsTypeOK'
    BY AskFacts DEF PaymentsTypeOK, Steps, Leave, AtHead
  <1>2. LockInv'
    BY LeaveKeepsLock
  <1>3. InvoiceInv' /\ NoLostPayment' /\ CopyInv' /\ AppliedNoteCredited'
    BY DEF InvoiceInv, Unpaid, NoLostPayment, Settled, CopyInv, AppliedNoteCredited,
           CreditsOf, PaymentsTypeOK
  <1>4. QED
    BY <1>1, <1>2, <1>3

\* What Apply stores, for the invoice it is about.
LEMMA ApplyFacts ==
    ASSUME PaymentsInv, NEW c \in Clients, Apply(c)
    PROVE  LET i == ask[c].invoice
           IN  /\ i \in Keys /\ invoice[i].paid <= invoice'[i].paid
               /\ invoice' \in [Keys -> [status : Statuses, paid : Nat]]
               /\ invoice'[i].status \in {"paid", "partially_paid"}
               /\ invoice'[i].paid = copy[c].paid + Amount(c)
               /\ invoice'[i].paid <= Total[i]
               /\ \A j \in Keys : j # i => invoice'[j] = invoice[j]
  <1>1. ask[c].invoice \in Keys /\ Amount(c) \in Nat /\ copy[c].paid \in Nat
    BY AskFacts DEF PaymentsInv
  <1>2. invoice[ask[c].invoice].paid <= copy[c].paid
    BY DEF PaymentsInv, CopyInv, Apply
  <1>3. copy[c].paid + Amount(c) <= Total[ask[c].invoice]
    BY <1>1, TotalAssumption DEF Apply, Exceeds
  <1>4. QED
    BY <1>1, <1>2, <1>3 DEF Apply, PaymentsInv, PaymentsTypeOK, Statuses

LEMMA ApplyKeepsInv ==
    ASSUME PaymentsInv, NEW c \in Clients, Apply(c)
    PROVE  PaymentsInv'
  <1> DEFINE i == ask[c].invoice
  <1>1. /\ i \in Keys
        /\ i \in Settled => copy[c] = invoice[i]
        /\ Amount(c) \in Nat /\ copy[c].paid \in Nat
    BY AskFacts DEF PaymentsInv, CopyInv, Apply
  <1>2. /\ credited' = [credited EXCEPT ![i] = @ + Amount(c)]
        /\ step' = [step EXCEPT ![c] = "applied"] /\ step[c] = "guarded"
        /\ ask' = ask /\ copy' = copy /\ note' = note
        /\ Leave(c, i)
    BY DEF Apply
  <1>3. PaymentsTypeOK'
    <2>1. queue' \in [Keys -> Seq(Clients)] /\ holding' \subseteq Clients /\ gone' \subseteq Clients
      BY <1>1, <1>2 DEF PaymentsInv, PaymentsTypeOK, Leave, AtHead
    <2>2. credited' \in [Keys -> Nat] /\ step' \in [Clients -> Steps]
      BY <1>1, <1>2 DEF PaymentsInv, PaymentsTypeOK, Steps
    <2>3. QED
      BY <2>1, <2>2, <1>2, ApplyFacts DEF PaymentsInv, PaymentsTypeOK
  <1>4. LockInv'
    BY <1>2, LeaveKeepsLock
  <1>5. InvoiceInv'
    BY ApplyFacts DEF PaymentsInv, InvoiceInv, Unpaid
  <1>6. NoLostPayment'
    <2> SUFFICES ASSUME NEW j \in Settled PROVE invoice'[j].paid = credited'[j]
      BY DEF NoLostPayment, Settled
    <2>1. CASE j = i
      BY <2>1, <1>1, <1>2, ApplyFacts DEF PaymentsInv, NoLostPayment, PaymentsTypeOK
    <2>2. CASE j # i
      BY <2>2, <1>2, ApplyFacts DEF PaymentsInv, NoLostPayment, PaymentsTypeOK, Settled
    <2>3. QED
      BY <2>1, <2>2
  <1>7. CopyInv'
    <2> SUFFICES ASSUME NEW d \in Clients, step'[d] # "idle" PROVE CopyInv!(d)!2'
      BY DEF CopyInv
    <2>1. step[d] # "idle" /\ (step'[d] = "guarded" => d # c /\ step[d] = "guarded")
          /\ (step'[d] = "read" => step[d] = "read")
      BY <1>2 DEF PaymentsInv, PaymentsTypeOK
    <2>2. step'[d] = "guarded" => ask[d].invoice # i
      BY <2>1, <1>2, OneInside DEF PaymentsInv
    <2>3. ask[d].invoice \in Keys
      BY AskFacts DEF PaymentsInv
    <2>4. CASE ask[d].invoice = i
      BY <2>1, <2>2, <2>4, <1>2, ApplyFacts DEF PaymentsInv, CopyInv
    <2>5. CASE ask[d].invoice # i
      <3>1. invoice'[ask[d].invoice] = invoice[ask[d].invoice]
        BY <2>3, <2>5, ApplyFacts
      <3>2. QED
        BY <3>1, <2>1, <2>3, <1>2 DEF PaymentsInv, CopyInv, Settled
    <2>6. QED
      BY <2>4, <2>5
  <1>8. AppliedNoteCredited'
    BY <1>2 DEF PaymentsInv, AppliedNoteCredited, CreditsOf, PaymentsTypeOK
  <1>9. QED
    BY <1>3, <1>4, <1>5, <1>6, <1>7, <1>8 DEF PaymentsInv

LEMMA RecordKeepsInv ==
    ASSUME PaymentsInv, NEW c \in Clients, Record(c)
    PROVE  PaymentsInv'
  <1> USE DEF PaymentsInv, Record, vars
  <1>1. PaymentsTypeOK'
    BY DEF PaymentsTypeOK, Steps, NoteStatuses
  <1>2. LockInv' /\ InvoiceInv' /\ NoLostPayment' /\ CopyInv'
    BY DEF LockInv, AtHead, InvoiceInv, Unpaid, NoLostPayment, Settled, CopyInv, PaymentsTypeOK
  <1>3. \A n \in Notes : CreditsOf(n) \subseteq CreditsOf(n)'
    BY DEF CreditsOf, PaymentsTypeOK
  <1>4. ask[c].op # "pay" => c \in CreditsOf(ask[c].note)'
    <2>1. ask[c].op # "pay" => ask[c].op = "apply"
      BY DEF CopyInv
    <2>2. QED
      BY <2>1 DEF CreditsOf, PaymentsTypeOK
  <1>5. AppliedNoteCredited'
    BY <1>3, <1>4 DEF AppliedNoteCredited, PaymentsTypeOK
  <1>6. QED
    BY <1>1, <1>2, <1>5

LEMMA PaymentStepKeepsInv == PaymentsInv /\ [PaymentsNext]_paymentVars => PaymentsInv'
  <1> SUFFICES ASSUME PaymentsInv, [PaymentsNext]_paymentVars PROVE PaymentsInv'
    OBVIOUS
  <1>1. ASSUME NEW i \in Keys, CreateInvoice(i) PROVE PaymentsInv'
    BY <1>1, CreateKeepsInv
  <1>2. ASSUME NEW n \in Notes, CreateCreditNote(n) PROVE PaymentsInv'
    BY <1>2, CreateNoteKeepsInv
  <1>3. ASSUME NEW c \in Clients, NEW a \in Asks, Read(c, a) PROVE PaymentsInv'
    BY <1>3, ReadKeepsInv
  <1>4. ASSUME NEW c \in Clients, Proceed(c) PROVE PaymentsInv'
    BY <1>4, SaveCopyKeepsInv, IssueNoteKeepsInv, QueueKeepsInv, EnterKeepsInv,
       RefuseKeepsInv, ApplyKeepsInv, RecordKeepsInv DEF Proceed
  <1>5. CASE UNCHANGED paymentVars
    BY <1>5 DEF paymentVars, callVars, vars, PaymentsInv, PaymentsTypeOK, LockInv, AtHead,
                InvoiceInv, Unpaid, CopyInv, Settled, NoLostPayment, AppliedNoteCredited, CreditsOf
  <1>6. QED
    BY <1>1, <1>2, <1>3, <1>4, <1>5 DEF PaymentsNext

\* Every reachable state of the payments satisfies the inductive invariant.
THEOREM PaymentsInvariant == PaymentsSpec => []PaymentsInv
  BY InitPaymentsInv, PaymentStepKeepsInv, PTL DEF PaymentsSpec

\* The invoices, credit notes and calls are always well typed.
THEOREM PaymentTypes == PaymentsSpec => []PaymentsTypeOK
  <1>1. PaymentsInv => PaymentsTypeOK
    BY DEF PaymentsInv
  <1>2. QED
    BY <1>1, PaymentsInvariant, PTL

\* applyToInvoice never takes more off an invoice than is due, however many
\* payments, credits, issues and cancellations overlap.
THEOREM NoNegativeBalance == PaymentsSpec => []BalanceNeverNegative
  <1>1. PaymentsInv => BalanceNeverNegative
    BY DEF PaymentsInv, InvoiceInv, BalanceNeverNegative
  <1>2. QED
    BY <1>1, PaymentsInvariant, PTL

\* No payment or credit of an invoice that is only settled is ever lost.
THEOREM PaymentsAreKept == PaymentsSpec => []NoLostPayment
  <1>1. PaymentsInv => NoLostPayment
    BY DEF PaymentsInv
  <1>2. QED
    BY <1>1, PaymentsInvariant, PTL

\* applyCreditNoteToInvoice marks a credit note applied only after its amount
\* was taken off an invoice.
THEOREM NotesAreCredited == PaymentsSpec => []AppliedNoteCredited
  <1>1. PaymentsInv => AppliedNoteCredited
    BY DEF PaymentsInv
  <1>2. QED
    BY <1>1, PaymentsInvariant, PTL

\* What each step does to what is paid: only SaveCopy lowers it.
LEMMA PaidGrows ==
    ASSUME PaymentsInv, [PaymentsNext]_paymentVars, NEW i \in Keys,
           invoice'[i].paid < invoice[i].paid
    PROVE  \E c \in Clients : ask[c].invoice = i /\ SaveCopy(c)
  <1>1. invoice[i].paid \in Nat
    BY DEF PaymentsInv, PaymentsTypeOK
  <1>2. CASE invoice' = invoice
    BY <1>1, <1>2
  <1>3. ASSUME NEW j \in Keys, CreateInvoice(j) PROVE FALSE
    BY <1>1, <1>3 DEF CreateInvoice, PaymentsInv, PaymentsTypeOK, InvoiceInv, Unpaid
  <1>4. ASSUME NEW c \in Clients, Apply(c) PROVE FALSE
    BY <1>1, <1>4, ApplyFacts, invoice'[i].paid \in Nat
  <1>5. ASSUME NEW c \in Clients, SaveCopy(c) PROVE ask[c].invoice = i
    BY <1>1, <1>5 DEF SaveCopy, PaymentsInv, PaymentsTypeOK
  <1>6. ASSUME NEW c \in Clients, Proceed(c), ~ SaveCopy(c), ~ Apply(c) PROVE invoice' = invoice
    BY <1>6 DEF Proceed, IssueCreditNote, Queue, Enter, Refuse, Record
  <1>7. ASSUME NEW c \in Clients, NEW a \in Asks, Read(c, a) PROVE invoice' = invoice
    BY <1>7 DEF Read
  <1>8. ASSUME NEW n \in Notes, CreateCreditNote(n) PROVE invoice' = invoice
    BY <1>8 DEF CreateCreditNote
  <1>9. CASE UNCHANGED paymentVars
    BY <1>2, <1>9 DEF paymentVars
  <1>10. QED
    BY <1>2, <1>3, <1>4, <1>5, <1>6, <1>7, <1>8, <1>9 DEF PaymentsNext

\* Money taken off a balance comes back only through a stale copy that
\* issueInvoice or cancelInvoice saves.
THEOREM LossNeedsOverwrite == PaymentsSpec => LossOnlyByOverwrite
  <1>1. PaymentsInv /\ [PaymentsNext]_paymentVars =>
            [\A i \in Keys : invoice'[i].paid < invoice[i].paid =>
                 \E c \in Clients : ask[c].invoice = i /\ SaveCopy(c)]_paymentVars
    BY PaidGrows
  <1>2. QED
    BY <1>1, PaymentsInvariant, PTL DEF PaymentsSpec, LossOnlyByOverwrite

\* Only an application changes what is paid of an invoice that is only settled.
LEMMA OnlyApplySettles ==
    ASSUME PaymentsInv, [PaymentsNext]_paymentVars, NEW i \in Settled,
           invoice'[i].paid # invoice[i].paid
    PROVE  \E c \in Clients : ask[c].invoice = i /\ Apply(c)
  <1>1. ASSUME NEW c \in Clients, SaveCopy(c) PROVE invoice'[i] = invoice[i]
    BY <1>1, AskFacts DEF SaveCopy, PaymentsInv, PaymentsTypeOK, Settled
  <1>2. ASSUME NEW j \in Keys, CreateInvoice(j) PROVE invoice'[i].paid = invoice[i].paid
    BY <1>2 DEF CreateInvoice, PaymentsInv, PaymentsTypeOK, InvoiceInv, Unpaid, Settled
  <1>3. ASSUME NEW c \in Clients, Apply(c) PROVE ask[c].invoice = i
    BY <1>3, ApplyFacts DEF Settled
  <1>4. ASSUME NEW c \in Clients, Proceed(c), ~ SaveCopy(c), ~ Apply(c) PROVE invoice' = invoice
    BY <1>4 DEF Proceed, IssueCreditNote, Queue, Enter, Refuse, Record
  <1>5. ASSUME NEW c \in Clients, NEW a \in Asks, Read(c, a) PROVE invoice' = invoice
    BY <1>5 DEF Read
  <1>6. ASSUME NEW n \in Notes, CreateCreditNote(n) PROVE invoice' = invoice
    BY <1>6 DEF CreateCreditNote
  <1>7. CASE UNCHANGED paymentVars
    BY <1>7 DEF paymentVars
  <1>8. QED
    BY <1>1, <1>2, <1>3, <1>4, <1>5, <1>6, <1>7 DEF PaymentsNext

LEMMA PaymentStepRefines ==
    ASSUME PaymentsInv, PaymentsInv', [PaymentsNext]_paymentVars
    PROVE  [Ledger!Next]_[i \in Settled |-> Total[i] - invoice[i].paid]
  <1> DEFINE due == [i \in Settled |-> Total[i] - invoice[i].paid]
  <1>1. \A i \in Settled : i \in Keys /\ Total[i] \in Nat /\ invoice[i].paid \in Nat
                           /\ invoice'[i].paid \in Nat /\ invoice'[i].paid <= Total[i]
    BY TotalAssumption DEF Settled, PaymentsInv, PaymentsTypeOK, InvoiceInv
  <1>2. CASE \A i \in Settled : invoice'[i].paid = invoice[i].paid
    BY <1>2 DEF Settled
  <1>3. CASE \E i \in Settled : invoice'[i].paid # invoice[i].paid
    <2>1. PICK i \in Settled : invoice'[i].paid # invoice[i].paid
      BY <1>3
    <2>2. PICK c \in Clients : ask[c].invoice = i /\ Apply(c)
      BY <2>1, OnlyApplySettles
    <2>3. /\ invoice[i].paid <= invoice'[i].paid
          /\ \A j \in Settled : j # i => invoice'[j] = invoice[j]
      BY <2>2, ApplyFacts DEF Settled
    <2>4. Total[i] - invoice'[i].paid \in 0..(Total[i] - invoice[i].paid)
      BY <1>1, <2>3
    <2>5. due' = [due EXCEPT ![i] = Total[i] - invoice'[i].paid]
      BY <2>3 DEF Settled
    <2>6. Ledger!Settle(i)
      BY <2>4, <2>5 DEF Ledger!Settle
    <2>7. QED
      BY <2>6 DEF Ledger!Next
  <1>4. QED
    BY <1>2, <1>3

\* Every behaviour of the payments is, for the invoices that are only settled,
\* one of the ledger: each payment or credit takes effect once and at once.
THEOREM PaymentsImplementLedger == PaymentsSpec => ImplementsPaymentLedger
  <1>1. PaymentsInit => Ledger!Init
    BY TotalAssumption DEF PaymentsInit, Ledger!Init, Settled
  <1>2. QED
    BY <1>1, PaymentsInvariant, PaymentStepRefines, PTL
       DEF PaymentsSpec, ImplementsPaymentLedger, Ledger!Spec
=============================================================================
