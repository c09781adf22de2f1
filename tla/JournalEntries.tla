--------------------------- MODULE JournalEntries ---------------------------
(***************************************************************************)
(* createGeneralLedgerEngine of packages/finance-engine: journal entries   *)
(* are created, posted, reversed and generated from recurring templates.   *)
(* Each call reads an entry or a template, and saves one or two records    *)
(* after awaits, with no lock; a repository that refuses a save ends the   *)
(* call there.  An entry's lines are its net debits on two accounts.       *)
(***************************************************************************)
EXTENDS Integers, FiniteSets

CONSTANTS
    Calls,         \* the calls of the engine, each made once
    Templates,     \* the recurring templates that exist
    TemplateLines, \* per template: its lines
    StartDate,     \* per template: startDate
    EndDate,       \* per template: endDate
    Interval,      \* per template: what computeNextOccurrence adds to a date
    InputLines,    \* the lines callers create entries with
    Dates,         \* the dates callers generate for
    None

Lines == [cash : Int, other : Int]

ASSUME LedgerAssumption ==
    /\ InputLines \subseteq Lines /\ TemplateLines \in [Templates -> Lines]
    /\ Dates \subseteq Nat
    /\ StartDate \in [Templates -> Nat] /\ EndDate \in [Templates -> Nat]
    /\ Interval \in [Templates -> Nat \ {0}]
    /\ None \notin Calls \cup Templates \cup Nat

VARIABLES
    entry,         \* the repository: per call, the entry it has created
    lastGenerated, \* per template: lastGeneratedDate, or None
    ask,           \* per call: its method and arguments
    step,          \* per call: how far it is
    seen,          \* per call: the entry it read
    disturbed      \* history: calls have overlapped, or a save was refused

callVars == <<ask, step, seen>>
ledgerVars == <<entry, lastGenerated, callVars, disturbed>>

Entry == [status : {"none", "draft", "posted", "reversed"}, lines : Lines, date : Dates \cup {None},
          template : Templates \cup {None}, of : Calls \cup {None}, by : Calls \cup {None}]
NewEntry(status, lines, date, template, of) ==
    [status |-> status, lines |-> lines, date |-> date, template |-> template,
     of |-> of, by |-> None]
NoEntry == NewEntry("none", [cash |-> 0, other |-> 0], None, None, None)
Ask == [op : {"create", "post", "reverse", "generate"}, entry : Calls \cup {None},
        template : Templates \cup {None}, date : Dates \cup {None}]
Steps == {"idle", "read", "saved", "done", "failed"}

LedgerInit ==
    /\ entry = [e \in Calls |-> NoEntry]
    /\ lastGenerated = [t \in Templates |-> None]
    /\ ask = [c \in Calls |-> [op |-> "create", entry |-> None, template |-> None, date |-> None]]
    /\ step = [c \in Calls |-> "idle"]
    /\ seen = [c \in Calls |-> NoEntry]
    /\ disturbed = FALSE

IsBalanced(lines) == lines.cash + lines.other = 0

Swapped(lines) == [cash |-> -lines.cash, other |-> -lines.other]

\* Faulty: whatever is not a draft may be reversed.
CanTransitionUnlessDraft(from, to) ==
    \/ from = "draft" /\ to = "posted"
    \/ from # "draft" /\ to = "reversed"

CanTransitionJournalEntry(from, to) ==
    \/ from = "draft" /\ to = "posted"
    \/ from = "posted" /\ to = "reversed"

NextDue(t, last) == IF last = None THEN StartDate[t] ELSE last + Interval[t]

\* Faulty: due as soon as the last date is reached again.
IsDueAgain(t, last, date) ==
    date <= EndDate[t] /\ date >= IF last = None THEN StartDate[t] ELSE last

IsDue(t, last, date) == date <= EndDate[t] /\ date >= NextDue(t, last)

InProgress == {c \in Calls : step[c] \in {"read", "saved"}}

\* createJournalEntry checks the lines and saves a draft, without reading.
CreateJournalEntry(c, lines) ==
    /\ step[c] = "idle" /\ IsBalanced(lines)
    /\ entry' = [entry EXCEPT ![c] = NewEntry("draft", lines, None, None, None)]
    /\ step' = [step EXCEPT ![c] = "done"]
    /\ UNCHANGED <<lastGenerated, ask, seen, disturbed>>

\* requireEntry or requireTemplate, and the checks of what was read.
Read(c, a, permitted, e) ==
    /\ step[c] = "idle"
    /\ ask' = [ask EXCEPT ![c] = a]
    /\ seen' = [seen EXCEPT ![c] = e]
    /\ step' = [step EXCEPT ![c] = IF permitted THEN "read" ELSE "failed"]
    /\ disturbed' = (disturbed \/ InProgress # {})
    /\ UNCHANGED <<entry, lastGenerated>>

ReadEntry(c, op, e) ==
    /\ entry[e].status # "none"
    /\ Read(c, [op |-> op, entry |-> e, template |-> None, date |-> None],
            CanTransitionJournalEntry(entry[e].status, IF op = "post" THEN "posted" ELSE "reversed"),
            entry[e])

ReadTemplate(c, t, date) ==
    Read(c, [op |-> "generate", entry |-> None, template |-> t, date |-> date],
         IsDue(t, lastGenerated[t], date), NoEntry)

\* What a call read, with its changes.
Changed(c, status, by) ==
    [status |-> status, lines |-> seen[c].lines, date |-> seen[c].date,
     template |-> seen[c].template, of |-> seen[c].of, by |-> by]

\* A record is saved, and the call goes on or returns.
SaveEntry(c, e, saved, s) ==
    /\ entry' = [entry EXCEPT ![e] = saved]
    /\ step' = [step EXCEPT ![c] = s]
    /\ UNCHANGED <<lastGenerated, ask, seen, disturbed>>

SavePosted(c) ==
    /\ step[c] = "read" /\ ask[c].op = "post"
    /\ SaveEntry(c, ask[c].entry, Changed(c, "posted", seen[c].by), "done")

\* Faulty: the original is marked first.
SaveReversedFirst(c) ==
    /\ step[c] = "read" /\ ask[c].op = "reverse"
    /\ SaveEntry(c, ask[c].entry, Changed(c, "reversed", c), "saved")

\* reverseJournalEntry saves the reversing entry, already posted, ...
SaveReversing(c) ==
    /\ step[c] = "read" /\ ask[c].op = "reverse"
    /\ SaveEntry(c, c, NewEntry("posted", Swapped(seen[c].lines), None, None, ask[c].entry), "saved")

\* ... and then the original it read, marked and linked.
SaveReversed(c) ==
    /\ step[c] = "saved" /\ ask[c].op = "reverse"
    /\ SaveEntry(c, ask[c].entry, Changed(c, "reversed", c), "done")

\* generateFromTemplate saves the draft, whose lines nothing checks, ...
SaveGenerated(c) ==
    /\ step[c] = "read" /\ ask[c].op = "generate"
    /\ LET t == ask[c].template
       IN  SaveEntry(c, c, NewEntry("draft", TemplateLines[t], ask[c].date, t, None), "saved")

\* ... and then the template.
SaveTemplate(c) ==
    /\ step[c] = "saved" /\ ask[c].op = "generate"
    /\ lastGenerated' = [lastGenerated EXCEPT ![ask[c].template] = ask[c].date]
    /\ step' = [step EXCEPT ![c] = "done"]
    /\ UNCHANGED <<entry, ask, seen, disturbed>>

\* Faulty: a reversal that is refused half way restores the original it read.
SaveRefusedRestores(c) ==
    /\ step[c] \in {"read", "saved"}
    /\ entry' = IF ask[c].op = "reverse" THEN [entry EXCEPT ![ask[c].entry] = seen[c]] ELSE entry
    /\ step' = [step EXCEPT ![c] = "failed"]
    /\ disturbed' = TRUE
    /\ UNCHANGED <<lastGenerated, ask, seen>>

\* The repository refuses the next save.
SaveRefused(c) ==
    /\ step[c] \in {"read", "saved"}
    /\ step' = [step EXCEPT ![c] = "failed"]
    /\ disturbed' = TRUE
    /\ UNCHANGED <<entry, lastGenerated, ask, seen>>

LedgerNext ==
    \E c \in Calls :
        \/ \E lines \in InputLines : CreateJournalEntry(c, lines)
        \/ \E op \in {"post", "reverse"}, e \in Calls : ReadEntry(c, op, e)
        \/ \E t \in Templates, date \in Dates : ReadTemplate(c, t, date)
        \/ SavePosted(c) \/ SaveReversing(c) \/ SaveReversed(c)
        \/ SaveGenerated(c) \/ SaveTemplate(c) \/ SaveRefused(c)

LedgerSpec == LedgerInit /\ [][LedgerNext]_ledgerVars

-----------------------------------------------------------------------------

LedgerTypeOK ==
    /\ entry \in [Calls -> Entry]
    /\ lastGenerated \in [Templates -> Dates \cup {None}]
    /\ ask \in [Calls -> Ask] /\ step \in [Calls -> Steps]
    /\ seen \in [Calls -> Entry] /\ disturbed \in BOOLEAN

\* A reversed entry always has the reversing entry it is linked to, with every
\* line's debit and credit swapped, whatever overlaps and whichever save fails.
ReversedHasReversal ==
    \A e \in Calls : entry[e].status = "reversed" =>
        LET r == entry[e].by
        IN  /\ r # None /\ entry[r].of = e
            /\ entry[r].status # "draft" /\ entry[r].lines = Swapped(entry[e].lines)

ReversalsOf(e) == {r \in Calls : entry[r].of = e}

\* "Rejects reversing an already-reversed entry": one reversal at most, as
\* long as calls do not overlap and no save is refused.
ReversedOnce ==
    ~ disturbed => \A e \in Calls : Cardinality(ReversalsOf(e)) <= 1

\* "Rejects any transition out of reversed": only a post that read the entry
\* as a draft, before all that happened to it, can undo a reversal.
ReopenedOnlyByStalePost ==
    [][\A e \in Calls : entry[e].status = "reversed" /\ entry'[e].status # "reversed" =>
          \E c \in Calls : SavePosted(c) /\ ask[c].entry = e]_ledgerVars

\* "Never generates more than one occurrence": two entries of one template are
\* at least its interval apart, as long as calls do not overlap and no save is
\* refused.
GeneratedApart ==
    ~ disturbed => \A d, e \in Calls :
        d # e /\ entry[d].template # None /\ entry[d].template = entry[e].template =>
            LET gap == entry[d].date - entry[e].date
            IN  (IF gap < 0 THEN -gap ELSE gap) >= Interval[entry[d].template]

\* "There is no code path to a stored, unbalanced entry".
EntriesBalance == \A e \in Calls : IsBalanced(entry[e].lines)

\* As long as the templates balance, so does every entry.
UnbalancedFromTemplate ==
    (\A t \in Templates : IsBalanced(TemplateLines[t])) => EntriesBalance
=============================================================================
