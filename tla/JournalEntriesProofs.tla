------------------------ MODULE JournalEntriesProofs ------------------------
(***************************************************************************)
(* Theorems about JournalEntries, for any number of overlapping calls, any *)
(* templates, dates and lines.                                             *)
(***************************************************************************)
EXTENDS JournalEntries, FiniteSetTheorems, TLAPS

\* What no save of an existing entry changes.
SameFields(x, y) ==
    x.lines = y.lines /\ x.date = y.date /\ x.template = y.template /\ x.of = y.of

\* A call has created nothing before its first save.
FreshInv ==
    \A c \in Calls : step[c] \in {"idle", "read"} \/ entry[c].status = "none" => entry[c] = NoEntry

\* What a call in progress is about, and has read.
SeenInv ==
    \A c \in Calls : step[c] \in {"read", "saved"} =>
        /\ ask[c].op # "create"
        /\ ask[c].op = "generate" => ask[c].template \in Templates /\ ask[c].date \in Dates
        /\ ask[c].op \in {"post", "reverse"} =>
              /\ ask[c].entry \in Calls \ {c} /\ entry[ask[c].entry].status # "none"
              /\ SameFields(entry[ask[c].entry], seen[c])
              /\ seen[c].status = IF ask[c].op = "post" THEN "draft" ELSE "posted"

\* The entry of a reversal that still has to mark the original.
SavedInv ==
    \A c \in Calls : step[c] = "saved" /\ ask[c].op = "reverse" =>
        /\ entry[c].status \notin {"none", "draft"}
        /\ entry[c].of = ask[c].entry /\ entry[c].lines = Swapped(seen[c].lines)

LedgerInv ==
    /\ LedgerTypeOK
    /\ FreshInv
    /\ SeenInv
    /\ SavedInv
    /\ ReversedHasReversal
    /\ UnbalancedFromTemplate

LEMMA NoEntryFacts ==
    /\ NoEntry \in Entry /\ NoEntry.status = "none" /\ NoEntry.lines = [cash |-> 0, other |-> 0]
    /\ NoEntry.of = None /\ NoEntry.template = None
  BY DEF NoEntry, NewEntry, Entry, Lines

LEMMA InitLedgerInv == LedgerInit => LedgerInv
  <1> SUFFICES ASSUME LedgerInit PROVE LedgerInv
    OBVIOUS
  <1>1. LedgerTypeOK
    BY NoEntryFacts DEF LedgerInit, LedgerTypeOK, Ask, Steps
  <1>2. FreshInv /\ SeenInv /\ SavedInv /\ ReversedHasReversal /\ UnbalancedFromTemplate
    BY NoEntryFacts DEF LedgerInit, FreshInv, SeenInv, SavedInv, ReversedHasReversal,
                        UnbalancedFromTemplate, EntriesBalance, IsBalanced
  <1>3. QED
    BY <1>1, <1>2 DEF LedgerInv

\* Every step keeps what exists: its fields, and that it was posted.
EntriesKept ==
    \A e \in Calls : entry[e].status # "none" =>
        /\ entry'[e].status # "none" /\ SameFields(entry'[e], entry[e])
        /\ entry[e].status # "draft" => entry'[e].status # "draft"

\* The other calls do not notice such a step.
LEMMA OthersKeepInv ==
    ASSUME LedgerInv, EntriesKept, NEW c \in Calls,
           \A d \in Calls \ {c} : /\ step'[d] = step[d] /\ ask'[d] = ask[d] /\ seen'[d] = seen[d]
                                  /\ entry[d].status = "none" => entry'[d] = entry[d],
           FreshInv!(c)', SeenInv!(c)', SavedInv!(c)'
    PROVE  FreshInv' /\ SeenInv' /\ SavedInv'
  <1>1. ASSUME NEW d \in Calls \ {c} PROVE FreshInv!(d)' /\ SeenInv!(d)' /\ SavedInv!(d)'
    <2>1. /\ step'[d] = step[d] /\ ask'[d] = ask[d] /\ seen'[d] = seen[d]
          /\ entry[d].status = "none" => entry'[d] = entry[d]
      BY <1>1
    <2>2. FreshInv!(d)'
      BY <1>1, <2>1, NoEntryFacts DEF LedgerInv, FreshInv, EntriesKept
    <2>3. SeenInv!(d)'
      BY <1>1, <2>1 DEF LedgerInv, SeenInv, EntriesKept, SameFields
    <2>4. SavedInv!(d)'
      BY <1>1, <2>1 DEF LedgerInv, SavedInv, EntriesKept, SameFields
    <2>5. QED
      BY <2>2, <2>3, <2>4
  <1>2. QED
    BY <1>1 DEF FreshInv, SeenInv, SavedInv

\* A call creates its entry.
LEMMA EntryCreated ==
    ASSUME LedgerInv, NEW c \in Calls, entry[c] = NoEntry, NEW x \in Entry,
           x.status \in {"draft", "posted"}, entry' = [entry EXCEPT ![c] = x],
           (\A t \in Templates : IsBalanced(TemplateLines[t])) => IsBalanced(x.lines)
    PROVE  /\ EntriesKept /\ entry' \in [Calls -> Entry]
           /\ ReversedHasReversal' /\ UnbalancedFromTemplate'
  <1>1. entry \in [Calls -> Entry] /\ None \notin Calls
    BY LedgerAssumption DEF LedgerInv, LedgerTypeOK
  <1>2. EntriesKept /\ entry' \in [Calls -> Entry]
    BY <1>1, NoEntryFacts DEF EntriesKept, SameFields
  <1>3. ReversedHasReversal'
    <2> SUFFICES ASSUME NEW e \in Calls, entry'[e].status = "reversed"
                 PROVE  ReversedHasReversal!(e)!2'
      BY DEF ReversedHasReversal
    <2>1. entry[e].status = "reversed" /\ entry'[e] = entry[e]
      BY <1>1
    <2>2. entry[e].by \in Calls /\ entry[entry[e].by].of = e /\ entry[e].by # c
      BY <2>1, <1>1, NoEntryFacts DEF LedgerInv, ReversedHasReversal, Entry
    <2>3. QED
      BY <2>1, <2>2, <1>1 DEF LedgerInv, ReversedHasReversal
  <1>4. UnbalancedFromTemplate'
    BY <1>1 DEF LedgerInv, UnbalancedFromTemplate, EntriesBalance
  <1>5. QED
    BY <1>2, <1>3, <1>4

\* A call saves the entry it read, with its changes.
LEMMA EntrySaved ==
    ASSUME LedgerInv, NEW c \in Calls, NEW e \in Calls, ask[c].op \in {"post", "reverse"},
           step[c] \in {"read", "saved"}, e = ask[c].entry,
           NEW status \in {"posted", "reversed"}, NEW by \in Calls \cup {None},
           entry' = [entry EXCEPT ![e] = Changed(c, status, by)],
           status = "reversed" => /\ by \in Calls /\ entry[by].of = e /\ by # e
                                  /\ entry[by].status # "draft"
                                  /\ entry[by].lines = Swapped(seen[c].lines)
    PROVE  /\ EntriesKept /\ entry' \in [Calls -> Entry]
           /\ ReversedHasReversal' /\ UnbalancedFromTemplate'
  <1>1. /\ entry \in [Calls -> Entry] /\ None \notin Calls /\ seen[c] \in Entry
        /\ entry[e].status # "none" /\ SameFields(entry[e], seen[c])
    BY LedgerAssumption DEF LedgerInv, LedgerTypeOK, SeenInv
  <1>2. Changed(c, status, by) \in Entry
    BY <1>1 DEF Changed, Entry
  <1>3. /\ entry'[e].status = status /\ entry'[e].by = by /\ SameFields(entry'[e], entry[e])
        /\ \A d \in Calls : d # e => entry'[d] = entry[d]
    BY <1>1 DEF Changed, SameFields
  <1>4. EntriesKept /\ entry' \in [Calls -> Entry]
    BY <1>1, <1>2, <1>3 DEF EntriesKept, SameFields
  <1>5. \A d \in Calls : entry'[d].of = entry[d].of /\ entry'[d].lines = entry[d].lines
    BY <1>3 DEF SameFields
  <1>6. ReversedHasReversal'
    <2> SUFFICES ASSUME NEW d \in Calls, entry'[d].status = "reversed"
                 PROVE  ReversedHasReversal!(d)!2'
      BY DEF ReversedHasReversal
    <2>1. CASE d = e
      BY <2>1, <1>1, <1>3, <1>5 DEF SameFields
    <2>2. CASE d # e
      <3>1. entry[d].status = "reversed" /\ entry'[d] = entry[d] /\ entry[d].by \in Calls
        BY <2>2, <1>1, <1>3 DEF LedgerInv, ReversedHasReversal, Entry
      <3>2. entry'[entry[d].by].status # "draft"
        BY <3>1, <1>3 DEF LedgerInv, ReversedHasReversal
      <3>3. QED
        BY <3>1, <3>2, <1>1, <1>5 DEF LedgerInv, ReversedHasReversal
    <2>3. QED
      BY <2>1, <2>2
  <1>7. UnbalancedFromTemplate'
    BY <1>5 DEF LedgerInv, UnbalancedFromTemplate, EntriesBalance
  <1>8. QED
    BY <1>4, <1>6, <1>7

LEMMA CreateKeepsInv ==
    ASSUME LedgerInv, NEW c \in Calls, NEW lines \in InputLines, CreateJournalEntry(c, lines)
    PROVE  LedgerInv'
  <1> DEFINE x == NewEntry("draft", lines, None, None, None)
  <1>1. x \in Entry /\ x.status = "draft" /\ x.lines = lines
    BY LedgerAssumption DEF Entry, NewEntry
  <1>2. /\ step[c] = "idle" /\ IsBalanced(lines) /\ entry' = [entry EXCEPT ![c] = x]
        /\ step' = [step EXCEPT ![c] = "done"]
        /\ UNCHANGED <<lastGenerated, ask, seen, disturbed>>
    BY DEF CreateJournalEntry
  <1> HIDE DEF x
  <1>3. entry[c] = NoEntry
    BY <1>2 DEF LedgerInv, FreshInv
  <1>4. EntriesKept /\ entry' \in [Calls -> Entry] /\ ReversedHasReversal' /\ UnbalancedFromTemplate'
    BY <1>1, <1>2, <1>3, EntryCreated
  <1>5. LedgerTypeOK'
    BY <1>2, <1>4 DEF LedgerInv, LedgerTypeOK, Steps
  <1>6. FreshInv' /\ SeenInv' /\ SavedInv'
    <2>1. entry'[c].status = "draft" /\ step'[c] = "done"
      BY <1>1, <1>2 DEF LedgerInv, LedgerTypeOK
    <2>2. \A d \in Calls \ {c} : step'[d] = step[d] /\ entry'[d] = entry[d]
      BY <1>2 DEF LedgerInv, LedgerTypeOK
    <2>3. QED
      BY <1>2, <1>4, <2>1, <2>2, OthersKeepInv
  <1>7. QED
    BY <1>4, <1>5, <1>6 DEF LedgerInv

LEMMA ReadKeepsInv ==
    ASSUME LedgerInv, NEW c \in Calls,
           \/ \E op \in {"post", "reverse"}, e \in Calls : ReadEntry(c, op, e)
           \/ \E t \in Templates, date \in Dates : ReadTemplate(c, t, date)
    PROVE  LedgerInv'
  <1>1. /\ entry' = entry /\ lastGenerated' = lastGenerated /\ step[c] = "idle"
        /\ disturbed' = (disturbed \/ InProgress # {})
    BY DEF ReadEntry, ReadTemplate, Read
  <1> DEFINE HasRead ==
          /\ ask' = [ask EXCEPT ![c] = ask'[c]] /\ ask'[c] \in Ask
          /\ seen' = [seen EXCEPT ![c] = seen'[c]] /\ seen'[c] \in Entry
          /\ step' = [step EXCEPT ![c] = step'[c]] /\ step'[c] \in {"read", "failed"}
          /\ step'[c] = "read" => SeenInv!(c)!2'
  <1>2. HasRead
    <2>1. ASSUME NEW op \in {"post", "reverse"}, NEW e \in Calls, ReadEntry(c, op, e) PROVE HasRead
      <3>1. e # c
        BY <2>1, <1>1, NoEntryFacts DEF ReadEntry, LedgerInv, FreshInv
      <3>2. QED
        BY <2>1, <3>1, <1>1 DEF ReadEntry, Read, Ask, LedgerInv, LedgerTypeOK, SameFields,
                                CanTransitionJournalEntry
    <2>2. ASSUME NEW t \in Templates, NEW date \in Dates, ReadTemplate(c, t, date) PROVE HasRead
      BY <2>2, NoEntryFacts DEF ReadTemplate, Read, Ask, LedgerInv, LedgerTypeOK
    <2>3. QED
      BY <2>1, <2>2
  <1>3. LedgerTypeOK'
    BY <1>1, <1>2 DEF LedgerInv, LedgerTypeOK, Steps
  <1>4. EntriesKept /\ ReversedHasReversal' /\ UnbalancedFromTemplate'
    BY <1>1 DEF LedgerInv, EntriesKept, SameFields, ReversedHasReversal, UnbalancedFromTemplate,
                EntriesBalance
  <1>5. FreshInv!(c)' /\ SeenInv!(c)' /\ SavedInv!(c)'
    BY <1>1, <1>2 DEF LedgerInv, FreshInv
  <1>6. \A d \in Calls \ {c} : step'[d] = step[d] /\ ask'[d] = ask[d] /\ seen'[d] = seen[d]
    BY <1>2 DEF LedgerInv, LedgerTypeOK
  <1>7. FreshInv' /\ SeenInv' /\ SavedInv'
    BY <1>1, <1>4, <1>5, <1>6, OthersKeepInv
  <1>8. QED
    BY <1>3, <1>4, <1>7 DEF LedgerInv

LEMMA SavePostedKeepsInv ==
    ASSUME LedgerInv, NEW c \in Calls, SavePosted(c)
    PROVE  LedgerInv'
  <1> DEFINE e == ask[c].entry
             x == Changed(c, "posted", seen[c].by)
  <1>1. /\ step[c] = "read" /\ ask[c].op = "post" /\ entry' = [entry EXCEPT ![e] = x]
        /\ step' = [step EXCEPT ![c] = "done"] /\ UNCHANGED <<lastGenerated, ask, seen, disturbed>>
    BY DEF SavePosted, SaveEntry
  <1>2. e \in Calls \ {c} /\ seen[c].by \in Calls \cup {None} /\ entry[e].status # "none"
        /\ entry[c] = NoEntry
    BY <1>1 DEF LedgerInv, SeenInv, FreshInv, LedgerTypeOK, Entry
  <1>3. EntriesKept /\ entry' \in [Calls -> Entry] /\ ReversedHasReversal' /\ UnbalancedFromTemplate'
    BY <1>1, <1>2, EntrySaved
  <1>4. LedgerTypeOK'
    BY <1>1, <1>3 DEF LedgerInv, LedgerTypeOK, Steps
  <1>5. /\ \A d \in Calls \ {c} : step'[d] = step[d] /\ (entry[d].status = "none" => entry'[d] = entry[d])
        /\ step'[c] = "done" /\ entry'[c] = NoEntry
    BY <1>1, <1>2 DEF LedgerInv, LedgerTypeOK
  <1>6. FreshInv' /\ SeenInv' /\ SavedInv'
    BY <1>1, <1>3, <1>5, OthersKeepInv
  <1>7. QED
    BY <1>3, <1>4, <1>6 DEF LedgerInv

LEMMA SaveReversingKeepsInv ==
    ASSUME LedgerInv, NEW c \in Calls, SaveReversing(c)
    PROVE  LedgerInv'
  <1> DEFINE e == ask[c].entry
             x == NewEntry("posted", Swapped(seen[c].lines), None, None, e)
  <1>1. /\ step[c] = "read" /\ ask[c].op = "reverse" /\ entry' = [entry EXCEPT ![c] = x]
        /\ step' = [step EXCEPT ![c] = "saved"] /\ UNCHANGED <<lastGenerated, ask, seen, disturbed>>
    BY DEF SaveReversing, SaveEntry
  <1>2. /\ e \in Calls \ {c} /\ entry[e].status # "none" /\ entry[c] = NoEntry
        /\ SameFields(entry[e], seen[c]) /\ seen[c].status = "posted" /\ seen[c].lines \in Lines
    BY <1>1 DEF LedgerInv, SeenInv, FreshInv, LedgerTypeOK, Entry
  <1>3. /\ x \in Entry /\ x.status = "posted" /\ x.lines = Swapped(seen[c].lines) /\ x.of = e
        /\ IsBalanced(seen[c].lines) => IsBalanced(x.lines)
    BY <1>2 DEF NewEntry, Entry, Lines, Swapped, IsBalanced
  <1> HIDE DEF x
  <1>4. (\A t \in Templates : IsBalanced(TemplateLines[t])) => IsBalanced(x.lines)
    BY <1>2, <1>3 DEF LedgerInv, UnbalancedFromTemplate, EntriesBalance, SameFields
  <1>5. EntriesKept /\ entry' \in [Calls -> Entry] /\ ReversedHasReversal' /\ UnbalancedFromTemplate'
    BY <1>1, <1>2, <1>3, <1>4, EntryCreated
  <1>6. LedgerTypeOK'
    BY <1>1, <1>5 DEF LedgerInv, LedgerTypeOK, Steps
  <1>7. /\ \A d \in Calls \ {c} : step'[d] = step[d] /\ entry'[d] = entry[d]
        /\ step'[c] = "saved" /\ entry'[c] = x
    BY <1>1 DEF LedgerInv, LedgerTypeOK
  <1>8. FreshInv!(c)' /\ SeenInv!(c)' /\ SavedInv!(c)'
    BY <1>1, <1>2, <1>3, <1>7 DEF LedgerInv, SeenInv
  <1>9. FreshInv' /\ SeenInv' /\ SavedInv'
    BY <1>1, <1>5, <1>7, <1>8, OthersKeepInv
  <1>10. QED
    BY <1>5, <1>6, <1>9 DEF LedgerInv

LEMMA SaveReversedKeepsInv ==
    ASSUME LedgerInv, NEW c \in Calls, SaveReversed(c)
    PROVE  LedgerInv'
  <1> DEFINE e == ask[c].entry
             x == Changed(c, "reversed", c)
  <1>1. /\ step[c] = "saved" /\ ask[c].op = "reverse" /\ entry' = [entry EXCEPT ![e] = x]
        /\ step' = [step EXCEPT ![c] = "done"] /\ UNCHANGED <<lastGenerated, ask, seen, disturbed>>
    BY DEF SaveReversed, SaveEntry
  <1>2. e \in Calls \ {c} /\ entry[e].status # "none"
        /\ entry[c].of = e /\ entry[c].status \notin {"none", "draft"}
        /\ entry[c].lines = Swapped(seen[c].lines)
    BY <1>1 DEF LedgerInv, SeenInv, SavedInv
  <1>3. EntriesKept /\ entry' \in [Calls -> Entry] /\ ReversedHasReversal' /\ UnbalancedFromTemplate'
    BY <1>1, <1>2, EntrySaved
  <1>4. LedgerTypeOK'
    BY <1>1, <1>3 DEF LedgerInv, LedgerTypeOK, Steps
  <1>5. /\ \A d \in Calls \ {c} : step'[d] = step[d] /\ (entry[d].status = "none" => entry'[d] = entry[d])
        /\ step'[c] = "done" /\ entry'[c] = entry[c]
    BY <1>1, <1>2 DEF LedgerInv, LedgerTypeOK
  <1>6. FreshInv' /\ SeenInv' /\ SavedInv'
    BY <1>1, <1>2, <1>3, <1>5, OthersKeepInv
  <1>7. QED
    BY <1>3, <1>4, <1>6 DEF LedgerInv

LEMMA SaveGeneratedKeepsInv ==
    ASSUME LedgerInv, NEW c \in Calls, SaveGenerated(c)
    PROVE  LedgerInv'
  <1> DEFINE t == ask[c].template
             x == NewEntry("draft", TemplateLines[t], ask[c].date, t, None)
  <1>1. /\ step[c] = "read" /\ ask[c].op = "generate" /\ entry' = [entry EXCEPT ![c] = x]
        /\ step' = [step EXCEPT ![c] = "saved"] /\ UNCHANGED <<lastGenerated, ask, seen, disturbed>>
    BY DEF SaveGenerated, SaveEntry
  <1>2. t \in Templates /\ ask[c].date \in Dates /\ entry[c] = NoEntry
    BY <1>1 DEF LedgerInv, SeenInv, FreshInv
  <1>3. x \in Entry /\ x.status = "draft" /\ x.lines = TemplateLines[t]
    BY <1>2, LedgerAssumption DEF NewEntry, Entry
  <1> HIDE DEF x
  <1>4. EntriesKept /\ entry' \in [Calls -> Entry] /\ ReversedHasReversal' /\ UnbalancedFromTemplate'
    BY <1>1, <1>2, <1>3, EntryCreated
  <1>5. LedgerTypeOK'
    BY <1>1, <1>4 DEF LedgerInv, LedgerTypeOK, Steps
  <1>6. /\ \A d \in Calls \ {c} : step'[d] = step[d] /\ entry'[d] = entry[d]
        /\ step'[c] = "saved" /\ entry'[c] = x
    BY <1>1 DEF LedgerInv, LedgerTypeOK
  <1>7. FreshInv!(c)' /\ SeenInv!(c)' /\ SavedInv!(c)'
    BY <1>1, <1>2, <1>3, <1>6 DEF LedgerInv, SeenInv
  <1>8. FreshInv' /\ SeenInv' /\ SavedInv'
    BY <1>1, <1>4, <1>6, <1>7, OthersKeepInv
  <1>9. QED
    BY <1>4, <1>5, <1>8 DEF LedgerInv

LEMMA OtherStepsKeepInv ==
    ASSUME LedgerInv, NEW c \in Calls, SaveTemplate(c) \/ SaveRefused(c)
    PROVE  LedgerInv'
  <1>1. /\ entry' = entry /\ ask' = ask /\ seen' = seen
        /\ step' = [step EXCEPT ![c] = step'[c]] /\ step'[c] \in {"done", "failed"}
        /\ disturbed' \in BOOLEAN
    BY DEF SaveTemplate, SaveRefused, LedgerInv, LedgerTypeOK
  <1>2. lastGenerated' \in [Templates -> Dates \cup {None}]
    BY DEF SaveTemplate, SaveRefused, LedgerInv, LedgerTypeOK, SeenInv
  <1>3. LedgerTypeOK'
    BY <1>1, <1>2 DEF LedgerInv, LedgerTypeOK, Steps
  <1>4. FreshInv' /\ SeenInv' /\ SavedInv'
    BY <1>1 DEF LedgerInv, LedgerTypeOK, FreshInv, SeenInv, SavedInv, SameFields
  <1>5. ReversedHasReversal' /\ UnbalancedFromTemplate'
    BY <1>1 DEF LedgerInv, ReversedHasReversal, UnbalancedFromTemplate, EntriesBalance
  <1>6. QED
    BY <1>3, <1>4, <1>5 DEF LedgerInv

LEMMA LedgerStepKeepsInv == LedgerInv /\ [LedgerNext]_ledgerVars => LedgerInv'
  <1> SUFFICES ASSUME LedgerInv, [LedgerNext]_ledgerVars PROVE LedgerInv'
    OBVIOUS
  <1>1. CASE UNCHANGED ledgerVars
    BY <1>1 DEF ledgerVars, callVars, LedgerInv, LedgerTypeOK, FreshInv, SeenInv, SavedInv,
                SameFields, ReversedHasReversal, UnbalancedFromTemplate, EntriesBalance
  <1>2. QED
    BY <1>1, CreateKeepsInv, ReadKeepsInv, SavePostedKeepsInv, SaveReversingKeepsInv,
       SaveReversedKeepsInv, SaveGeneratedKeepsInv, OtherStepsKeepInv DEF LedgerNext

\* Every reachable state of the ledger satisfies the inductive invariant.
THEOREM LedgerInvariant == LedgerSpec => []LedgerInv
  BY InitLedgerInv, LedgerStepKeepsInv, PTL DEF LedgerSpec

\* Entries, templates and calls are always well typed.
THEOREM LedgerTypes == LedgerSpec => []LedgerTypeOK
  <1>1. LedgerInv => LedgerTypeOK
    BY DEF LedgerInv
  <1>2. QED
    BY <1>1, LedgerInvariant, PTL

\* reverseJournalEntry never marks an entry reversed that lacks its reversing
\* entry, whatever overlaps and whichever save is refused.
THEOREM ReversalsExist == LedgerSpec => []ReversedHasReversal
  <1>1. LedgerInv => ReversedHasReversal
    BY DEF LedgerInv
  <1>2. QED
    BY <1>1, LedgerInvariant, PTL

\* createJournalEntry and reverseJournalEntry keep the entries balanced: only
\* generateFromTemplate can store an unbalanced one.
THEOREM OnlyTemplatesUnbalance == LedgerSpec => []UnbalancedFromTemplate
  <1>1. LedgerInv => UnbalancedFromTemplate
    BY DEF LedgerInv
  <1>2. QED
    BY <1>1, LedgerInvariant, PTL

\* What a step that changes the entry of another call is.
LEMMA WhoReopens ==
    ASSUME LedgerInv, [LedgerNext]_ledgerVars, NEW e \in Calls,
           entry[e].status = "reversed", entry'[e].status # "reversed"
    PROVE  \E c \in Calls : SavePosted(c) /\ ask[c].entry = e
  <1>1. \A c \in Calls : step[c] \in {"idle", "read"} => c # e
    BY NoEntryFacts DEF LedgerInv, FreshInv
  <1>2. ASSUME NEW c \in Calls, SavePosted(c) PROVE ask[c].entry = e
    BY <1>2 DEF SavePosted, SaveEntry, LedgerInv, LedgerTypeOK
  <1>3. ASSUME NEW c \in Calls, SaveReversed(c) PROVE FALSE
    BY <1>3 DEF SaveReversed, SaveEntry, Changed, LedgerInv, LedgerTypeOK, SeenInv
  <1>4. ASSUME NEW c \in Calls, SaveReversing(c) \/ SaveGenerated(c) PROVE FALSE
    BY <1>1, <1>4 DEF SaveReversing, SaveGenerated, SaveEntry, LedgerInv, LedgerTypeOK
  <1>5. ASSUME NEW c \in Calls, NEW lines \in InputLines, CreateJournalEntry(c, lines) PROVE FALSE
    BY <1>1, <1>5 DEF CreateJournalEntry, LedgerInv, LedgerTypeOK
  <1>6. ASSUME entry' = entry PROVE FALSE
    BY <1>6
  <1>7. QED
    BY <1>2, <1>3, <1>4, <1>5, <1>6
       DEF LedgerNext, ReadEntry, ReadTemplate, Read, SaveTemplate, SaveRefused, ledgerVars

\* Only a stale postJournalEntry undoes a reversal.
THEOREM ReopeningIsStale == LedgerSpec => ReopenedOnlyByStalePost
  <1>1. LedgerInv /\ [LedgerNext]_ledgerVars =>
            [\A e \in Calls : entry[e].status = "reversed" /\ entry'[e].status # "reversed" =>
                 \E c \in Calls : SavePosted(c) /\ ask[c].entry = e]_ledgerVars
    BY WhoReopens
  <1>2. QED
    BY <1>1, LedgerInvariant, PTL DEF LedgerSpec, ReopenedOnlyByStalePost

-----------------------------------------------------------------------------
\* Calls made one after the other, with every save accepted.

\* Nothing changes between a call's read and its first save.
CurrentInv ==
    /\ \A c, d \in InProgress : c = d
    /\ \A c \in Calls : step[c] = "read" /\ ask[c].op \in {"post", "reverse"} =>
           seen[c].status = entry[ask[c].entry].status
    /\ \A c \in Calls : step[c] = "read" /\ ask[c].op = "generate" =>
           IsDue(ask[c].template, lastGenerated[ask[c].template], ask[c].date)

\* An entry has one reversal, and is marked or about to be.
OneReversalInv ==
    /\ \A r, s \in Calls : entry[r].of # None /\ entry[r].of = entry[s].of => r = s
    /\ \A r \in Calls : entry[r].of # None =>
           \/ entry[entry[r].of].status = "reversed"
           \/ step[r] = "saved" /\ ask[r].op = "reverse"

SequentialInv == ~ disturbed => CurrentInv /\ OneReversalInv

LEMMA InitSequentialInv == LedgerInit => SequentialInv
  BY NoEntryFacts DEF LedgerInit, SequentialInv, CurrentInv, OneReversalInv, InProgress

LEMMA ReadIsCurrent ==
    ASSUME LedgerInv, SequentialInv, NEW c \in Calls,
           \/ \E op \in {"post", "reverse"}, e \in Calls : ReadEntry(c, op, e)
           \/ \E t \in Templates, date \in Dates : ReadTemplate(c, t, date)
    PROVE  SequentialInv'
  <1> SUFFICES ASSUME ~ disturbed' PROVE CurrentInv' /\ OneReversalInv'
    BY DEF SequentialInv
  <1>1. /\ ~ disturbed /\ InProgress = {} /\ entry' = entry /\ lastGenerated' = lastGenerated
        /\ \A d \in Calls : d # c => step'[d] = step[d] /\ ask'[d] = ask[d] /\ seen'[d] = seen[d]
        /\ step[c] = "idle"
    BY DEF ReadEntry, ReadTemplate, Read, LedgerInv, LedgerTypeOK
  <1>2. InProgress' \subseteq {c}
    BY <1>1 DEF InProgress
  <1>3. /\ step'[c] = "read" /\ ask'[c].op \in {"post", "reverse"} =>
              seen'[c].status = entry[ask'[c].entry].status
        /\ step'[c] = "read" /\ ask'[c].op = "generate" =>
              IsDue(ask'[c].template, lastGenerated[ask'[c].template], ask'[c].date)
    <2>1. ASSUME NEW op \in {"post", "reverse"}, NEW e \in Calls, ReadEntry(c, op, e)
          PROVE  ask'[c].op = op /\ ask'[c].entry = e /\ seen'[c] = entry[e]
      BY <2>1 DEF ReadEntry, Read, LedgerInv, LedgerTypeOK
    <2>2. ASSUME NEW t \in Templates, NEW date \in Dates, ReadTemplate(c, t, date)
          PROVE  /\ ask'[c].op = "generate" /\ ask'[c].template = t /\ ask'[c].date = date
                 /\ step'[c] = "read" => IsDue(t, lastGenerated[t], date)
      BY <2>2 DEF ReadTemplate, Read, LedgerInv, LedgerTypeOK
    <2>3. QED
      BY <2>1, <2>2
  <1>4. CurrentInv'
    <2>1. \A d \in Calls : step'[d] = "read" => d = c
      BY <1>2 DEF InProgress
    <2>2. QED
      BY <1>1, <1>2, <1>3, <2>1 DEF CurrentInv
  <1>5. OneReversalInv'
    BY <1>1 DEF SequentialInv, OneReversalInv
  <1>6. QED
    BY <1>4, <1>5

\* A save of the only call in progress.
LEMMA SoleSave ==
    ASSUME LedgerInv, SequentialInv, ~ disturbed, NEW c \in Calls, step[c] \in {"read", "saved"},
           NEW s \in {"saved", "done"}, step' = [step EXCEPT ![c] = s]
    PROVE  /\ \A d \in Calls : step[d] \in {"read", "saved"} => d = c
           /\ \A d \in Calls : step'[d] # "read" /\ (step'[d] = "saved" => d = c /\ s = "saved")
           /\ CurrentInv'
  <1>1. \A d \in Calls : step[d] \in {"read", "saved"} => d = c
    BY DEF SequentialInv, CurrentInv, InProgress
  <1>2. \A d \in Calls : step'[d] # "read" /\ (step'[d] = "saved" => d = c /\ s = "saved")
    BY <1>1 DEF LedgerInv, LedgerTypeOK
  <1>3. InProgress' \subseteq {c}
    BY <1>2 DEF InProgress
  <1>4. CurrentInv'
    BY <1>2, <1>3 DEF CurrentInv
  <1>5. QED
    BY <1>1, <1>2, <1>4

LEMMA SequentialStep ==
    LedgerInv /\ SequentialInv /\ [LedgerNext]_ledgerVars => SequentialInv'
  <1> SUFFICES ASSUME LedgerInv, SequentialInv, [LedgerNext]_ledgerVars, ~ disturbed'
               PROVE  CurrentInv' /\ OneReversalInv'
    BY DEF SequentialInv
  <1>1. ~ disturbed
    BY DEF LedgerNext, CreateJournalEntry, ReadEntry, ReadTemplate, Read, SavePosted, SaveReversing,
           SaveReversed, SaveGenerated, SaveEntry, SaveTemplate, SaveRefused, ledgerVars
  <1>2. CurrentInv /\ OneReversalInv
    BY <1>1 DEF SequentialInv
  <1>3. entry \in [Calls -> Entry] /\ step \in [Calls -> Steps] /\ None \notin Calls
        /\ \A d \in Calls : entry[d].of \in Calls \cup {None}
    BY LedgerAssumption DEF LedgerInv, LedgerTypeOK, Entry
  <1>4. ASSUME NEW c \in Calls, NEW lines \in InputLines, CreateJournalEntry(c, lines)
        PROVE  CurrentInv' /\ OneReversalInv'
    <2>1. /\ step[c] = "idle" /\ entry[c] = NoEntry /\ entry'[c].of = None
          /\ \A d \in Calls : d # c => entry'[d] = entry[d] /\ step'[d] = step[d]
          /\ step'[c] = "done" /\ UNCHANGED <<lastGenerated, ask, seen>>
      BY <1>3, <1>4 DEF CreateJournalEntry, NewEntry, LedgerInv, FreshInv
    <2>2. InProgress' = InProgress
      BY <2>1 DEF InProgress
    <2>3. \A d \in Calls : step[d] = "read" /\ ask[d].op \in {"post", "reverse"} => ask[d].entry # c
      BY <2>1, NoEntryFacts DEF LedgerInv, SeenInv
    <2>4. CurrentInv'
      BY <1>2, <2>1, <2>2, <2>3 DEF CurrentInv, LedgerInv, SeenInv
    <2>5. OneReversalInv'
      BY <1>2, <1>3, <2>1, NoEntryFacts DEF OneReversalInv
    <2>6. QED
      BY <2>4, <2>5
  <1>5. ASSUME NEW c \in Calls, SavePosted(c) PROVE CurrentInv' /\ OneReversalInv'
    <2> DEFINE e == ask[c].entry
    <2>1. /\ step[c] = "read" /\ ask[c].op = "post" /\ step' = [step EXCEPT ![c] = "done"]
          /\ entry' = [entry EXCEPT ![e] = Changed(c, "posted", seen[c].by)] /\ ask' = ask
      BY <1>5 DEF SavePosted, SaveEntry
    <2>2. e \in Calls /\ entry[e].status = "draft" /\ seen[c].of = entry[e].of
      BY <1>2, <2>1 DEF CurrentInv, LedgerInv, SeenInv, SameFields
    <2>3. \A d \in Calls : entry'[d].of = entry[d].of /\ (d # e => entry'[d] = entry[d])
      BY <1>3, <2>1, <2>2 DEF Changed
    <2>4. \A r \in Calls : step[r] = "saved" => FALSE
      BY <1>1, <2>1, SoleSave
    <2>5. OneReversalInv'
      BY <1>2, <1>3, <2>2, <2>3, <2>4 DEF OneReversalInv
    <2>6. QED
      BY <1>1, <2>1, <2>5, SoleSave
  <1>6. ASSUME NEW c \in Calls, SaveReversing(c) PROVE CurrentInv' /\ OneReversalInv'
    <2> DEFINE e == ask[c].entry
    <2>1. /\ step[c] = "read" /\ ask[c].op = "reverse" /\ step' = [step EXCEPT ![c] = "saved"]
          /\ entry' = [entry EXCEPT ![c] = NewEntry("posted", Swapped(seen[c].lines), None, None, e)]
          /\ ask' = ask
      BY <1>6 DEF SaveReversing, SaveEntry
    <2>2. e \in Calls \ {c} /\ entry[e].status = "posted" /\ entry[c] = NoEntry
      BY <1>2, <2>1 DEF CurrentInv, LedgerInv, SeenInv, FreshInv
    <2>3. \A r \in Calls : step[r] = "saved" => FALSE
      BY <1>1, <2>1, SoleSave
    <2>4. \A r \in Calls : entry[r].of # e
      BY <1>2, <1>3, <2>2, <2>3 DEF OneReversalInv
    <2>5. /\ entry'[c].of = e /\ step'[c] = "saved"
          /\ \A d \in Calls : d # c => entry'[d] = entry[d]
      BY <1>3, <2>1 DEF NewEntry
    <2>6. \A r \in Calls : entry[r].of # None => entry[r].of # c
      BY <1>2, <2>2, <2>3, NoEntryFacts DEF OneReversalInv
    <2>7. OneReversalInv'
      BY <1>2, <1>3, <2>1, <2>2, <2>3, <2>4, <2>5, <2>6, NoEntryFacts DEF OneReversalInv
    <2>8. QED
      BY <1>1, <2>1, <2>7, SoleSave
  <1>7. ASSUME NEW c \in Calls, SaveReversed(c) PROVE CurrentInv' /\ OneReversalInv'
    <2> DEFINE e == ask[c].entry
    <2>1. /\ step[c] = "saved" /\ ask[c].op = "reverse" /\ step' = [step EXCEPT ![c] = "done"]
          /\ entry' = [entry EXCEPT ![e] = Changed(c, "reversed", c)] /\ ask' = ask
      BY <1>7 DEF SaveReversed, SaveEntry
    <2>2. e \in Calls /\ seen[c].of = entry[e].of /\ entry[c].of = e
      BY <2>1 DEF LedgerInv, SeenInv, SavedInv, SameFields
    <2>3. \A d \in Calls : entry'[d].of = entry[d].of /\ (d # e => entry'[d] = entry[d])
      BY <1>3, <2>1, <2>2 DEF Changed
    <2>4. entry'[e].status = "reversed"
      BY <1>3, <2>1, <2>2 DEF Changed
    <2>5. \A r \in Calls : step[r] = "saved" => r = c
      BY <1>1, <2>1, SoleSave
    <2>6. OneReversalInv'
      BY <1>2, <1>3, <2>2, <2>3, <2>4, <2>5 DEF OneReversalInv
    <2>7. QED
      BY <1>1, <2>1, <2>6, SoleSave
  <1>8. ASSUME NEW c \in Calls, SaveGenerated(c) PROVE CurrentInv' /\ OneReversalInv'
    <2>1. /\ step[c] = "read" /\ ask[c].op = "generate" /\ step' = [step EXCEPT ![c] = "saved"]
          /\ entry[c] = NoEntry /\ entry'[c].of = None /\ ask' = ask
          /\ \A d \in Calls : d # c => entry'[d] = entry[d]
      BY <1>3, <1>8 DEF SaveGenerated, SaveEntry, NewEntry, LedgerInv, FreshInv
    <2>2. \A r \in Calls : step[r] = "saved" => FALSE
      BY <1>1, <2>1, SoleSave
    <2>3. OneReversalInv'
      BY <1>2, <1>3, <2>1, <2>2, NoEntryFacts DEF OneReversalInv
    <2>4. QED
      BY <1>1, <2>1, <2>3, SoleSave
  <1>9. ASSUME NEW c \in Calls, SaveTemplate(c) PROVE CurrentInv' /\ OneReversalInv'
    <2>1. /\ step[c] = "saved" /\ ask[c].op = "generate" /\ step' = [step EXCEPT ![c] = "done"]
          /\ entry' = entry /\ ask' = ask
      BY <1>9 DEF SaveTemplate
    <2>2. OneReversalInv'
      BY <1>2, <1>3, <2>1 DEF OneReversalInv
    <2>3. QED
      BY <1>1, <2>1, <2>2, SoleSave
  <1>10. ASSUME NEW c \in Calls, SaveRefused(c) PROVE FALSE
    BY <1>10 DEF SaveRefused
  <1>11. CASE UNCHANGED ledgerVars
    BY <1>2, <1>11 DEF ledgerVars, callVars, CurrentInv, OneReversalInv, InProgress
  <1>12. QED
    BY <1>4, <1>5, <1>6, <1>7, <1>8, <1>9, <1>10, <1>11, ReadIsCurrent DEF LedgerNext, SequentialInv

LEMMA SequentialReversesOnce == LedgerInv /\ SequentialInv => ReversedOnce
  <1> SUFFICES ASSUME LedgerInv, SequentialInv, ~ disturbed, NEW e \in Calls
               PROVE  Cardinality(ReversalsOf(e)) <= 1
    BY DEF ReversedOnce
  <1>1. e # None
    BY LedgerAssumption
  <1>2. CASE ReversalsOf(e) = {}
    BY <1>2, FS_EmptySet
  <1>3. CASE ReversalsOf(e) # {}
    <2>1. PICK r \in Calls : entry[r].of = e
      BY <1>3 DEF ReversalsOf
    <2>2. ReversalsOf(e) = {r}
      BY <1>1, <2>1 DEF ReversalsOf, SequentialInv, OneReversalInv
    <2>3. QED
      BY <2>2, FS_Singleton
  <1>4. QED
    BY <1>2, <1>3

\* An entry is reversed once at most, as long as calls do not overlap and the
\* repository refuses no save.
THEOREM ReversalsAreSingle == LedgerSpec => []ReversedOnce
  <1>1. LedgerSpec => []SequentialInv
    BY LedgerInvariant, InitSequentialInv, SequentialStep, PTL DEF LedgerSpec
  <1>2. QED
    BY <1>1, LedgerInvariant, SequentialReversesOnce, PTL

\* An entry generated before another is an interval older.
Older(d, e, t) == entry[d].date + Interval[t] <= entry[e].date

GenerationInv ==
    ~ disturbed =>
        /\ \A e \in Calls : entry[e].template # None =>
              /\ entry[e].template \in Templates /\ entry[e].date \in Nat
              /\ \/ /\ lastGenerated[entry[e].template] # None
                    /\ entry[e].date <= lastGenerated[entry[e].template]
                 \/ step[e] = "saved" /\ ask[e].op = "generate"
        /\ \A d, e \in Calls : d # e /\ entry[d].template # None /\ entry[d].template = entry[e].template =>
              Older(d, e, entry[d].template) \/ Older(e, d, entry[d].template)
        /\ \A c \in Calls : step[c] = "saved" /\ ask[c].op = "generate" =>
              /\ entry[c].template = ask[c].template /\ entry[c].date = ask[c].date
              /\ \A e \in Calls \ {c} :
                    entry[e].template = ask[c].template => Older(e, c, ask[c].template)

LEMMA InitGenerationInv == LedgerInit => GenerationInv
  BY NoEntryFacts DEF LedgerInit, GenerationInv

\* Steps that touch no template and no generated entry's date.
LEMMA GenerationFrame ==
    ASSUME GenerationInv, disturbed' = disturbed, lastGenerated' = lastGenerated,
           \A e \in Calls : \/ entry'[e].template = entry[e].template /\ entry'[e].date = entry[e].date
                            \/ entry[e].template = None /\ entry'[e].template = None,
           \A e \in Calls : (step[e] = "saved" /\ ask[e].op = "generate")
                                <=> (step'[e] = "saved" /\ ask'[e].op = "generate"),
           \A e \in Calls : step[e] = "saved" /\ ask[e].op = "generate" =>
               ask'[e] = ask[e] /\ ask[e].template # None
    PROVE  GenerationInv'
  BY DEF GenerationInv, Older

LEMMA GenerationStep ==
    LedgerInv /\ SequentialInv /\ GenerationInv /\ [LedgerNext]_ledgerVars => GenerationInv'
  <1> SUFFICES ASSUME LedgerInv, SequentialInv, GenerationInv, [LedgerNext]_ledgerVars, ~ disturbed'
               PROVE  GenerationInv'
    BY DEF GenerationInv
  <1>1. ~ disturbed
    BY DEF LedgerNext, CreateJournalEntry, ReadEntry, ReadTemplate, Read, SavePosted, SaveReversing,
           SaveReversed, SaveGenerated, SaveEntry, SaveTemplate, SaveRefused, ledgerVars
  <1>2. entry \in [Calls -> Entry] /\ step \in [Calls -> Steps] /\ None \notin Templates
    BY LedgerAssumption DEF LedgerInv, LedgerTypeOK
  <1>3. \A e \in Calls : step[e] = "saved" /\ ask[e].op = "generate" =>
            ask[e].template # None /\ ask[e].template \in Templates
    BY <1>2 DEF LedgerInv, SeenInv
  <1>4. ASSUME NEW c \in Calls, NEW lines \in InputLines, CreateJournalEntry(c, lines)
        PROVE  GenerationInv'
    <2>1. /\ entry[c] = NoEntry /\ entry'[c].template = None /\ step[c] = "idle" /\ step'[c] = "done"
          /\ \A d \in Calls : d # c => entry'[d] = entry[d] /\ step'[d] = step[d]
          /\ UNCHANGED <<lastGenerated, ask, disturbed>>
      BY <1>2, <1>4 DEF CreateJournalEntry, NewEntry, LedgerInv, FreshInv
    <2>2. QED
      BY <1>3, <2>1, NoEntryFacts, GenerationFrame
  <1>5. ASSUME NEW c \in Calls,
               \/ \E op \in {"post", "reverse"}, e \in Calls : ReadEntry(c, op, e)
               \/ \E t \in Templates, date \in Dates : ReadTemplate(c, t, date)
        PROVE  GenerationInv'
    <2>1. /\ entry' = entry /\ lastGenerated' = lastGenerated /\ step[c] = "idle" /\ step'[c] # "saved"
          /\ \A d \in Calls : d # c => step'[d] = step[d] /\ ask'[d] = ask[d]
      BY <1>5 DEF ReadEntry, ReadTemplate, Read, LedgerInv, LedgerTypeOK
    <2>2. disturbed' = disturbed
      BY <1>1, <1>5 DEF LedgerInv, LedgerTypeOK, ReadEntry, ReadTemplate, Read
    <2>3. QED
      BY <1>3, <2>1, <2>2, GenerationFrame
  <1>6. ASSUME NEW c \in Calls, SavePosted(c) \/ SaveReversed(c) PROVE GenerationInv'
    <2>1. /\ ask[c].op \in {"post", "reverse"} /\ step[c] \in {"read", "saved"}
          /\ \A d \in Calls : d # c => step'[d] = step[d]
          /\ UNCHANGED <<lastGenerated, ask, disturbed>>
          /\ \E status, by : entry' = [entry EXCEPT ![ask[c].entry] = Changed(c, status, by)]
      BY <1>2, <1>6 DEF SavePosted, SaveReversed, SaveEntry
    <2>2. ask[c].entry \in Calls /\ SameFields(entry[ask[c].entry], seen[c])
      BY <2>1 DEF LedgerInv, SeenInv
    <2>3. \A d \in Calls : entry'[d].template = entry[d].template /\ entry'[d].date = entry[d].date
      BY <1>2, <2>1, <2>2 DEF Changed, SameFields
    <2>4. QED
      BY <1>3, <2>1, <2>3, GenerationFrame
  <1>7. ASSUME NEW c \in Calls, SaveReversing(c) PROVE GenerationInv'
    <2>1. /\ ask[c].op = "reverse" /\ entry[c] = NoEntry /\ entry'[c].template = None
          /\ \A d \in Calls : d # c => entry'[d] = entry[d] /\ step'[d] = step[d]
          /\ UNCHANGED <<lastGenerated, ask, disturbed>>
      BY <1>2, <1>7 DEF SaveReversing, SaveEntry, NewEntry, LedgerInv, FreshInv
    <2>2. QED
      BY <1>3, <2>1, NoEntryFacts, GenerationFrame
  <1>8. ASSUME NEW c \in Calls, SaveGenerated(c) PROVE GenerationInv'
    <2> DEFINE t == ask[c].template
    <2>1. /\ step[c] = "read" /\ ask[c].op = "generate" /\ step' = [step EXCEPT ![c] = "saved"]
          /\ UNCHANGED <<lastGenerated, ask, disturbed>>
          /\ entry' = [entry EXCEPT ![c] = NewEntry("draft", TemplateLines[t], ask[c].date, t, None)]
      BY <1>8 DEF SaveGenerated, SaveEntry
    <2>2. /\ t \in Templates /\ ask[c].date \in Nat /\ entry[c] = NoEntry
          /\ IsDue(t, lastGenerated[t], ask[c].date)
      BY <1>1, <2>1, LedgerAssumption DEF LedgerInv, SeenInv, FreshInv, SequentialInv, CurrentInv
    <2>3. /\ entry'[c].template = t /\ entry'[c].date = ask[c].date
          /\ \A d \in Calls : d # c => entry'[d] = entry[d]
      BY <1>2, <2>1 DEF NewEntry
    <2>4. \A d \in Calls : step[d] # "saved" /\ (d # c => step'[d] # "saved")
      BY <1>1, <2>1, SoleSave
    <2>5. \A e \in Calls : entry[e].template # None =>
              /\ entry[e].template \in Templates /\ entry[e].date \in Nat
              /\ lastGenerated[entry[e].template] # None
              /\ entry[e].date <= lastGenerated[entry[e].template]
      BY <1>1, <2>4 DEF GenerationInv
    <2>6. /\ lastGenerated[t] # None => lastGenerated[t] \in Nat /\ lastGenerated[t] + Interval[t] <= ask[c].date
          /\ Interval[t] \in Nat
      BY <2>2, LedgerAssumption DEF IsDue, NextDue, LedgerInv, LedgerTypeOK
    <2>7. \A e \in Calls \ {c} : entry[e].template = t => entry[e].date + Interval[t] <= ask[c].date
      BY <1>2, <2>2, <2>5, <2>6
    <2>8. \A e \in Calls \ {c} :
              entry'[e].template = t => entry'[e].date + Interval[t] <= entry'[c].date
      BY <2>3, <2>7
    <2>9. \A e \in Calls : entry'[e].template # None =>
              /\ entry'[e].template \in Templates /\ entry'[e].date \in Nat
              /\ \/ /\ lastGenerated'[entry'[e].template] # None
                    /\ entry'[e].date <= lastGenerated'[entry'[e].template]
                 \/ step'[e] = "saved" /\ ask'[e].op = "generate"
      <3>1. step'[c] = "saved" /\ ask'[c].op = "generate"
        BY <1>2, <2>1
      <3>2. QED
        BY <2>1, <2>2, <2>3, <2>5, <3>1
    <2>10. \A d, e \in Calls : d # e /\ entry'[d].template # None /\ entry'[d].template = entry'[e].template =>
              \/ entry'[d].date + Interval[entry'[d].template] <= entry'[e].date
              \/ entry'[e].date + Interval[entry'[d].template] <= entry'[d].date
      <3> SUFFICES ASSUME NEW d \in Calls, NEW e \in Calls, d # e, entry'[d].template # None,
                          entry'[d].template = entry'[e].template
                   PROVE  \/ entry'[d].date + Interval[entry'[d].template] <= entry'[e].date
                          \/ entry'[e].date + Interval[entry'[d].template] <= entry'[d].date
        OBVIOUS
      <3>1. CASE d = c \/ e = c
        BY <2>3, <2>8, <3>1
      <3>2. CASE d # c /\ e # c
        BY <1>1, <2>3, <3>2 DEF GenerationInv, Older
      <3>3. QED
        BY <3>1, <3>2
    <2>11. \A d \in Calls : step'[d] = "saved" => d = c
      BY <2>4
    <2>12. QED
      BY <2>1, <2>3, <2>8, <2>9, <2>10, <2>11 DEF GenerationInv, Older
  <1>9. ASSUME NEW c \in Calls, SaveTemplate(c) PROVE GenerationInv'
    <2> DEFINE t == ask[c].template
    <2>1. /\ step[c] = "saved" /\ ask[c].op = "generate" /\ step' = [step EXCEPT ![c] = "done"]
          /\ UNCHANGED <<entry, ask, disturbed>>
          /\ lastGenerated' = [lastGenerated EXCEPT ![t] = ask[c].date]
      BY <1>9 DEF SaveTemplate
    <2>2. t \in Templates /\ ask[c].date \in Nat /\ ask[c].date # None
      BY <2>1, LedgerAssumption DEF LedgerInv, SeenInv
    <2>3. \A d \in Calls : (step[d] = "saved" => d = c) /\ step'[d] # "saved"
      BY <1>1, <2>1, SoleSave
    <2>4. /\ lastGenerated'[t] = ask[c].date
          /\ \A s \in Templates : s # t => lastGenerated'[s] = lastGenerated[s]
      BY <2>1, <2>2 DEF LedgerInv, LedgerTypeOK
    <2>5. Interval[t] \in Nat
      BY <2>2, LedgerAssumption
    <2>6. \A e \in Calls : entry[e].template = t => entry[e].date \in Nat /\ entry[e].date <= ask[c].date
      BY <1>1, <1>2, <2>1, <2>2, <2>5 DEF GenerationInv, Older
    <2>7. ASSUME NEW e \in Calls, entry[e].template # None
          PROVE  /\ lastGenerated'[entry[e].template] # None
                 /\ entry[e].date <= lastGenerated'[entry[e].template]
      BY <1>1, <2>1, <2>2, <2>3, <2>4, <2>6, <2>7 DEF GenerationInv
    <2>8. QED
      BY <1>1, <2>1, <2>3, <2>7 DEF GenerationInv, Older
  <1>10. ASSUME NEW c \in Calls, SaveRefused(c) PROVE FALSE
    BY <1>10 DEF SaveRefused
  <1>11. CASE UNCHANGED ledgerVars
    BY <1>11 DEF ledgerVars, callVars, GenerationInv, Older
  <1>12. QED
    BY <1>4, <1>5, <1>6, <1>7, <1>8, <1>9, <1>10, <1>11 DEF LedgerNext

LEMMA GenerationIsApart == GenerationInv => GeneratedApart
  <1> SUFFICES ASSUME GenerationInv, ~ disturbed, NEW d \in Calls, NEW e \in Calls, d # e,
                      entry[d].template # None, entry[d].template = entry[e].template
               PROVE  GeneratedApart!2!(d, e)!2
    BY DEF GeneratedApart
  <1>1. /\ entry[d].date \in Nat /\ entry[e].date \in Nat /\ Interval[entry[d].template] \in Nat
        /\ Older(d, e, entry[d].template) \/ Older(e, d, entry[d].template)
    BY LedgerAssumption DEF GenerationInv
  <1>2. QED
    BY <1>1 DEF Older

\* generateFromTemplate never generates two entries of a template less than its
\* interval apart, as long as calls do not overlap and no save is refused.
THEOREM OccurrencesApart == LedgerSpec => []GeneratedApart
  <1>1. LedgerSpec => [](SequentialInv /\ GenerationInv)
    BY LedgerInvariant, InitSequentialInv, SequentialStep, InitGenerationInv, GenerationStep, PTL
       DEF LedgerSpec
  <1>2. QED
    BY <1>1, GenerationIsApart, PTL
=============================================================================
