-------------------------- MODULE InventoryCounting -------------------------
(***************************************************************************)
(* createInventoryCountingEngine of packages/inventory-engine, for one     *)
(* count of one warehouse: its lines' system quantities are taken when it  *)
(* is created; start, record and complete each read the count, check its   *)
(* status and save a changed copy after an await, with no lock; completing *)
(* adjusts the stock of every line that varies, one movement after the     *)
(* other, before it saves.                                                 *)
(***************************************************************************)
EXTENDS InventoryMovements, Sequences

CONSTANTS
    Lines,      \* the count's lines: a sequence of keys
    CountCalls, \* the calls of start, record and complete, each made once
    CountAsks   \* what they may ask for: [op, line, quantity]

LineNumbers == DOMAIN Lines

ASSUME CountLines == Lines \in Seq(Keys)
ASSUME CountMovements == CountCalls \X LineNumbers \subseteq Movements
ASSUME CountRequests ==
    /\ CountAsks # {}
    /\ CountAsks \subseteq [op : {"start", "record", "complete"}, line : LineNumbers,
                            quantity : Nat]

VARIABLES
    snapshot, \* createCount: the system quantities taken so far
    count,    \* the saved count
    ask,      \* per call: what it was made for
    seen,     \* per call: the count it read
    line,     \* per call: the last line it has looked at
    at,       \* per call: "new", "read", "adjusting", "done" or "failed"
    overlapped \* history: a call was made while another was in progress

countOnly == <<snapshot, count, ask, seen, line, at, overlapped>>
countVars == <<movementVars, countOnly>>

Uncounted == -1

Count == [status : {"none", "draft", "in_progress", "completed"},
          system : [LineNumbers -> Nat], counted : [LineNumbers -> Nat \cup {Uncounted}]]

CountingInit ==
    /\ MovementInit
    /\ snapshot = <<>>
    /\ count = [status |-> "none",
                system |-> [i \in LineNumbers |-> 0],
                counted |-> [i \in LineNumbers |-> Uncounted]]
    /\ ask = [a \in CountCalls |-> CHOOSE r \in CountAsks : TRUE]
    /\ seen = [a \in CountCalls |-> count]
    /\ line = [a \in CountCalls |-> 0]
    /\ at = [a \in CountCalls |-> "new"]
    /\ overlapped = FALSE

\* createCount: stock.getOrCreate for the next line, whose on-hand is taken.
SnapshotLine ==
    /\ count.status = "none" /\ Len(snapshot) < Len(Lines)
    /\ LET k == Lines[Len(snapshot) + 1] IN
          /\ snapshot' = Append(snapshot, level[k].onHand)
          /\ opened' = opened \cup {k}
    /\ UNCHANGED <<level, key, operation, outcome, movementOnly>>
    /\ UNCHANGED <<count, ask, seen, line, at, overlapped>>

\* createCount saves the draft.
SaveDraft ==
    /\ count.status = "none" /\ Len(snapshot) = Len(Lines)
    /\ count' = [count EXCEPT !.status = "draft", !.system = snapshot]
    /\ UNCHANGED <<movementVars, snapshot, ask, seen, line, at, overlapped>>

\* Faulty: a completed count may be started again.
AdmitsAgain(status, op) ==
    \/ op = "start" /\ status \in {"draft", "completed"}
    \/ op \in {"record", "complete"} /\ status = "in_progress"

\* The status each call requires of the count it read.
Admits(status, op) ==
    \/ op = "start" /\ status = "draft"
    \/ op \in {"record", "complete"} /\ status = "in_progress"

\* A method is called: requireCount reads the count.
CallCount(a, r) ==
    /\ at[a] = "new" /\ count.status # "none"
    /\ overlapped' = (overlapped \/ \E b \in CountCalls : at[b] \in {"read", "adjusting"})
    /\ ask' = [ask EXCEPT ![a] = r]
    /\ seen' = [seen EXCEPT ![a] = count]
    /\ at' = [at EXCEPT ![a] = "read"]
    /\ UNCHANGED <<movementVars, snapshot, count, line>>

\* InvalidCountTransitionError.
RejectCall(a) ==
    /\ at[a] = "read" /\ ~ Admits(seen[a].status, ask[a].op)
    /\ at' = [at EXCEPT ![a] = "failed"]
    /\ UNCHANGED <<movementVars, snapshot, count, ask, seen, line, overlapped>>

Admitted(a, op) ==
    at[a] = "read" /\ ask[a].op = op /\ Admits(seen[a].status, op)

SaveCount(a, saved) ==
    /\ count' = saved
    /\ at' = [at EXCEPT ![a] = "done"]
    /\ UNCHANGED <<movementVars, snapshot, ask, seen, line, overlapped>>

SaveStarted(a) ==
    /\ Admitted(a, "start")
    /\ SaveCount(a, [seen[a] EXCEPT !.status = "in_progress"])

\* Faulty: the counted line replaces the others.
SaveOnlyLine(a) ==
    /\ Admitted(a, "record")
    /\ SaveCount(a, [seen[a] EXCEPT
          !.counted = [i \in LineNumbers |->
                          IF i = ask[a].line THEN ask[a].quantity ELSE Uncounted]])

SaveRecorded(a) ==
    /\ Admitted(a, "record")
    /\ SaveCount(a, [seen[a] EXCEPT !.counted[ask[a].line] = ask[a].quantity])

\* Faulty: the variance has the wrong sign.
VarianceReversed(c, i) ==
    IF c.counted[i] = Uncounted THEN 0 ELSE c.system[i] - c.counted[i]

\* computeVariance; a line that was not counted has none.
Variance(c, i) ==
    IF c.counted[i] = Uncounted THEN 0 ELSE c.counted[i] - c.system[i]

\* The lines of the count a read that it still has to adjust.
ToAdjust(a) == {i \in LineNumbers : i > line[a] /\ Variance(seen[a], i) # 0}

\* Faulty: an adjustment is not awaited.
AtLoopUnawaited(a) == Admitted(a, "complete") \/ at[a] = "adjusting"

\* completeCount is at its loop: admitted, or back from an adjustment.
AtLoop(a) ==
    \/ Admitted(a, "complete")
    \/ at[a] = "adjusting" /\ stage[<<a, line[a]>>] = "recorded"

\* The next varying line: movements.adjust by its variance is called.
Adjust(a) ==
    /\ AtLoop(a) /\ ToAdjust(a) # {}
    /\ LET i == Min(ToAdjust(a)) IN
          /\ Start(<<a, i>>, [type |-> "adjustment", at |-> Lines[i], to |-> Lines[i],
                              quantity |-> Variance(seen[a], i)])
          /\ line' = [line EXCEPT ![a] = i]
    /\ at' = [at EXCEPT ![a] = "adjusting"]
    /\ UNCHANGED <<snapshot, count, ask, seen, overlapped>>

\* An adjustment threw: so does completeCount, with the count left as it is.
AdjustFailed(a) ==
    /\ at[a] = "adjusting" /\ stage[<<a, line[a]>>] = "failed"
    /\ at' = [at EXCEPT ![a] = "failed"]
    /\ UNCHANGED <<movementVars, snapshot, count, ask, seen, line, overlapped>>

SaveCompleted(a) ==
    /\ AtLoop(a) /\ ToAdjust(a) = {}
    /\ SaveCount(a, [seen[a] EXCEPT !.status = "completed"])

\* The movement and stock engines, for adjustments and for other callers.
EngineStep ==
    /\ \/ \E m \in Movements : SecondLeg(m) \/ Record(m) \/ Throw(m)
       \/ \E c \in Calls : StockStep(c)
    /\ UNCHANGED countOnly

Direct == Movements \ (CountCalls \X LineNumbers)

StartDirect(m, r) == Start(m, r) /\ UNCHANGED countOnly

CountStep(a) ==
    RejectCall(a) \/ SaveStarted(a) \/ SaveRecorded(a) \/ Adjust(a)
        \/ AdjustFailed(a) \/ SaveCompleted(a)

CountingNext ==
    \/ SnapshotLine
    \/ SaveDraft
    \/ \E a \in CountCalls : (\E r \in CountAsks : CallCount(a, r)) \/ CountStep(a)
    \/ \E m \in Direct, r \in Requests : StartDirect(m, r)
    \/ EngineStep

CountingSpec == CountingInit /\ [][CountingNext]_countVars

-----------------------------------------------------------------------------

CountingTypeOK ==
    /\ MovementTypeOK
    /\ snapshot \in Seq(Nat)
    /\ count \in Count
    /\ ask \in [CountCalls -> CountAsks]
    /\ seen \in [CountCalls -> Count]
    /\ line \in [CountCalls -> {0} \cup LineNumbers]
    /\ at \in [CountCalls -> {"new", "read", "adjusting", "done", "failed"}]
    /\ overlapped \in BOOLEAN

\* The adjustments the stock ledger holds for line i.
Adjustments(i) == {a \in CountCalls : stage[<<a, i>>] = "recorded"}

\* A completed count has put its whole variance, and nothing else, on the
\* books: completeCount reconciles "for every line with a non-zero variance".
\* This takes callers that await each call before the next, and no completion
\* that failed half way before.
CompletedIsReconciled ==
    /\ count.status = "completed" /\ ~ overlapped
    /\ \A a \in CountCalls : at[a] = "failed" => line[a] = 0
    => \A i \in LineNumbers :
          SumFunctionOnSet([a \in CountCalls |-> request[<<a, i>>].quantity], Adjustments(i))
              = IF count.counted[i] = Uncounted THEN 0
                ELSE count.counted[i] - count.system[i]

\* completeCount never reports a count completed before each line that varied
\* has its own movement record, whatever else adjusts, records or fails.
CompletionAdjustsAll ==
    \A a \in CountCalls : ask[a].op = "complete" /\ at[a] = "done" =>
        \A i \in LineNumbers :
            Variance(seen[a], i) # 0 => stage[<<a, i>>] = "recorded"

\* "Rejects any transition out of completed", while calls do not overlap.
CompletedIsFinal ==
    [][count.status = "completed" /\ ~ overlapped => count'.status = "completed"]_countVars

\* What one call recorded, a call for another line keeps: "allows recording
\* counts for multiple lines independently", while calls do not overlap.
RecordedCountsKept ==
    [][\A i \in LineNumbers : count'.counted[i] # count.counted[i] /\ ~ overlapped =>
          \E a \in CountCalls : at[a] = "read" /\ at'[a] = "done" /\ ask[a].line = i]_countVars

=============================================================================
