----------------------- MODULE MissionSchedulerProofs -----------------------
(***************************************************************************)
(* Theorems about MissionScheduler, for any missions, retry limit and      *)
(* number of overlapping requests, failures and restarts.                  *)
(***************************************************************************)
EXTENDS MissionScheduler, FiniteSetTheorems, TLAPS

Executing == {"running", "triggered"} \cup Outcomes

\* Attempts that are stored or held were accepted as retries.
AttemptsInv ==
    /\ \A m \in Missions : mission[m].attempts <= retried[m]
    /\ \A c \in Calls : call[c].row.attempts <= retried[call[c].on]

\* RUNNING is saved by a request that still has to save an outcome.
RunningInv ==
    \A m \in Missions : mission[m].status = "RUNNING" =>
        \/ m \in faulted
        \/ \E c \in Calls : call[c].op = "execute" /\ call[c].on = m /\ call[c].step \in Executing

\* What executeMission holds after its call of the target service.
OutcomeInv ==
    \A c \in Calls :
        /\ call[c].step \in Executing \cup {"saved"} => call[c].op = "execute"
        /\ call[c].step = "saved" => call[c].row.status \in Outcomes

\* The requests that have executed mission m with outcome o and not recorded it.
Unrecorded(m, o) ==
    {c \in Calls : /\ call[c].on = m
                   /\ call[c].step = o \/ (call[c].step = "saved" /\ call[c].row.status = o)}

HistoryInv ==
    \A m \in Missions, o \in Outcomes :
        LET recorded == history[m][o] + Cardinality(Unrecorded(m, o))
        IN  recorded <= ran[m][o] /\ (m \notin faulted => recorded = ran[m][o])

SchedulerInv ==
    /\ SchedulerTypeOK
    /\ AttemptsInv
    /\ RunningInv
    /\ OutcomeInv
    /\ UpcomingIsQueued
    /\ DeadAfterRetries

LEMMA InitSchedulerInv == SchedulerInit => SchedulerInv
  <1> SUFFICES ASSUME SchedulerInit PROVE SchedulerInv
    OBVIOUS
  <1>1. (CHOOSE m \in Missions : TRUE) \in Missions
    BY SchedulerAssumption
  <1>2. SchedulerTypeOK
    BY <1>1, SchedulerAssumption
       DEF SchedulerInit, SchedulerTypeOK, Row, NoRow, Statuses, Operations, Steps, Over
  <1>3. AttemptsInv /\ RunningInv /\ OutcomeInv /\ UpcomingIsQueued /\ DeadAfterRetries
    BY <1>1 DEF SchedulerInit, NoRow, AttemptsInv, RunningInv, OutcomeInv, Executing, Outcomes,
                UpcomingIsQueued, DeadAfterRetries
  <1>4. QED
    BY <1>2, <1>3 DEF SchedulerInv

\* The steps of scheduleMission.
LEMMA SchedulingKeepsInv ==
    ASSUME SchedulerInv, NEW m \in Missions,
           SaveScheduled(m) \/ PublishScheduled(m) \/ Enqueue(m) \/ SchedulingFails(m)
    PROVE  SchedulerInv'
  <1> USE DEF SchedulerInv, ghosts, stores
  <1>1. ASSUME SaveScheduled(m) PROVE SchedulerInv'
    <2>1. PICK s \in {"SCHEDULED", "PENDING"} :
              mission' = [mission EXCEPT ![m] = [status |-> s, attempts |-> 0]]
      BY <1>1 DEF SaveScheduled
    <2>2. [status |-> s, attempts |-> 0] \in Row
      BY SchedulerAssumption DEF Row, Statuses
    <2>3. SchedulerTypeOK'
      BY <1>1, <2>1, <2>2 DEF SaveScheduled, SchedulerTypeOK
    <2>4. AttemptsInv'
      BY <1>1, <2>1 DEF SaveScheduled, AttemptsInv, SchedulerTypeOK
    <2>5. RunningInv' /\ OutcomeInv' /\ DeadAfterRetries' /\ UpcomingIsQueued'
      BY <1>1, <2>1 DEF SaveScheduled, RunningInv, OutcomeInv, DeadAfterRetries,
                        UpcomingIsQueued, SchedulerTypeOK
    <2>6. QED
      BY <2>3, <2>4, <2>5
  <1>2. ASSUME PublishScheduled(m) PROVE SchedulerInv'
    <2>1. SchedulerTypeOK'
      BY <1>2 DEF PublishScheduled, SchedulerTypeOK
    <2>2. AttemptsInv' /\ RunningInv' /\ OutcomeInv' /\ DeadAfterRetries' /\ UpcomingIsQueued'
      BY <1>2 DEF PublishScheduled, AttemptsInv, RunningInv, OutcomeInv, DeadAfterRetries,
                  UpcomingIsQueued, SchedulerTypeOK
    <2>3. QED
      BY <2>1, <2>2
  <1>3. ASSUME Enqueue(m) PROVE SchedulerInv'
    <2>1. SchedulerTypeOK'
      BY <1>3 DEF Enqueue, SchedulerTypeOK, Over
    <2>2. AttemptsInv' /\ RunningInv' /\ OutcomeInv' /\ DeadAfterRetries' /\ UpcomingIsQueued'
      BY <1>3 DEF Enqueue, AttemptsInv, RunningInv, OutcomeInv, DeadAfterRetries,
                  UpcomingIsQueued, SchedulerTypeOK, Absent
    <2>3. QED
      BY <2>1, <2>2
  <1>4. ASSUME SchedulingFails(m) PROVE SchedulerInv'
    <2>1. memory' = memory \/ memory' = [memory EXCEPT ![m] = 0]
      BY <1>4 DEF SchedulingFails
    <2>2. SchedulerTypeOK'
      BY <1>4, <2>1 DEF SchedulingFails, SchedulerTypeOK, Over
    <2>3. AttemptsInv' /\ RunningInv' /\ OutcomeInv' /\ DeadAfterRetries'
      BY <1>4 DEF SchedulingFails, AttemptsInv, RunningInv, OutcomeInv, DeadAfterRetries
    <2>4. UpcomingIsQueued'
      BY <1>4, <2>1 DEF SchedulingFails, UpcomingIsQueued, SchedulerTypeOK, Absent
    <2>5. QED
      BY <2>2, <2>3, <2>4
  <1>5. QED
    BY <1>1, <1>2, <1>3, <1>4

\* What every step of a request does, as far as the invariant is concerned: it
\* goes to step s with a row in hand, and may save a row r.
RequestStep(c, s, row) ==
    /\ Holding(c, row, s) /\ s \in Steps /\ row \in Row
    /\ row.attempts <= retried[call[c].on]
    /\ s \in Executing \cup {"saved"} => call[c].op = "execute"
    /\ s = "saved" => row.status \in Outcomes
    /\ call[c].step \in Executing =>
          \/ s \in Executing
          \/ mission'[call[c].on].status # "RUNNING" \/ call[c].on \in faulted'
    /\ jobs' = jobs /\ planning' = planning /\ faulted \subseteq faulted'
    /\ \A m \in Missions : retried[m] <= retried'[m] /\ retried'[m] \in Nat
    /\ \A m \in Missions : memory[m] # Absent => memory'[m] # Absent

RowSaved(c, s, r) ==
    /\ SaveMission(c, r) /\ r \in Row
    /\ r.attempts <= retried'[call[c].on]
    /\ r.status \notin {"PENDING", "SCHEDULED"}
    /\ r.status = "DEAD_LETTER" => retried[call[c].on] >= MaxRetryAttempts
    /\ r.status = "RUNNING" => s \in Executing

LEMMA RequestStepKeepsInv ==
    ASSUME SchedulerInv, NEW c \in Calls, NEW s, NEW row, RequestStep(c, s, row),
           mission' = mission \/ \E r : RowSaved(c, s, r)
    PROVE  /\ AttemptsInv' /\ RunningInv' /\ OutcomeInv' /\ UpcomingIsQueued' /\ DeadAfterRetries'
           /\ call' \in [Calls -> [op : Operations, on : Missions, step : Steps, row : Row]]
           /\ mission' \in [Missions -> Row]
  <1> DEFINE m == call[c].on
  <1>1. m \in Missions /\ call[c].op \in Operations
    BY DEF SchedulerInv, SchedulerTypeOK
  <1>2. call' \in [Calls -> [op : Operations, on : Missions, step : Steps, row : Row]]
    BY <1>1 DEF SchedulerInv, SchedulerTypeOK, RequestStep, Holding
  <1>3. /\ call'[c].op = call[c].op /\ call'[c].on = m /\ call'[c].step = s /\ call'[c].row = row
        /\ \A d \in Calls : d # c => call'[d] = call[d]
    BY DEF SchedulerInv, SchedulerTypeOK, RequestStep, Holding
  <1>4. /\ mission' \in [Missions -> Row]
        /\ \A n \in Missions : n # m => mission'[n] = mission[n]
        /\ mission'[m] = mission[m] \/ RowSaved(c, s, mission'[m])
    BY <1>1 DEF SchedulerInv, SchedulerTypeOK, RowSaved, SaveMission
  <1>5. \A n \in Missions : /\ retried[n] \in Nat /\ retried'[n] \in Nat /\ retried[n] <= retried'[n]
                            /\ mission[n].attempts \in Nat /\ mission'[n].attempts \in Nat
    BY <1>4, SchedulerAssumption DEF SchedulerInv, SchedulerTypeOK, RequestStep, Row
  <1>6. \A d \in Calls : call[d].on \in Missions /\ call[d].row.attempts \in Nat
    BY SchedulerAssumption DEF SchedulerInv, SchedulerTypeOK, Row
  <1>7. row.attempts \in Nat
    BY SchedulerAssumption DEF RequestStep, Row
  <1>8. AttemptsInv'
    <2>1. \A n \in Missions : mission'[n].attempts <= retried'[n]
      BY <1>4, <1>5 DEF SchedulerInv, AttemptsInv, RowSaved
    <2>2. \A d \in Calls : call'[d].row.attempts <= retried'[call'[d].on]
      BY <1>1, <1>3, <1>5, <1>6, <1>7 DEF SchedulerInv, AttemptsInv, RequestStep
    <2>3. QED
      BY <2>1, <2>2 DEF AttemptsInv
  <1>9. RunningInv'
    <2> SUFFICES ASSUME NEW n \in Missions, mission'[n].status = "RUNNING", n \notin faulted'
                 PROVE  \E d \in Calls : call'[d].op = "execute" /\ call'[d].on = n
                                         /\ call'[d].step \in Executing
      BY DEF RunningInv
    <2>1. CASE n = m /\ s \in Executing
      BY <2>1, <1>3 DEF RequestStep
    <2>2. CASE ~ (n = m /\ s \in Executing)
      <3>1. mission[n].status = "RUNNING" /\ n \notin faulted
        BY <2>2, <1>4 DEF RowSaved, RequestStep
      <3>2. PICK d \in Calls : call[d].op = "execute" /\ call[d].on = n /\ call[d].step \in Executing
        BY <3>1 DEF SchedulerInv, RunningInv
      <3>3. d # c
        BY <2>2, <3>2 DEF RequestStep
      <3>4. QED
        BY <3>2, <3>3, <1>3
    <2>3. QED
      BY <2>1, <2>2
  <1>10. OutcomeInv'
    BY <1>3 DEF SchedulerInv, OutcomeInv, RequestStep
  <1>11. UpcomingIsQueued'
    BY <1>1, <1>4 DEF SchedulerInv, UpcomingIsQueued, RequestStep, RowSaved
  <1>12. DeadAfterRetries'
    BY <1>1, <1>4, <1>5, SchedulerAssumption DEF SchedulerInv, DeadAfterRetries, RowSaved
  <1>13. QED
    BY <1>2, <1>4, <1>8, <1>9, <1>10, <1>11, <1>12

LEMMA RowFacts ==
    ASSUME SchedulerInv, NEW c \in Calls
    PROVE  /\ NoRow \in Row /\ NoRow.attempts = 0 /\ call[c].on \in Missions
           /\ call[c].row \in Row /\ call[c].row.attempts \in 0..MaxRetryAttempts
           /\ call[c].row.attempts <= retried[call[c].on]
           /\ \A m \in Missions : retried[m] \in Nat
           /\ \A status \in Statuses : /\ With(c, status) \in Row
                                       /\ With(c, status).status = status
                                       /\ With(c, status).attempts = call[c].row.attempts
  BY SchedulerAssumption
     DEF SchedulerInv, SchedulerTypeOK, AttemptsInv, NoRow, Row, Statuses, With

LEMMA CancelKeepsInv ==
    ASSUME SchedulerInv, NEW c \in Calls, CancelMission(c)
    PROVE  SchedulerInv'
  <1>1. RequestStep(c, "done", NoRow)
    BY RowFacts DEF CancelMission, End, RequestStep, Steps, Over, Executing, Outcomes, ghosts
  <1>2. RowSaved(c, "done", With(c, "CANCELLED"))
    BY RowFacts DEF CancelMission, RowSaved, Statuses, ghosts
  <1>3. QED
    BY <1>1, <1>2, RequestStepKeepsInv DEF CancelMission, SchedulerInv, SchedulerTypeOK, ghosts

LEMMA SaveRunningKeepsInv ==
    ASSUME SchedulerInv, NEW c \in Calls, SaveRunning(c)
    PROVE  SchedulerInv'
  <1>1. RequestStep(c, "running", With(c, "RUNNING"))
    BY RowFacts DEF SaveRunning, RequestStep, Steps, Statuses, Executing, Outcomes, ghosts
  <1>2. RowSaved(c, "running", With(c, "RUNNING"))
    BY RowFacts DEF SaveRunning, RowSaved, Statuses, Executing, ghosts
  <1>3. QED
    BY <1>1, <1>2, RequestStepKeepsInv DEF SaveRunning, SchedulerInv, SchedulerTypeOK, ghosts

LEMMA PublishKeepsInv ==
    ASSUME SchedulerInv, NEW c \in Calls, PublishTriggered(c)
    PROVE  SchedulerInv'
  <1>1. RequestStep(c, "triggered", call[c].row)
    BY RowFacts DEF PublishTriggered, Step, RequestStep, Steps, Executing, Outcomes, OutcomeInv,
                    SchedulerInv, stores, ghosts
  <1>2. QED
    BY <1>1, RequestStepKeepsInv DEF PublishTriggered, SchedulerInv, SchedulerTypeOK, stores, ghosts

LEMMA ExecuteKeepsInv ==
    ASSUME SchedulerInv, NEW c \in Calls, Execute(c)
    PROVE  SchedulerInv'
  <1>1. PICK o \in Outcomes : Step(c, o) /\ ran' = [ran EXCEPT ![call[c].on][o] = @ + 1]
    BY DEF Execute, Outcomes
  <1>2. RequestStep(c, o, call[c].row)
    BY <1>1, RowFacts DEF Execute, Step, RequestStep, Steps, Executing, Outcomes, OutcomeInv,
                          SchedulerInv, stores
  <1>3. ran' \in [Missions -> [Outcomes -> Nat]]
    BY <1>1, RowFacts DEF SchedulerInv, SchedulerTypeOK
  <1>4. QED
    BY <1>2, <1>3, RequestStepKeepsInv DEF Execute, SchedulerInv, SchedulerTypeOK, stores

LEMMA SaveOutcomeKeepsInv ==
    ASSUME SchedulerInv, NEW c \in Calls, SaveOutcome(c)
    PROVE  SchedulerInv'
  <1> DEFINE row == With(c, call[c].step)
  <1>1. /\ row \in Row /\ row.status = call[c].step /\ row.status \in Outcomes
        /\ row.attempts <= retried[call[c].on]
    BY RowFacts DEF SaveOutcome, Statuses
  <1>2. SaveMission(c, row) /\ Holding(c, row, "saved")
    BY DEF SaveOutcome
  <1>3. mission'[call[c].on] = row
    BY <1>2, RowFacts DEF SaveMission, SchedulerInv, SchedulerTypeOK
  <1> HIDE DEF row
  <1>4. RequestStep(c, "saved", row)
    BY <1>1, <1>2, <1>3, RowFacts DEF SaveOutcome, RequestStep, Steps, Executing, Outcomes,
                                       OutcomeInv, SchedulerInv, ghosts
  <1>5. RowSaved(c, "saved", row)
    BY <1>1, <1>2, RowFacts DEF SaveOutcome, RowSaved, Outcomes, ghosts
  <1>6. QED
    BY <1>4, <1>5, RequestStepKeepsInv DEF SaveOutcome, SchedulerInv, SchedulerTypeOK, ghosts

LEMMA RecordKeepsInv ==
    ASSUME SchedulerInv, NEW c \in Calls, RecordHistory(c)
    PROVE  SchedulerInv'
  <1>1. RequestStep(c, "done", NoRow)
    BY RowFacts DEF RecordHistory, End, RequestStep, Steps, Over, Executing, Outcomes, ghosts
  <1>2. call[c].row.status \in Outcomes
    BY DEF RecordHistory, SchedulerInv, OutcomeInv
  <1>3. history' \in [Missions -> [Outcomes -> Nat]]
    BY <1>2, RowFacts DEF RecordHistory, SchedulerInv, SchedulerTypeOK
  <1>4. QED
    BY <1>1, <1>3, RequestStepKeepsInv DEF RecordHistory, SchedulerInv, SchedulerTypeOK, ghosts

LEMMA DeadLetterKeepsInv ==
    ASSUME SchedulerInv, NEW c \in Calls, DeadLetter(c)
    PROVE  SchedulerInv'
  <1>1. RequestStep(c, "done", NoRow)
    BY RowFacts DEF DeadLetter, End, RequestStep, Steps, Over, Executing, Outcomes, ghosts
  <1>2. RowSaved(c, "done", With(c, "DEAD_LETTER"))
    BY RowFacts, SchedulerAssumption DEF DeadLetter, Exhausted, RowSaved, Statuses, ghosts
  <1>3. QED
    BY <1>1, <1>2, RequestStepKeepsInv DEF DeadLetter, SchedulerInv, SchedulerTypeOK, ghosts

LEMMA RetryKeepsInv ==
    ASSUME SchedulerInv, NEW c \in Calls, RetryMission(c)
    PROVE  SchedulerInv'
  <1> DEFINE row == [status |-> "RETRYING", attempts |-> call[c].row.attempts + 1]
  <1>1. SaveMission(c, row) /\ Holding(c, NoRow, "requeue")
        /\ retried' = [retried EXCEPT ![call[c].on] = @ + 1]
    BY DEF RetryMission
  <1>2. /\ row \in Row /\ row.status = "RETRYING"
        /\ row.attempts <= retried'[call[c].on] /\ retried' \in [Missions -> Nat]
        /\ \A m \in Missions : retried[m] <= retried'[m] /\ retried'[m] \in Nat
    BY <1>1, RowFacts, SchedulerAssumption
       DEF RetryMission, Exhausted, Row, Statuses, SchedulerInv, SchedulerTypeOK
  <1> HIDE DEF row
  <1>3. RequestStep(c, "requeue", NoRow)
    BY <1>1, <1>2, RowFacts DEF RetryMission, RequestStep, Steps, Executing, Outcomes
  <1>4. RowSaved(c, "requeue", row)
    BY <1>1, <1>2 DEF RowSaved
  <1>5. QED
    BY <1>2, <1>3, <1>4, RequestStepKeepsInv DEF RetryMission, SchedulerInv, SchedulerTypeOK

LEMMA RequeueKeepsInv ==
    ASSUME SchedulerInv, NEW c \in Calls, Requeue(c)
    PROVE  SchedulerInv'
  <1>1. /\ memory' \in [Missions -> Nat \cup {Absent}]
        /\ \A m \in Missions : memory[m] # Absent => memory'[m] # Absent
    BY RowFacts DEF Requeue, SchedulerInv, SchedulerTypeOK, Absent
  <1>2. RequestStep(c, "done", NoRow)
    BY <1>1, RowFacts DEF Requeue, End, RequestStep, Steps, Over, Executing, Outcomes, ghosts
  <1>3. QED
    BY <1>1, <1>2, RequestStepKeepsInv DEF Requeue, SchedulerInv, SchedulerTypeOK, ghosts

LEMMA RequestFailsKeepsInv ==
    ASSUME SchedulerInv, NEW c \in Calls, RequestFails(c)
    PROVE  SchedulerInv'
  <1>1. RequestStep(c, "failed", NoRow)
    BY RowFacts DEF RequestFails, End, RequestStep, Steps, Over, Executing, Outcomes, stores
  <1>2. QED
    BY <1>1, RowFacts, RequestStepKeepsInv DEF RequestFails, SchedulerInv, SchedulerTypeOK, stores

LEMMA ReadKeepsInv ==
    ASSUME SchedulerInv, NEW c \in Calls, NEW op \in Operations, NEW m \in Missions, Read(c, op, m)
    PROVE  SchedulerInv'
  <1> USE DEF SchedulerInv, Read, stores, ghosts
  <1>1. SchedulerTypeOK'
    BY DEF SchedulerTypeOK, Steps
  <1>2. \A d \in Calls : d # c => call'[d] = call[d]
    BY DEF SchedulerTypeOK
  <1>3. call[c].step = "idle" /\ call'[c].row = mission[m] /\ call'[c].on = m /\ call'[c].step = "read"
    BY DEF SchedulerTypeOK
  <1>4. AttemptsInv'
    BY <1>2, <1>3 DEF AttemptsInv
  <1>5. RunningInv' /\ OutcomeInv'
    BY <1>2, <1>3 DEF RunningInv, OutcomeInv, Executing, Outcomes
  <1>6. UpcomingIsQueued' /\ DeadAfterRetries'
    BY DEF UpcomingIsQueued, DeadAfterRetries
  <1>7. QED
    BY <1>1, <1>4, <1>5, <1>6

LEMMA RestartKeepsInv ==
    ASSUME SchedulerInv, Restart
    PROVE  SchedulerInv'
  <1> USE DEF SchedulerInv, Restart
  <1>1. \A d \in Calls :
            /\ \/ call'[d] = call[d]
               \/ call'[d].row = NoRow /\ call'[d].step = "failed"
            /\ call'[d].op = call[d].op /\ call'[d].on = call[d].on
    BY DEF SchedulerTypeOK
  <1>2. SchedulerTypeOK'
    <2>1. call' \in [Calls -> [op : Operations, on : Missions, step : Steps, row : Row]]
      BY RowFacts DEF SchedulerTypeOK, Steps, Over
    <2>2. QED
      BY <2>1, SchedulerAssumption DEF SchedulerTypeOK, Over
  <1>3. AttemptsInv'
    BY <1>1, RowFacts DEF AttemptsInv
  <1>4. OutcomeInv'
    BY <1>1 DEF OutcomeInv, Executing, Outcomes
  <1>5. RunningInv' /\ UpcomingIsQueued' /\ DeadAfterRetries'
    BY DEF RunningInv, UpcomingIsQueued, DeadAfterRetries
  <1>6. QED
    BY <1>2, <1>3, <1>4, <1>5

LEMMA SchedulerStepKeepsInv == SchedulerInv /\ [SchedulerNext]_schedulerVars => SchedulerInv'
  <1> SUFFICES ASSUME SchedulerInv, [SchedulerNext]_schedulerVars PROVE SchedulerInv'
    OBVIOUS
  <1>1. ASSUME NEW m \in Missions,
               SaveScheduled(m) \/ PublishScheduled(m) \/ Enqueue(m) \/ SchedulingFails(m)
        PROVE  SchedulerInv'
    BY <1>1, SchedulingKeepsInv
  <1>2. ASSUME NEW c \in Calls, NEW op \in Operations, NEW m \in Missions, Read(c, op, m)
        PROVE  SchedulerInv'
    BY <1>2, ReadKeepsInv
  <1>3. ASSUME NEW c \in Calls, Proceed(c) PROVE SchedulerInv'
    BY <1>3, CancelKeepsInv, SaveRunningKeepsInv, PublishKeepsInv, ExecuteKeepsInv,
       SaveOutcomeKeepsInv, RecordKeepsInv, DeadLetterKeepsInv, RetryKeepsInv, RequeueKeepsInv
       DEF Proceed
  <1>4. ASSUME NEW c \in Calls, RequestFails(c) PROVE SchedulerInv'
    BY <1>4, RequestFailsKeepsInv
  <1>5. CASE Restart
    BY <1>5, RestartKeepsInv
  <1>6. CASE UNCHANGED schedulerVars
    BY <1>6 DEF schedulerVars, stores, ghosts, SchedulerInv, SchedulerTypeOK, AttemptsInv,
                RunningInv, OutcomeInv, UpcomingIsQueued, DeadAfterRetries
  <1>7. QED
    BY <1>1, <1>2, <1>3, <1>4, <1>5, <1>6 DEF SchedulerNext

\* Every reachable state of the scheduler satisfies the inductive invariant.
THEOREM SchedulerInvariant == SchedulerSpec => []SchedulerInv
  BY InitSchedulerInv, SchedulerStepKeepsInv, PTL DEF SchedulerSpec

\* Rows, queue entries and requests are always well typed; in particular no
\* mission counts more attempts than the limit, whatever overlaps.
THEOREM SchedulerTypes == SchedulerSpec => []SchedulerTypeOK
  <1>1. SchedulerInv => SchedulerTypeOK
    BY DEF SchedulerInv
  <1>2. QED
    BY <1>1, SchedulerInvariant, PTL

\* executeMission leaves a mission RUNNING only while it goes on, or if a failed
\* await or a restart ended it.
THEOREM RunningIsExecuted == SchedulerSpec => []RunningHasRequest
  <1>1. SchedulerInv => RunningHasRequest
    BY DEF SchedulerInv, RunningInv, RunningHasRequest, CallsOn, InProgress, Executing, Outcomes, Over
  <1>2. QED
    BY <1>1, SchedulerInvariant, PTL

\* scheduleMission leaves every upcoming mission with a job, unless it failed.
THEOREM UpcomingHasJob == SchedulerSpec => []UpcomingIsQueued
  <1>1. SchedulerInv => UpcomingIsQueued
    BY DEF SchedulerInv
  <1>2. QED
    BY <1>1, SchedulerInvariant, PTL

\* retryMission dead-letters a mission only after MaxRetryAttempts retries of
\* it were accepted, however many requests overlap.
THEOREM DeadLetterAfterRetries == SchedulerSpec => []DeadAfterRetries
  <1>1. SchedulerInv => DeadAfterRetries
    BY DEF SchedulerInv
  <1>2. QED
    BY <1>1, SchedulerInvariant, PTL

-----------------------------------------------------------------------------
\* The execution history.

LEMMA UnrecordedFinite ==
    ASSUME NEW m, NEW o
    PROVE  IsFiniteSet(Unrecorded(m, o)) /\ Cardinality(Unrecorded(m, o)) \in Nat
  <1>1. Unrecorded(m, o) \subseteq Calls
    BY DEF Unrecorded
  <1>2. QED
    BY <1>1, SchedulerAssumption, FS_Subset, FS_CardinalityType

LEMMA InitHistoryInv == SchedulerInit => HistoryInv
  <1> SUFFICES ASSUME SchedulerInit, NEW m \in Missions, NEW o \in Outcomes
               PROVE  HistoryInv!(m, o)
    BY DEF HistoryInv
  <1>1. Unrecorded(m, o) = {}
    BY DEF SchedulerInit, Unrecorded, Outcomes
  <1>2. QED
    BY <1>1, FS_EmptySet DEF SchedulerInit

\* A step that executes or records nothing keeps the invariant, if the missions
\* whose unrecorded executions it forgets are faulted by it.
LEMMA HistoryFrame ==
    ASSUME SchedulerInv, HistoryInv, history' = history, ran' = ran, faulted \subseteq faulted',
           \A m \in Missions, o \in Outcomes :
               /\ Unrecorded(m, o)' \subseteq Unrecorded(m, o)
               /\ m \notin faulted' => Unrecorded(m, o)' = Unrecorded(m, o)
    PROVE  HistoryInv'
  <1> SUFFICES ASSUME NEW m \in Missions, NEW o \in Outcomes PROVE HistoryInv!(m, o)'
    BY DEF HistoryInv
  <1>1. /\ Cardinality(Unrecorded(m, o)') <= Cardinality(Unrecorded(m, o))
        /\ Cardinality(Unrecorded(m, o)') \in Nat /\ Cardinality(Unrecorded(m, o)) \in Nat
    BY UnrecordedFinite, FS_Subset, FS_CardinalityType
  <1>2. history[m][o] \in Nat /\ ran[m][o] \in Nat
    BY DEF SchedulerInv, SchedulerTypeOK
  <1>3. /\ history[m][o] + Cardinality(Unrecorded(m, o)) <= ran[m][o]
        /\ m \notin faulted => history[m][o] + Cardinality(Unrecorded(m, o)) = ran[m][o]
    BY DEF HistoryInv
  <1>4. m \notin faulted' =>
            m \notin faulted /\ Cardinality(Unrecorded(m, o)') = Cardinality(Unrecorded(m, o))
    OBVIOUS
  <1>5. QED
    BY <1>1, <1>2, <1>3, <1>4

\* A request that goes on changes what is unrecorded by itself at most.
LEMMA HoldingUnrecorded ==
    ASSUME SchedulerInv, NEW c \in Calls, NEW row, NEW s, Holding(c, row, s)
    PROVE  \A m \in Missions, o \in Outcomes :
               Unrecorded(m, o)' = (Unrecorded(m, o) \ {c}) \cup
                   (IF call[c].on = m /\ (s = o \/ (s = "saved" /\ row.status = o)) THEN {c} ELSE {})
  BY DEF Holding, SchedulerInv, SchedulerTypeOK, Unrecorded

LEMMA ExecuteKeepsHistory ==
    ASSUME SchedulerInv, HistoryInv, NEW c \in Calls, Execute(c)
    PROVE  HistoryInv'
  <1>1. PICK x \in Outcomes : Holding(c, call[c].row, x) /\ ran' = [ran EXCEPT ![call[c].on][x] = @ + 1]
    BY DEF Execute, Outcomes, Step
  <1>2. history' = history /\ faulted' = faulted
    BY DEF Execute, stores
  <1> SUFFICES ASSUME NEW m \in Missions, NEW o \in Outcomes PROVE HistoryInv!(m, o)'
    BY DEF HistoryInv
  <1>3. c \notin Unrecorded(m, o)
    BY DEF Execute, Unrecorded, Outcomes
  <1>4. Unrecorded(m, o)' = IF call[c].on = m /\ x = o THEN Unrecorded(m, o) \cup {c} ELSE Unrecorded(m, o)
    BY <1>1, <1>3, HoldingUnrecorded DEF Outcomes
  <1>5. Cardinality(Unrecorded(m, o) \cup {c}) = Cardinality(Unrecorded(m, o)) + 1
    BY <1>3, UnrecordedFinite, FS_AddElement
  <1>6. /\ ran[m][o] \in Nat
        /\ ran'[m][o] = IF call[c].on = m /\ x = o THEN ran[m][o] + 1 ELSE ran[m][o]
    BY <1>1 DEF SchedulerInv, SchedulerTypeOK
  <1>7. Cardinality(Unrecorded(m, o)) \in Nat /\ history[m][o] \in Nat
    BY UnrecordedFinite DEF SchedulerInv, SchedulerTypeOK
  <1>8. QED
    BY <1>2, <1>4, <1>5, <1>6, <1>7 DEF HistoryInv

LEMMA RecordKeepsHistory ==
    ASSUME SchedulerInv, HistoryInv, NEW c \in Calls, RecordHistory(c)
    PROVE  HistoryInv'
  <1> DEFINE x == call[c].row.status
  <1>1. /\ x \in Outcomes /\ Holding(c, NoRow, "done") /\ call[c].step = "saved"
        /\ history' = [history EXCEPT ![call[c].on][x] = @ + 1]
    BY DEF RecordHistory, End, SchedulerInv, OutcomeInv
  <1>2. ran' = ran /\ faulted' = faulted
    BY DEF RecordHistory, ghosts
  <1> SUFFICES ASSUME NEW m \in Missions, NEW o \in Outcomes PROVE HistoryInv!(m, o)'
    BY DEF HistoryInv
  <1>3. c \in Unrecorded(m, o) <=> call[c].on = m /\ x = o
    BY <1>1 DEF Unrecorded, Outcomes
  <1>4. Unrecorded(m, o)' = Unrecorded(m, o) \ {c}
    BY <1>1, HoldingUnrecorded DEF Outcomes
  <1>5. Cardinality(Unrecorded(m, o) \ {c}) =
            IF c \in Unrecorded(m, o) THEN Cardinality(Unrecorded(m, o)) - 1
            ELSE Cardinality(Unrecorded(m, o))
    BY UnrecordedFinite, FS_RemoveElement
  <1>6. /\ history[m][o] \in Nat
        /\ history'[m][o] = IF call[c].on = m /\ x = o THEN history[m][o] + 1 ELSE history[m][o]
    BY <1>1 DEF SchedulerInv, SchedulerTypeOK
  <1>7. Cardinality(Unrecorded(m, o)) \in Nat /\ ran[m][o] \in Nat
    BY UnrecordedFinite DEF SchedulerInv, SchedulerTypeOK
  <1> HIDE DEF x
  <1>8. QED
    BY <1>2, <1>3, <1>4, <1>5, <1>6, <1>7 DEF HistoryInv

LEMMA ProceedKeepsHistory ==
    ASSUME SchedulerInv, HistoryInv, NEW c \in Calls, Proceed(c)
    PROVE  HistoryInv'
  <1>1. ASSUME NEW row, NEW s, Holding(c, row, s), history' = history, ran' = ran, faulted' = faulted,
               call[c].step \notin Outcomes \cup {"saved"}, s \notin Outcomes \cup {"saved"}
        PROVE  HistoryInv'
    <2>1. \A m \in Missions, o \in Outcomes : Unrecorded(m, o)' = Unrecorded(m, o)
      BY <1>1, HoldingUnrecorded DEF Unrecorded
    <2>2. QED
      BY <1>1, <2>1, HistoryFrame
  <1>2. CASE SaveOutcome(c)
    <2>1. Holding(c, With(c, call[c].step), "saved") /\ history' = history /\ ran' = ran
          /\ faulted' = faulted /\ call[c].step \in Outcomes
      BY <1>2 DEF SaveOutcome, ghosts
    <2>2. \A m \in Missions, o \in Outcomes : Unrecorded(m, o)' = Unrecorded(m, o)
      BY <2>1, HoldingUnrecorded DEF Unrecorded, With, Outcomes
    <2>3. QED
      BY <2>1, <2>2, HistoryFrame
  <1>3. CASE CancelMission(c) \/ DeadLetter(c) \/ Requeue(c)
    BY <1>1, <1>3 DEF CancelMission, DeadLetter, Requeue, End, Outcomes, ghosts
  <1>4. CASE SaveRunning(c)
    BY <1>1, <1>4 DEF SaveRunning, Outcomes, ghosts
  <1>5. CASE PublishTriggered(c)
    BY <1>1, <1>5 DEF PublishTriggered, Step, Outcomes, stores, ghosts
  <1>6. CASE RetryMission(c)
    BY <1>1, <1>6 DEF RetryMission, Outcomes
  <1>7. QED
    BY <1>2, <1>3, <1>4, <1>5, <1>6, ExecuteKeepsHistory, RecordKeepsHistory DEF Proceed

LEMMA HistoryStepKeepsInv ==
    SchedulerInv /\ HistoryInv /\ [SchedulerNext]_schedulerVars => HistoryInv'
  <1> SUFFICES ASSUME SchedulerInv, HistoryInv, [SchedulerNext]_schedulerVars PROVE HistoryInv'
    OBVIOUS
  <1>1. ASSUME NEW m \in Missions,
               SaveScheduled(m) \/ PublishScheduled(m) \/ Enqueue(m) \/ SchedulingFails(m)
        PROVE  HistoryInv'
    BY <1>1, HistoryFrame
       DEF SaveScheduled, PublishScheduled, Enqueue, SchedulingFails, stores, ghosts, Unrecorded
  <1>2. ASSUME NEW c \in Calls, NEW op \in Operations, NEW m \in Missions, Read(c, op, m)
        PROVE  HistoryInv'
    <2>1. /\ call[c].step = "idle" /\ call'[c].step = "read" /\ \A d \in Calls : d # c => call'[d] = call[d]
          /\ history' = history /\ ran' = ran /\ faulted' = faulted
      BY <1>2 DEF Read, SchedulerInv, SchedulerTypeOK, stores, ghosts
    <2>2. \A n \in Missions, o \in Outcomes : Unrecorded(n, o)' = Unrecorded(n, o)
      BY <2>1 DEF Unrecorded, Outcomes
    <2>3. QED
      BY <2>1, <2>2, HistoryFrame
  <1>3. ASSUME NEW c \in Calls, RequestFails(c) PROVE HistoryInv'
    <2>1. Holding(c, NoRow, "failed") /\ history' = history /\ ran' = ran
          /\ faulted' = faulted \cup {call[c].on}
      BY <1>3 DEF RequestFails, End, stores
    <2>2. \A m \in Missions, o \in Outcomes :
              /\ Unrecorded(m, o)' = Unrecorded(m, o) \ {c}
              /\ m \notin faulted' => c \notin Unrecorded(m, o)
      BY <2>1, HoldingUnrecorded DEF Outcomes, Unrecorded
    <2>3. \A m \in Missions, o \in Outcomes :
              /\ Unrecorded(m, o)' \subseteq Unrecorded(m, o)
              /\ m \notin faulted' => Unrecorded(m, o)' = Unrecorded(m, o)
      BY <2>2
    <2>4. QED
      BY <2>1, <2>3, HistoryFrame
  <1>4. CASE Restart
    <2>1. \A d \in Calls : \/ call'[d] = call[d]
                           \/ call'[d].step = "failed"
      BY <1>4 DEF Restart
    <2>2. \A m \in Missions, o \in Outcomes : Unrecorded(m, o)' \subseteq Unrecorded(m, o)
      BY <2>1 DEF Unrecorded, Outcomes
    <2>3. history' = history /\ ran' = ran /\ faulted' = Missions /\ faulted \subseteq Missions
      BY <1>4 DEF Restart, SchedulerInv, SchedulerTypeOK
    <2>4. QED
      BY <2>2, <2>3, HistoryFrame
  <1>5. CASE UNCHANGED schedulerVars
    BY <1>5, HistoryFrame DEF schedulerVars, stores, ghosts, Unrecorded
  <1>6. QED
    BY <1>1, <1>2, <1>3, <1>4, <1>5, ProceedKeepsHistory DEF SchedulerNext

LEMMA HistoryInvComplete == SchedulerInv /\ HistoryInv => HistoryIsComplete
  <1> SUFFICES ASSUME SchedulerInv, HistoryInv, NEW m \in Missions
               PROVE  HistoryIsComplete!(m)
    BY DEF HistoryIsComplete
  <1>1. \A o \in Outcomes : /\ history[m][o] \in Nat /\ ran[m][o] \in Nat
                            /\ Cardinality(Unrecorded(m, o)) \in Nat
    BY UnrecordedFinite DEF SchedulerInv, SchedulerTypeOK
  <1>2. \A o \in Outcomes : history[m][o] <= ran[m][o]
    BY <1>1 DEF HistoryInv
  <1>3. ASSUME m \notin faulted, CallsOn(m, "execute") = {} PROVE history[m] = ran[m]
    <2>1. \A o \in Outcomes : Unrecorded(m, o) = {}
      BY <1>3 DEF CallsOn, InProgress, Unrecorded, SchedulerInv, OutcomeInv, Executing, Outcomes, Over
    <2>2. ASSUME NEW o \in Outcomes PROVE history[m][o] = ran[m][o]
      <3>1. history[m][o] + Cardinality(Unrecorded(m, o)) = ran[m][o]
        BY <1>3 DEF HistoryInv
      <3>2. Cardinality(Unrecorded(m, o)) = 0
        BY <2>1, FS_EmptySet
      <3>3. QED
        BY <1>1, <3>1, <3>2
    <2>3. QED
      BY <2>2 DEF SchedulerInv, SchedulerTypeOK
  <1>4. QED
    BY <1>2, <1>3

\* Every execution of a mission is recorded with its own outcome, however the
\* statuses overwrite each other, unless a failure or a restart came between.
THEOREM HistoryRecordsAll == SchedulerSpec => []HistoryIsComplete
  <1>1. SchedulerSpec => []HistoryInv
    BY SchedulerInvariant, InitHistoryInv, HistoryStepKeepsInv, PTL DEF SchedulerSpec
  <1>2. QED
    BY <1>1, SchedulerInvariant, HistoryInvComplete, PTL
=============================================================================
