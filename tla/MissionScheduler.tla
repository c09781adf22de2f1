-------------------------- MODULE MissionScheduler --------------------------
(***************************************************************************)
(* Missions of the mission scheduler service: scheduled, executed,         *)
(* cancelled and retried by requests that overlap.  Each request reads the *)
(* mission from the database and later saves what it read with the fields  *)
(* it changed.  Any await may fail, which ends the request there, and the  *)
(* process may restart: requests in progress and the memory half of the    *)
(* queue are lost; the database and the BullMQ jobs stay.  expiresAt is    *)
(* never set by the service, so that EXPIRED is left out.                  *)
(***************************************************************************)
EXTENDS Integers, FiniteSets

CONSTANTS
    Missions,
    Calls,            \* requests to execute, cancel or retry a mission
    MaxRetryAttempts, \* MAX_RETRY_ATTEMPTS
    MayFail,          \* the missions whose target service may refuse them
    MaxRestarts       \* bound on restarts

ASSUME SchedulerAssumption ==
    /\ Missions # {} /\ MayFail \subseteq Missions /\ IsFiniteSet(Calls)
    /\ MaxRetryAttempts \in Nat /\ MaxRestarts \in Nat

VARIABLES
    mission,  \* per mission: the row of the database
    jobs,     \* the missions with a job in BullMQ
    memory,   \* per mission: retries counted by the in-memory queue, or Absent
    history,  \* per mission and outcome: execution records
    planning, \* per mission: how far scheduleMission is
    call,     \* per request: operation, mission, step and the row it holds
    ran,      \* history: per mission and outcome, executions performed
    retried,  \* history: per mission, retries accepted
    faulted,  \* history: the missions a failure or a restart touched
    restarts

stores == <<mission, jobs, memory, history>>
ghosts == <<ran, retried, faulted, restarts>>
schedulerVars == <<stores, planning, call, ghosts>>

Absent == -1
Outcomes == {"COMPLETED", "FAILED"}
Statuses == {"none", "PENDING", "SCHEDULED", "RUNNING", "RETRYING", "DEAD_LETTER",
             "CANCELLED"} \cup Outcomes
Row == [status : Statuses, attempts : 0..MaxRetryAttempts]
Operations == {"execute", "cancel", "retry"}
Over == {"done", "failed"}
Steps == {"idle", "read", "running", "triggered", "saved", "requeue"} \cup Outcomes \cup Over

NoRow == [status |-> "none", attempts |-> 0]

SchedulerInit ==
    /\ mission = [m \in Missions |-> NoRow]
    /\ jobs = {}
    /\ memory = [m \in Missions |-> Absent]
    /\ history = [m \in Missions |-> [o \in Outcomes |-> 0]]
    /\ planning = [m \in Missions |-> "idle"]
    /\ call \in [Calls -> [op : {"execute"}, on : {CHOOSE m \in Missions : TRUE},
                           step : {"idle"}, row : {NoRow}]]
    /\ ran = [m \in Missions |-> [o \in Outcomes |-> 0]]
    /\ retried = [m \in Missions |-> 0]
    /\ faulted = {}
    /\ restarts = 0

-----------------------------------------------------------------------------
\* scheduleMission: save, publish MissionScheduled, enqueue.

SaveScheduled(m) ==
    /\ planning[m] = "idle"
    /\ \E s \in {"SCHEDULED", "PENDING"} :   \* mode IMMEDIATE or another
           mission' = [mission EXCEPT ![m] = [status |-> s, attempts |-> 0]]
    /\ planning' = [planning EXCEPT ![m] = "saved"]
    /\ UNCHANGED <<jobs, memory, history, call, ghosts>>

PublishScheduled(m) ==
    /\ planning[m] = "saved"
    /\ planning' = [planning EXCEPT ![m] = "published"]
    /\ UNCHANGED <<stores, call, ghosts>>

\* Faulty: the call answers before it enqueues.
EnqueueLater(m) ==
    /\ planning[m] = "published"
    /\ planning' = [planning EXCEPT ![m] = "done"]
    /\ UNCHANGED <<stores, call, ghosts>>

Enqueue(m) ==
    /\ planning[m] = "published"
    /\ memory' = [memory EXCEPT ![m] = 0]
    /\ jobs' = jobs \cup {m}
    /\ planning' = [planning EXCEPT ![m] = "done"]
    /\ UNCHANGED <<mission, history, call, ghosts>>

\* The save, the publication or Redis fails; the memory entry comes first.
SchedulingFails(m) ==
    /\ planning[m] \in {"saved", "published"}
    /\ planning' = [planning EXCEPT ![m] = "failed"]
    /\ memory' \in {memory} \cup
           IF planning[m] = "published" THEN {[memory EXCEPT ![m] = 0]} ELSE {}
    /\ faulted' = faulted \cup {m}
    /\ UNCHANGED <<mission, jobs, history, call, ran, retried, restarts>>

-----------------------------------------------------------------------------
\* Requests.  saveMission writes the row the request holds, with its changes.

Holding(c, row, s) ==
    call' = [call EXCEPT ![c] = [op |-> @.op, on |-> @.on, step |-> s, row |-> row]]
Step(c, s) == Holding(c, call[c].row, s)
End(c, s) == Holding(c, NoRow, s)

SaveMission(c, row) == mission' = [mission EXCEPT ![call[c].on] = row]
With(c, status) == [status |-> status, attempts |-> call[c].row.attempts]

Read(c, op, m) ==
    /\ call[c].step = "idle" /\ mission[m].status # "none"
    /\ call' = [call EXCEPT ![c] = [op |-> op, on |-> m, step |-> "read", row |-> mission[m]]]
    /\ UNCHANGED <<stores, planning, ghosts>>

CancelMission(c) ==
    /\ call[c].step = "read" /\ call[c].op = "cancel"
    /\ SaveMission(c, With(c, "CANCELLED")) /\ End(c, "done")
    /\ UNCHANGED <<jobs, memory, history, planning, ghosts>>

\* executeMission marks the mission, ...
SaveRunning(c) ==
    /\ call[c].step = "read" /\ call[c].op = "execute"
    /\ SaveMission(c, With(c, "RUNNING")) /\ Holding(c, With(c, "RUNNING"), "running")
    /\ UNCHANGED <<jobs, memory, history, planning, ghosts>>

\* ... publishes MissionTriggered, ...
PublishTriggered(c) ==
    /\ call[c].step = "running"
    /\ Step(c, "triggered")
    /\ UNCHANGED <<stores, planning, ghosts>>

\* ... calls the target service, whose failure is an outcome, ...
Execute(c) ==
    /\ call[c].step = "triggered"
    /\ \E o \in IF call[c].on \in MayFail THEN Outcomes ELSE {"COMPLETED"} :
          /\ Step(c, o)
          /\ ran' = [ran EXCEPT ![call[c].on][o] = @ + 1]
    /\ UNCHANGED <<stores, planning, retried, faulted, restarts>>

\* Faulty: only a success is saved.
SaveSuccess(c) ==
    /\ call[c].step \in Outcomes
    /\ IF call[c].step = "COMPLETED" THEN SaveMission(c, With(c, "COMPLETED")) ELSE mission' = mission
    /\ End(c, "done")
    /\ UNCHANGED <<jobs, memory, history, planning, ghosts>>

\* ... saves the outcome ...
SaveOutcome(c) ==
    /\ call[c].step \in Outcomes
    /\ LET row == With(c, call[c].step) IN SaveMission(c, row) /\ Holding(c, row, "saved")
    /\ UNCHANGED <<jobs, memory, history, planning, ghosts>>

\* Faulty: the record copies the status the mission has by now.
RecordCurrentStatus(c) ==
    /\ call[c].step = "saved"
    /\ LET m == call[c].on IN history' = [history EXCEPT ![m] =
           [o \in Outcomes |-> IF o = mission[m].status THEN @[o] + 1 ELSE @[o]]]
    /\ End(c, "done")
    /\ UNCHANGED <<mission, jobs, memory, planning, ghosts>>

\* ... and records it.
RecordHistory(c) ==
    /\ call[c].step = "saved"
    /\ history' = [history EXCEPT ![call[c].on][call[c].row.status] = @ + 1]
    /\ End(c, "done")
    /\ UNCHANGED <<mission, jobs, memory, planning, ghosts>>

\* Faulty: one attempt too early.
ExhaustedEarly(c) == call[c].row.attempts + 1 >= MaxRetryAttempts
Exhausted(c) == call[c].row.attempts >= MaxRetryAttempts

DeadLetter(c) ==
    /\ call[c].step = "read" /\ call[c].op = "retry" /\ Exhausted(c)
    /\ SaveMission(c, With(c, "DEAD_LETTER")) /\ End(c, "done")
    /\ UNCHANGED <<jobs, memory, history, planning, ghosts>>

\* retryMission saves the mission and one attempt more, ...
RetryMission(c) ==
    /\ call[c].step = "read" /\ call[c].op = "retry" /\ ~ Exhausted(c)
    /\ LET m == call[c].on
           row == [status |-> "RETRYING", attempts |-> call[c].row.attempts + 1]
       IN  /\ SaveMission(c, row) /\ Holding(c, NoRow, "requeue")
           /\ retried' = [retried EXCEPT ![m] = @ + 1]
    /\ UNCHANGED <<jobs, memory, history, planning, ran, faulted, restarts>>

\* ... and counts it in the in-memory queue, if that knows the mission.
Requeue(c) ==
    /\ call[c].step = "requeue"
    /\ memory' = IF memory[call[c].on] = Absent THEN memory
                 ELSE [memory EXCEPT ![call[c].on] = @ + 1]
    /\ End(c, "done")
    /\ UNCHANGED <<mission, jobs, history, planning, ghosts>>

InProgress(c) == call[c].step \notin {"idle"} \cup Over

\* The database or NATS refuses an await of the request.
RequestFails(c) ==
    /\ InProgress(c)
    /\ End(c, "failed")
    /\ faulted' = faulted \cup {call[c].on}
    /\ UNCHANGED <<stores, planning, ran, retried, restarts>>

Restart ==
    /\ restarts < MaxRestarts
    /\ restarts' = restarts + 1
    /\ faulted' = Missions
    /\ memory' = [m \in Missions |-> Absent]
    /\ planning' = [m \in Missions |->
                       IF planning[m] \in {"saved", "published"} THEN "failed" ELSE planning[m]]
    /\ call' = [c \in Calls |->
                   IF InProgress(c)
                   THEN [op |-> call[c].op, on |-> call[c].on, step |-> "failed", row |-> NoRow]
                   ELSE call[c]]
    /\ UNCHANGED <<mission, jobs, history, ran, retried>>

Proceed(c) ==
    \/ CancelMission(c) \/ SaveRunning(c) \/ PublishTriggered(c) \/ Execute(c)
    \/ SaveOutcome(c) \/ RecordHistory(c)
    \/ DeadLetter(c) \/ RetryMission(c) \/ Requeue(c)

SchedulerNext ==
    \/ \E m \in Missions :
          \/ SaveScheduled(m) \/ PublishScheduled(m) \/ Enqueue(m) \/ SchedulingFails(m)
    \/ \E c \in Calls :
          \/ \E op \in Operations, m \in Missions : Read(c, op, m)
          \/ Proceed(c) \/ RequestFails(c)
    \/ Restart

SchedulerSpec == SchedulerInit /\ [][SchedulerNext]_schedulerVars

\* A request in progress goes on: the database, NATS and the target service
\* (whose connection times out) answer or fail.
FairSchedulerSpec == SchedulerSpec /\ \A c \in Calls : WF_schedulerVars(Proceed(c))

-----------------------------------------------------------------------------

SchedulerTypeOK ==
    /\ mission \in [Missions -> Row]
    /\ jobs \subseteq Missions /\ faulted \subseteq Missions
    /\ memory \in [Missions -> Nat \cup {Absent}]
    /\ planning \in [Missions -> {"idle", "saved", "published"} \cup Over]
    /\ call \in [Calls -> [op : Operations, on : Missions, step : Steps, row : Row]]
    /\ history \in [Missions -> [Outcomes -> Nat]] /\ ran \in [Missions -> [Outcomes -> Nat]]
    /\ retried \in [Missions -> Nat] /\ restarts \in 0..MaxRestarts

CallsOn(m, op) == {c \in Calls : InProgress(c) /\ call[c].op = op /\ call[c].on = m}

\* A mission is RUNNING only while a request executes it: whatever is saved
\* over it in between, only a failed await or a restart can leave it so.
RunningHasRequest ==
    \A m \in Missions : mission[m].status = "RUNNING" =>
        m \in faulted \/ CallsOn(m, "execute") # {}

\* An upcoming mission has a job and is monitored, or its scheduling goes on.
UpcomingIsQueued ==
    \A m \in Missions : mission[m].status \in {"PENDING", "SCHEDULED"} =>
        \/ m \in faulted \/ planning[m] \in {"saved", "published"}
        \/ m \in jobs /\ memory[m] # Absent

\* "Dead letter on exhaustion", not before: updates of the attempts counter
\* that are lost only delay it.
DeadAfterRetries ==
    \A m \in Missions :
        mission[m].status = "DEAD_LETTER" => retried[m] >= MaxRetryAttempts

\* The execution history counts what was executed, outcome by outcome, though
\* the statuses in the database overwrite each other.
HistoryIsComplete ==
    \A m \in Missions :
        /\ \A o \in Outcomes : history[m][o] <= ran[m][o]
        /\ (m \notin faulted /\ CallsOn(m, "execute") = {}) => history[m] = ran[m]

\* A mission does not stay RUNNING unless a failure or a restart hit it.
RunningEnds ==
    \A m \in Missions :
        mission[m].status = "RUNNING" ~> mission[m].status # "RUNNING" \/ m \in faulted
=============================================================================
