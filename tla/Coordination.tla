---------------------------- MODULE Coordination ----------------------------
(***************************************************************************)
(* The collaboration orchestrator of a mission: a plan of steps that are   *)
(* advanced one after the other, each perhaps through an instance of a     *)
(* workflow, and the verdict over the mission.  Nothing is locked: a call  *)
(* writes back the step or the mission that it read some awaits before.    *)
(*                                                                         *)
(* Callers make one request after another.  The lifecycle of missions is   *)
(* public: a caller may also begin a mission that has no plan, and         *)
(* complete or fail one that nobody judged.                                *)
(***************************************************************************)
EXTENDS Naturals

CONSTANTS
    Callers,
    Workers,   \* the workers a step may be assigned to
    Leader,    \* the worker a step has first
    Size,      \* members of the team, and so steps of a plan
    Mapped,    \* the positions whose steps have a workflow definition
    MaxPlans,  \* bound: plans made by startMission
    MaxStarts, \* bound: instances started for one step
    Asks       \* the requests callers may make

\* Step i of plan p; a mission is judged by the plan stored first, plan 1.
Steps == (1..MaxPlans) \X (1..Size)
MissionStatuses == {"draft", "planning", "active", "negotiating", "awaiting_consensus",
                    "awaiting_review", "escalated", "completed", "failed", "cancelled"}
Requests == [op : {"start", "complete", "advance", "assign", "begin", "move"},
             step : Steps, worker : Workers, to : MissionStatuses]

ASSUME CoordinationAssumption ==
    /\ Size \in Nat \ {0} /\ MaxPlans \in Nat \ {0} /\ MaxStarts \in Nat \ {0}
    /\ Leader \in Workers
    /\ Asks # {} /\ Asks \subseteq Requests

VARIABLES
    mission,      \* the status of the mission
    executions,   \* the verdicts of the mission executions stored
    plans,        \* how many plans are stored
    coordinators, \* how many coordinators are stored
    steps,        \* per step: its status, its worker, whether it has an instance
    started,      \* per step: how many instances were started for it
    ask,          \* per caller: its request
    at,           \* per caller: how far it is
    copy,         \* per caller: the step it read
    seen,         \* per caller: the mission status it read
    target,       \* per caller: the mission status it is about to save
    finished,     \* history: the steps that were saved completed
    overlapped,   \* history: the steps two callers worked on at the same time
    orphaned,     \* history, per step: instances stored by a start that was rejected
    direct        \* history: of Noted, the statuses callers of the lifecycle saved themselves

missionVars == <<mission, executions, direct>>
planVars == <<plans, coordinators>>
stepVars == <<steps, started, finished, overlapped, orphaned>>
callVars == <<ask, at, copy, seen, target>>
vars == <<missionVars, planVars, stepVars, callVars>>

Noted == {"planning", "completed", "failed"}
Over == {"completed", "failed", "cancelled"}
InstanceStatuses == {"running", "suspended", "completed", "failed", "cancelled"}
Step == [status : {"none", "pending", "ready", "running", "completed", "failed"},
         worker : Workers, instance : BOOLEAN]
Points == {"idle", "dependency", "save", "awaiting", "planned", "add", "replace",
           "lifecycle", "record", "transition", "moving"}

NewStep(status) == [status |-> status, worker |-> Leader, instance |-> FALSE]
NoRequest == CHOOSE a \in Asks : TRUE

Init ==
    /\ mission = "draft" /\ executions = {} /\ direct = {}
    /\ plans = 0 /\ coordinators = 0
    /\ steps = [s \in Steps |-> NewStep("none")]
    /\ started = [s \in Steps |-> 0] /\ orphaned = [s \in Steps |-> 0]
    /\ finished = {} /\ overlapped = {}
    /\ ask = [c \in Callers |-> NoRequest]
    /\ at = [c \in Callers |-> "idle"]
    /\ copy = [c \in Callers |-> NewStep("none")]
    /\ seen = [c \in Callers |-> "draft"]
    /\ target = [c \in Callers |-> "draft"]

Request(c, a, point) ==
    /\ ask' = [ask EXCEPT ![c] = a]
    /\ at' = [at EXCEPT ![c] = point]

GoOn(c, point) ==
    /\ at' = [at EXCEPT ![c] = point]
    /\ UNCHANGED <<ask, copy, seen, target>>

\* The call returns or throws, and what it had read is forgotten.
End(c) ==
    /\ at' = [at EXCEPT ![c] = "idle"]
    /\ ask' = [ask EXCEPT ![c] = NoRequest]
    /\ copy' = [copy EXCEPT ![c] = NewStep("none")]
    /\ seen' = [seen EXCEPT ![c] = "draft"]
    /\ target' = [target EXCEPT ![c] = "draft"]

-----------------------------------------------------------------------------
\* startMission

\* The steps and then the plan are saved; nobody knows them before the plan is.
StartMission(c, a) ==
    /\ at[c] = "idle" /\ a.op = "start" /\ plans < MaxPlans
    /\ plans' = plans + 1
    /\ steps' = [s \in Steps |->
           IF s[1] # plans' THEN steps[s]
           ELSE NewStep(IF s[2] = 1 THEN "ready" ELSE "pending")]
    /\ Request(c, a, "planned")
    /\ UNCHANGED <<missionVars, coordinators, started, finished, overlapped, orphaned,
                   copy, seen, target>>

ReadCoordinator(c) ==
    /\ at[c] = "planned"
    /\ GoOn(c, IF coordinators = 0 THEN "add" ELSE "replace")
    /\ UNCHANGED <<missionVars, planVars, stepVars>>

SaveCoordinator(c) ==
    /\ at[c] \in {"add", "replace"}
    /\ coordinators' = IF at[c] = "add" THEN coordinators + 1 ELSE coordinators
    /\ GoOn(c, "lifecycle")
    /\ UNCHANGED <<missionVars, plans, stepVars>>

\* missions.start: the lifecycle alone, with no plan.
Begin(c, a) ==
    /\ at[c] = "idle" /\ a.op = "begin"
    /\ Request(c, a, "lifecycle")
    /\ UNCHANGED <<missionVars, planVars, stepVars, copy, seen, target>>

\* The start of the mission's lifecycle: by way of planning from a draft.
StartLifecycle(c) ==
    /\ at[c] = "lifecycle"
    /\ target' = [target EXCEPT ![c] = IF mission = "draft" THEN "planning" ELSE "active"]
    /\ at' = [at EXCEPT ![c] = "transition"]
    /\ UNCHANGED <<missionVars, planVars, stepVars, ask, copy, seen>>

-----------------------------------------------------------------------------
\* The transitions of a mission

Ends == {"failed", "cancelled"}

MissionTransitions ==
    [draft |-> {"planning", "cancelled"},
     planning |-> {"active", "cancelled"},
     active |-> Ends \cup {"negotiating", "awaiting_consensus", "awaiting_review", "escalated",
                           "completed"},
     negotiating |-> Ends \cup {"active", "awaiting_consensus", "escalated"},
     awaiting_consensus |-> Ends \cup {"active", "escalated"},
     awaiting_review |-> Ends \cup {"active", "escalated"},
     escalated |-> Ends \cup {"active"},
     completed |-> {}, cancelled |-> {}, failed |-> {}]

\* Faulty: a failed mission may be taken up again.
MissionReopens(from, to) ==
    to \in MissionTransitions[from] \/ <<from, to>> = <<"failed", "active">>

CanTransitionMission(from, to) == to \in MissionTransitions[from]

\* missions.transition, complete, fail and cancel: whoever holds the runtime
\* may try to move a mission to any status.
Move(c, a) ==
    /\ at[c] = "idle" /\ a.op = "move"
    /\ target' = [target EXCEPT ![c] = a.to]
    /\ Request(c, a, "transition")
    /\ UNCHANGED <<missionVars, planVars, stepVars, copy, seen>>

ReadMission(c) ==
    /\ at[c] = "transition"
    /\ seen' = [seen EXCEPT ![c] = mission]
    /\ at' = [at EXCEPT ![c] = "moving"]
    /\ UNCHANGED <<missionVars, planVars, stepVars, ask, copy, target>>

\* A start that has saved planning goes on to active.
SaveMission(c) ==
    /\ at[c] = "moving" /\ CanTransitionMission(seen[c], target[c])
    /\ mission' = target[c]
    /\ direct' = IF ask[c].op \in {"begin", "move"} THEN direct \cup ({target[c]} \cap Noted)
                                                  ELSE direct
    /\ IF target[c] = "planning" /\ ask[c].op # "move"
       THEN /\ target' = [target EXCEPT ![c] = "active"]
            /\ at' = [at EXCEPT ![c] = "transition"]
            /\ UNCHANGED <<ask, copy, seen>>
       ELSE End(c)
    /\ UNCHANGED <<executions, planVars, stepVars>>

RefuseMission(c) ==
    /\ at[c] = "moving" /\ ~ CanTransitionMission(seen[c], target[c])
    /\ End(c)
    /\ UNCHANGED <<missionVars, planVars, stepVars>>

-----------------------------------------------------------------------------
\* assignWorker and advanceStep

\* Faulty: a step that is over is advanced like any other.
AdvancesEvenOver(s) == steps[s].status # "none"

Advances(s) == steps[s].status \in {"pending", "ready", "running"}

WorksOn(c, s) == at[c] \in {"dependency", "save", "awaiting"} /\ ask[c].step = s

\* An advance of a step that is over returns at once.
ReadStep(c, a) ==
    /\ at[c] = "idle" /\ steps[a.step].status # "none"
    /\ \/ a.op = "assign"
       \/ a.op = "advance" /\ Advances(a.step)
    /\ copy' = [copy EXCEPT ![c] = steps[a.step]]
    /\ Request(c, a, IF a.op = "advance" /\ a.step[2] > 1 THEN "dependency" ELSE "save")
    /\ overlapped' = IF \E d \in Callers : WorksOn(d, a.step)
                     THEN overlapped \cup {a.step} ELSE overlapped
    /\ UNCHANGED <<missionVars, planVars, steps, started, finished, orphaned, seen, target>>

Predecessor(s) == <<s[1], s[2] - 1>>

\* Faulty: a failed predecessor lets the next step go on, too.
ResolvedDependency(s) == steps[Predecessor(s)].status \in {"completed", "failed"}

MetDependency(s) == steps[Predecessor(s)].status = "completed"

\* A step waits for the one before it: the call returns.
ReadDependency(c) ==
    /\ at[c] = "dependency"
    /\ IF MetDependency(ask[c].step) THEN GoOn(c, "save") ELSE End(c)
    /\ UNCHANGED <<missionVars, planVars, stepVars>>

SaveWorker(c) ==
    /\ at[c] = "save" /\ ask[c].op = "assign"
    /\ steps' = [steps EXCEPT ![ask[c].step] =
           [status |-> copy[c].status, worker |-> ask[c].worker, instance |-> copy[c].instance]]
    /\ End(c)
    /\ UNCHANGED <<missionVars, planVars, started, finished, overlapped, orphaned>>

SaveStep(c, status) ==
    /\ steps' = [steps EXCEPT ![ask[c].step] =
           [status |-> status, worker |-> copy[c].worker, instance |-> copy[c].instance]]
    /\ finished' = IF status = "completed" THEN finished \cup {ask[c].step} ELSE finished

StartsWorkflow(c) ==
    copy[c].status = "ready" /\ ~ copy[c].instance /\ ask[c].step[2] \in Mapped

\* Without a workflow to start.  A running step is completed as it is: the
\* instance it may have is not looked at.
Advance(c) ==
    /\ at[c] = "save" /\ ask[c].op = "advance" /\ ~ StartsWorkflow(c)
    /\ SaveStep(c, CASE copy[c].status = "pending" -> "ready"
                     [] copy[c].status = "ready" -> "running"
                     [] OTHER -> "completed")
    /\ End(c)
    /\ UNCHANGED <<missionVars, planVars, started, overlapped, orphaned>>

StartWorkflow(c) ==
    /\ at[c] = "save" /\ ask[c].op = "advance" /\ StartsWorkflow(c)
    /\ started[ask[c].step] < MaxStarts
    /\ started' = [started EXCEPT ![ask[c].step] = @ + 1]
    /\ copy' = [copy EXCEPT ![c].instance = TRUE]
    /\ at' = [at EXCEPT ![c] = "awaiting"]
    /\ UNCHANGED <<missionVars, planVars, steps, finished, overlapped, orphaned, ask, seen, target>>

\* startWorkflow throws before it stores an instance: its definition has no
\* version, say.
WorkflowRefused(c) ==
    /\ at[c] = "save" /\ ask[c].op = "advance" /\ StartsWorkflow(c)
    /\ End(c)
    /\ UNCHANGED <<missionVars, planVars, stepVars>>

\* startWorkflow has stored the instance and its dispatch throws: the instance
\* stays, and the step is left as it was read.
WorkflowRejected(c) ==
    /\ at[c] = "awaiting"
    /\ orphaned' = [orphaned EXCEPT ![ask[c].step] = @ + 1]
    /\ End(c)
    /\ UNCHANGED <<missionVars, planVars, steps, started, finished, overlapped>>

\* The status of a step whose instance startWorkflow returned with a status.
Mirrored(status) == IF status \in {"completed", "failed"} THEN status ELSE "running"

\* Faulty: a step whose instance is not over is left as it was read.
SaveStartedOver(c) ==
    /\ at[c] = "awaiting"
    /\ \E status \in {"completed", "failed"} : SaveStep(c, status) \/ UNCHANGED <<steps, finished>>
    /\ End(c)
    /\ UNCHANGED <<missionVars, planVars, started, overlapped, orphaned>>

\* startWorkflow has returned the instance, in whatever status it was then.
SaveStarted(c) ==
    /\ at[c] = "awaiting"
    /\ \E status \in InstanceStatuses : SaveStep(c, Mirrored(status))
    /\ End(c)
    /\ UNCHANGED <<missionVars, planVars, started, overlapped, orphaned>>

-----------------------------------------------------------------------------
\* completeMission

\* Faulty: one completed step is enough.
OneSucceeded == \E i \in 1..Size : steps[<<1, i>>].status = "completed"

Succeeded == \A i \in 1..Size : steps[<<1, i>>].status = "completed"

\* The steps of the first plan are read; without a plan there are none.
Judge(c, a) ==
    /\ at[c] = "idle" /\ a.op = "complete"
    /\ target' = [target EXCEPT ![c] = IF Succeeded THEN "completed" ELSE "failed"]
    /\ Request(c, a, "record")
    /\ UNCHANGED <<missionVars, planVars, stepVars, copy, seen>>

\* The execution is stored before the mission's transition is tried.
SaveExecution(c) ==
    /\ at[c] = "record"
    /\ executions' = executions \cup {target[c]}
    /\ GoOn(c, "transition")
    /\ UNCHANGED <<mission, direct, planVars, stepVars>>

-----------------------------------------------------------------------------

Proceed(c) ==
    \/ ReadCoordinator(c)
    \/ SaveCoordinator(c)
    \/ StartLifecycle(c)
    \/ ReadMission(c)
    \/ SaveMission(c)
    \/ RefuseMission(c)
    \/ ReadDependency(c)
    \/ SaveWorker(c)
    \/ Advance(c)
    \/ StartWorkflow(c)
    \/ WorkflowRefused(c)
    \/ WorkflowRejected(c)
    \/ SaveStarted(c)
    \/ SaveExecution(c)

Ask(c, a) ==
    \/ StartMission(c, a)
    \/ Begin(c, a)
    \/ Move(c, a)
    \/ ReadStep(c, a)
    \/ Judge(c, a)

Next == \E c \in Callers : Proceed(c) \/ \E a \in Asks : Ask(c, a)

Spec == Init /\ [][Next]_vars

-----------------------------------------------------------------------------

CoordinationTypeOK ==
    /\ mission \in MissionStatuses /\ executions \subseteq {"completed", "failed"}
    /\ direct \subseteq Noted
    /\ plans \in 0..MaxPlans /\ coordinators \in Nat
    /\ steps \in [Steps -> Step]
    /\ started \in [Steps -> 0..MaxStarts] /\ orphaned \in [Steps -> Nat]
    /\ finished \subseteq Steps /\ overlapped \subseteq Steps
    /\ ask \in [Callers -> Asks] /\ at \in [Callers -> Points]
    /\ copy \in [Callers -> Step]
    /\ seen \in [Callers -> MissionStatuses] /\ target \in [Callers -> MissionStatuses]

\* "Waiting on a predecessor": no step is made ready or run before the step it
\* depends on was completed, even if that was undone by a stale save.
StepsInOrder ==
    \A s \in Steps :
        s[2] > 1 /\ steps[s].status \in {"ready", "running", "completed", "failed"}
            => Predecessor(s) \in finished

\* A success is recorded only when every step of the plan was completed, and a
\* mission that no caller completed or failed itself is completed or failed
\* only as an execution on record says.
VerdictIsEarned ==
    /\ "completed" \in executions => \A i \in 1..Size : <<1, i>> \in finished
    /\ mission \in {"completed", "failed"} \ direct => mission \in executions

\* Whoever finds a mission under way finds a plan and a coordinator, too,
\* unless a caller took it out of its draft by missions.start or transition.
ActiveHasPlan ==
    mission \notin {"draft", "cancelled"} /\ "planning" \notin direct =>
        plans > 0 /\ coordinators > 0

\* A step that is advanced by one call at a time starts one workflow instance
\* beside those whose start was rejected, and either names it or is about to:
\* no other instance is ever lost or started again.
StartedOnce ==
    \A s \in Steps \ overlapped :
        /\ started[s] <= orphaned[s] + 1
        /\ started[s] > orphaned[s] =>
               steps[s].instance \/ \E c \in Callers : at[c] = "awaiting" /\ ask[c].step = s

\* A step that is over stays so, keeps its instance, and changes its worker by
\* assignWorker only, unless two calls worked on it at once.
OnlyOverlapUndoes ==
    [][\A s \in Steps \ overlapped' :
          /\ steps[s].status \in {"completed", "failed"} => steps'[s].status = steps[s].status
          /\ steps[s].instance => steps'[s].instance
          /\ steps[s].status # "none" /\ steps'[s].worker # steps[s].worker =>
                 \E c \in Callers : ask[c].step = s /\ SaveWorker(c)]_vars

\* A mission that is over is taken up again, or ended otherwise, only by a
\* call that had read it before it was.
OverLeftByStaleMove ==
    [][mission' # mission /\ mission \in Over =>
          \E c \in Callers : at[c] = "moving" /\ seen[c] # mission /\ mission' = target[c]]_vars
=============================================================================
