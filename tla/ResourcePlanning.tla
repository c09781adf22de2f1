-------------------------- MODULE ResourcePlanning --------------------------
(***************************************************************************)
(* createResourcePlanningEngine of packages/project-management-engine:     *)
(* people and AI workers are assigned to projects for a share of their     *)
(* capacity.  assign and updateAllocation add up what the assignee already *)
(* has inside runExclusive(<assignee>); complete and cancel read and save  *)
(* an assignment without the lock.                                         *)
(***************************************************************************)
EXTENDS KeyMutex

CONSTANTS
    Closers, \* the calls of complete and cancel
    Asks     \* what callers of assign and updateAllocation may ask for

\* The assignments, each named by the call that creates it.
Assignments == Calls

\* An assign names the assignee, an updateAllocation the assignment.
Ask == [op : {"assign"}, assignee : Keys, share : Nat, capacity : Nat]
       \cup [op : {"update"}, assignment : Assignments, share : Nat, capacity : Nat]

ASSUME AsksAssumption == Calls # {} /\ Asks # {} /\ Asks \subseteq Ask

VARIABLES
    assignee,   \* per assignment: the key of its lock
    assignment, \* per assignment: the record of the repository
    ask,        \* per call: what it asks for
    work,       \* per call: how far its section is
    current,    \* per call: the assignment it read inside the section
    others,     \* per call: the allocation of the other assignments it read
    closing     \* per closer: its step, its assignment and the copy it read

sectionVars == <<ask, work, current, others>>
planningVars == <<mutexVars, assignee, assignment, sectionVars, closing>>

Closed == {"completed", "cancelled"}
Record == [status : {"none", "active"} \cup Closed, share : Nat]
NoRecord == [status |-> "none", share |-> 0]
Works == {"none", "entered", "ready", "saved", "refused"}

PlanningInit ==
    /\ MutexInit
    /\ assignee = key
    /\ assignment = [a \in Assignments |-> NoRecord]
    /\ ask = [c \in Calls |-> CHOOSE r \in Asks : TRUE]
    /\ work = [c \in Calls |-> "none"]
    /\ current = [c \in Calls |-> NoRecord]
    /\ others = [c \in Calls |-> 0]
    /\ closing = [d \in Closers |-> [step |-> "idle", on |-> CHOOSE a \in Assignments : TRUE,
                                     read |-> NoRecord]]

Exists(a) == assignment[a].status # "none"
OfAssignee(k) == {a \in Assignments : Exists(a) /\ assignee[a] = k}

ComputeTotalAllocation(set) ==
    SumFunctionOnSet([a \in set |-> assignment[a].share],
                     {a \in set : assignment[a].status = "active"})

\* Faulty: only the share asked for is compared.
IsOverAllocatedAlone(c) == ask[c].share > ask[c].capacity

IsOverAllocated(c) == others[c] + ask[c].share > ask[c].capacity

\* The assignment a call creates or changes.
Target(c) == IF ask[c].op = "assign" THEN c ELSE ask[c].assignment

\* A call reaches its lock; the assignee of an assignment never changes.
AssignCall(c, r) ==
    /\ r.op = "assign"
    /\ RunExclusive(c, r.assignee)
    /\ ask' = [ask EXCEPT ![c] = r]
    /\ UNCHANGED <<assignee, assignment, work, current, others, closing>>

UpdateCall(c, r) ==
    /\ r.op = "update" /\ Exists(r.assignment)
    /\ RunExclusive(c, assignee[r.assignment])
    /\ ask' = [ask EXCEPT ![c] = r]
    /\ UNCHANGED <<assignee, assignment, work, current, others, closing>>

\* The section starts; an update reads its assignment again.
EnterSection(c) ==
    /\ Begin(c)
    /\ work' = [work EXCEPT ![c] = "entered"]
    /\ current' = [current EXCEPT ![c] = assignment[Target(c)]]
    /\ UNCHANGED <<assignee, assignment, ask, others, closing>>

\* findByAssignee, without the assignment that is changed.
ReadOthers(c) ==
    /\ work[c] = "entered"
    /\ work' = [work EXCEPT ![c] = "ready"]
    /\ others' = [others EXCEPT ![c] =
                     ComputeTotalAllocation(OfAssignee(key[c]) \ {Target(c)})]
    /\ UNCHANGED <<mutexVars, assignee, assignment, ask, current, closing>>

\* OverAllocationError ends the section.
RefuseAllocation(c) ==
    /\ work[c] = "ready" /\ IsOverAllocated(c)
    /\ Finish(c)
    /\ work' = [work EXCEPT ![c] = "refused"]
    /\ UNCHANGED <<assignee, assignment, ask, current, others, closing>>

\* Faulty: an update makes its assignment active.
SaveActive(c) ==
    /\ work[c] = "ready" /\ ~ IsOverAllocated(c)
    /\ assignment' = [assignment EXCEPT ![Target(c)] =
                         [status |-> "active", share |-> ask[c].share]]
    /\ assignee' = [assignee EXCEPT ![Target(c)] = key[c]]
    /\ work' = [work EXCEPT ![c] = "saved"]
    /\ UNCHANGED <<mutexVars, ask, current, others, closing>>

\* A new assignment is active; an update keeps the status it has read.
Save(c) ==
    /\ work[c] = "ready" /\ ~ IsOverAllocated(c)
    /\ assignment' = [assignment EXCEPT ![Target(c)] =
           [status |-> IF ask[c].op = "assign" THEN "active" ELSE current[c].status,
            share |-> ask[c].share]]
    /\ assignee' = [assignee EXCEPT ![Target(c)] = key[c]]
    /\ work' = [work EXCEPT ![c] = "saved"]
    /\ UNCHANGED <<mutexVars, ask, current, others, closing>>

ReturnAssignment(c) ==
    /\ work[c] = "saved" /\ Finish(c)
    /\ UNCHANGED <<assignee, assignment, sectionVars, closing>>

ReleaseAssignee(c) ==
    /\ Settle(c)
    /\ UNCHANGED <<assignee, assignment, sectionVars, closing>>

\* complete or cancel reads the assignment ...
ReadToClose(d, a) ==
    /\ closing[d].step = "idle" /\ Exists(a)
    /\ closing' = [closing EXCEPT ![d] = [step |-> "read", on |-> a, read |-> assignment[a]]]
    /\ UNCHANGED <<mutexVars, assignee, assignment, sectionVars>>

\* ... and saves what it read with its new status.
SaveClosed(d) ==
    /\ closing[d].step = "read"
    /\ \E s \in Closed :
          assignment' = [assignment EXCEPT ![closing[d].on] = [closing[d].read EXCEPT !.status = s]]
    /\ closing' = [closing EXCEPT ![d].step = "saved"]
    /\ UNCHANGED <<mutexVars, assignee, sectionVars>>

PlanningNext ==
    \/ \E c \in Calls :
          \/ \E r \in Asks : AssignCall(c, r) \/ UpdateCall(c, r)
          \/ EnterSection(c) \/ ReadOthers(c) \/ RefuseAllocation(c) \/ Save(c)
          \/ ReturnAssignment(c) \/ ReleaseAssignee(c)
    \/ \E d \in Closers : SaveClosed(d) \/ \E a \in Assignments : ReadToClose(d, a)

PlanningSpec == PlanningInit /\ [][PlanningNext]_planningVars

\* Promise reactions run; the repository answers, but for the assignees in
\* Stuck it may never answer.
PlanningFairness ==
    \A c \in Calls :
        /\ WF_planningVars(EnterSection(c))
        /\ WF_planningVars(key[c] \notin Stuck /\ (ReadOthers(c) \/ Save(c)))
        /\ WF_planningVars(key[c] \notin Stuck /\ (RefuseAllocation(c) \/ ReturnAssignment(c)))
        /\ WF_planningVars(ReleaseAssignee(c))

FairPlanningSpec == PlanningSpec /\ PlanningFairness

-----------------------------------------------------------------------------

Load(k) == ComputeTotalAllocation(OfAssignee(k))

\* No "over-allocating the assignee despite the check existing": what an
\* assignee carries grows only to a total within the capacity of the request
\* that makes it grow, though assignments are closed without the lock.
WithinCapacity ==
    [][\A k \in Keys : Load(k)' > Load(k) =>
          \E c \in Calls : key[c] = k /\ Save(c) /\ Load(k)' <= ask[c].capacity]_planningVars

\* A completed or cancelled assignment takes up capacity again only through
\* an update that read it before it was closed.
ReopenedOnlyByUpdate ==
    [][\A a \in Assignments :
          assignment[a].status \in Closed /\ assignment'[a].status = "active" =>
              \E c \in Calls : /\ Save(c) /\ ask[c].op = "update" /\ Target(c) = a
                               /\ current[c].status = "active"]_planningVars
=============================================================================
