------------------------ MODULE WorkflowOrchestrator ------------------------
(***************************************************************************)
(* The workflow executor of packages/workflow-engine for one instance of   *)
(* one workflow version.  Every asynchronous activity -- the run of a step *)
(* that has a handler, and every dispatch/advance/suspend/resume/cancel    *)
(* call -- is a task; a task is interleaved with the others wherever the   *)
(* code awaits.  A task keeps the copies of the instance and of the step   *)
(* instance that its closure holds, because the code saves whole records   *)
(* built from those copies.                                                *)
(***************************************************************************)
EXTENDS Integers, FiniteSets, SequencesExt

CONSTANTS
    Steps,         \* the step definitions of the version, by id
    NoStep,        \* absent compensationStepId / compensationOf
    FirstStep,     \* version.stepIds[0]
    Transitions,   \* the records of version.transitions
    Handled,       \* steps whose type has a registered StepHandler
    Waits,         \* steps of type wait
    Optional,      \* optional steps
    WithOutput,    \* steps that complete with an output
    MayFail,       \* steps whose handler may report failure
    MaxAttempts,   \* per step: retryPolicy.maxAttempts, 1 without a policy
    CompensatedBy, \* per step: compensationStepId, or NoStep
    Requests,      \* the <<operation, step>> pairs callers may issue
    MaxCalls,      \* bound: how many calls are issued
    SerialClient,  \* whether callers await each call before the next one
    MaxClock       \* bound: the last instant of the clock

\* A transition is [type, from, to, branches, required]; branches is a sequence
\* of step ids and required the joinRequiredCount, both used by forks only.  A
\* parallel transition is a fork, or else a join.
TransitionTypes == {"sequential", "default", "conditional", "fork", "join"}
Forks == {x \in Transitions : x.type = "fork"}

\* What callers may ask for: dispatch's commands, and the calls on an instance.
Operations == {"start", "complete", "fail", "retry", "skip", "cancel", "advance",
               "suspend", "resume", "terminate"}

ASSUME WorkflowAssumption ==
    /\ FirstStep \in Steps /\ NoStep \notin Steps
    /\ UNION {Handled, Waits, Optional, WithOutput, MayFail} \subseteq Steps
    /\ MaxAttempts \in [Steps -> Nat \ {0}]
    /\ CompensatedBy \in [Steps -> Steps \cup {NoStep}]
    /\ \A x \in Transitions : x.type \in TransitionTypes /\ x.from \in Steps /\ x.to \in Steps
    /\ \A f \in Forks : f.branches \in Seq(Steps) /\ f.required \in 1..Len(f.branches)
    /\ Requests \subseteq Operations \X Steps
    /\ MaxCalls \in Nat /\ MaxClock \in Nat /\ SerialClient \in BOOLEAN

VARIABLES
    instance,  \* the WorkflowInstance in its repository
    steps,     \* the StepInstances in their repository, in insertion order
    tasks,     \* the activities, in the order they began
    waiters,   \* instanceLocks: the tasks chained behind the lock
    holder,    \* activeInstanceLocks: the task the chain runs, 0 for none
    clock,     \* now(), with the resolution of its timestamps
    calls      \* how many calls have been issued

vars == <<instance, steps, tasks, waiters, holder, clock, calls>>

-----------------------------------------------------------------------------
(* The state machines of execution/state-machine.ts.                       *)

\* Faulty: a cancelled instance can be resumed.
ReopeningTransitions ==
    [pending   |-> {"running", "cancelled"},
     running   |-> {"waiting", "suspended", "completed", "failed", "cancelled"},
     waiting   |-> {"running", "suspended", "failed", "cancelled"},
     suspended |-> {"running", "cancelled"},
     completed |-> {}, failed |-> {}, cancelled |-> {"running"}, terminated |-> {}]

WorkflowTransitions ==
    [pending   |-> {"running", "cancelled"},
     running   |-> {"waiting", "suspended", "completed", "failed", "cancelled"},
     waiting   |-> {"running", "suspended", "failed", "cancelled"},
     suspended |-> {"running", "cancelled"},
     completed |-> {}, failed |-> {}, cancelled |-> {}, terminated |-> {}]

CanTransitionWorkflow(from, to) == to \in WorkflowTransitions[from]

StepTransitions ==
    [pending   |-> {"ready", "active", "waiting", "skipped", "cancelled"},
     ready     |-> {"active", "skipped", "cancelled"},
     active    |-> {"waiting", "completed", "failed", "skipped", "cancelled"},
     waiting   |-> {"active", "completed", "failed", "skipped", "cancelled"},
     failed    |-> {"active"},
     completed |-> {}, skipped |-> {}, cancelled |-> {}]

\* Faulty: no guard on the step's status.
CanTransitionStepAlways(from, to) == TRUE

CanTransitionStep(from, to) == to \in StepTransitions[from]

\* Faulty: one attempt too many.
CanRetryOnceMore(s, attempt) == attempt <= MaxAttempts[s]

CanRetry(s, attempt) == attempt < MaxAttempts[s]

-----------------------------------------------------------------------------
(* Records.                                                                *)

WaitTime == 1

ResumeAt(s) == IF s \in Waits THEN clock + WaitTime ELSE 0

\* completedAt is kept for completed main steps only: nothing else reads it.
StepInstance(s) ==
    [step |-> s,
     status |-> IF s \in Waits THEN "waiting" ELSE "active",
     attempt |-> 1,
     completedAt |-> 0,
     resumeAt |-> ResumeAt(s),
     compensated |-> FALSE,
     compensationOf |-> NoStep]

\* at: where `record` is (to be) stored in steps.  output: what the completed
\* step adds to the variables, named by its step.  next: the decision taken, or
\* the copies of the completed steps still to compensate.
Task(op, pc, at, record, inst) ==
    [op |-> op, pc |-> pc, at |-> at, record |-> record, instance |-> inst,
     output |-> {}, next |-> <<>>]

Done == Task("none", "done", 0, [StepInstance(FirstStep) EXCEPT !.resumeAt = 0],
             [status |-> "pending", variables |-> {}])

Main(n) == steps[n].compensationOf = NoStep

End(t) == tasks' = [tasks EXCEPT ![t] = Done]

Goto(t, pc) == tasks' = [tasks EXCEPT ![t].pc = pc]

\* save of a transitioned copy at its place; a record with a new id, written 0,
\* goes to the end.
Save(n, record) ==
    steps' = IF n = 0 THEN Append(steps, record) ELSE [steps EXCEPT ![n] = record]

\* startStep for each id, up to its first await, where it is over unless it calls
\* a handler; `ended` are the tasks, the caller's ended.
StartSteps(ids, inst, ended) ==
    /\ steps' = steps \o [i \in 1..Len(ids) |-> StepInstance(ids[i])]
    /\ tasks' = ended \o
          [i \in 1..Len(ids) |->
              IF ids[i] \in Handled \ Waits
                THEN Task("run", "handler", Len(steps) + i, StepInstance(ids[i]), inst)
                ELSE Done]

-----------------------------------------------------------------------------
(* startStep of a step with a handler.                                     *)

\* The handler's promise is fulfilled with success: the run saves its own copy
\* of the step instance as completed, whatever is stored by then.
HandlerSucceeds(t) ==
    /\ tasks[t].pc = "handler"
    /\ LET r == [tasks[t].record EXCEPT !.status = "completed", !.completedAt = clock]
       IN  /\ Save(tasks[t].at, r)
           /\ tasks' = [tasks EXCEPT ![t] = [@ EXCEPT !.pc = "completed", !.record = r,
                                     !.output = WithOutput \cap {r.step}]]
    /\ UNCHANGED <<instance, waiters, holder, clock, calls>>

\* The handler fails: runWithRetryPolicy sleeps and tries again, in memory ...
HandlerRetries(t) ==
    /\ tasks[t].pc = "handler" /\ tasks[t].record.step \in MayFail
    /\ CanRetry(tasks[t].record.step, tasks[t].record.attempt)
    /\ tasks' = [tasks EXCEPT ![t].record.attempt = @ + 1]
    /\ UNCHANGED <<instance, steps, waiters, holder, clock, calls>>

\* ... or gives up: the catch block saves the step instance as failed.
HandlerFails(t) ==
    /\ tasks[t].pc = "handler" /\ tasks[t].record.step \in MayFail
    /\ ~ CanRetry(tasks[t].record.step, tasks[t].record.attempt)
    /\ Save(tasks[t].at, [tasks[t].record EXCEPT !.status = "failed"])
    /\ Goto(t, "failed")
    /\ UNCHANGED <<instance, waiters, holder, clock, calls>>

-----------------------------------------------------------------------------
(* advanceAfterStep: withInstanceLock and the section it guards.           *)

\* withInstanceLock: a caller that finds the lock active is taken for a
\* re-entrant one and runs at once; any other is chained.  The section begins
\* by reading the stored instance.
CallAdvance(t) ==
    /\ tasks[t].pc = "completed"
    /\ IF holder # 0
         THEN /\ tasks' = [tasks EXCEPT ![t] = [@ EXCEPT !.pc = "entered", !.instance = instance]]
              /\ UNCHANGED waiters
         ELSE /\ waiters' = Append(waiters, t)
              /\ Goto(t, "chained")
    /\ UNCHANGED <<instance, steps, holder, clock, calls>>

\* runLocked of the task at the head of the chain.
EnterLock(t) ==
    /\ holder = 0 /\ waiters # <<>> /\ Head(waiters) = t
    /\ holder' = t
    /\ waiters' = Tail(waiters)
    /\ tasks' = [tasks EXCEPT ![t] = [@ EXCEPT !.pc = "entered", !.instance = instance]]
    /\ UNCHANGED <<instance, steps, clock, calls>>

\* Faulty: the next steps are started with the copy from before the merge.
MergeStoredOnly(t) ==
    /\ tasks[t].pc = "entered"
    /\ instance' = [tasks[t].instance EXCEPT !.variables = @ \cup tasks[t].output]
    /\ Goto(t, "merged")
    /\ UNCHANGED <<steps, waiters, holder, clock, calls>>

\* The output is merged into the copy just read, and that copy is saved.
MergeOutput(t) ==
    /\ tasks[t].pc = "entered"
    /\ LET merged == [tasks[t].instance EXCEPT !.variables = @ \cup tasks[t].output]
       IN  /\ instance' = IF tasks[t].output # {} THEN merged ELSE instance
           /\ tasks' = [tasks EXCEPT ![t] = [@ EXCEPT !.pc = "merged", !.instance = merged]]
    /\ UNCHANGED <<steps, waiters, holder, clock, calls>>

CompletedBranches(f) ==
    {b \in ToSet(f.branches) :
        \E n \in DOMAIN steps : steps[n].step = b /\ steps[n].status = "completed"}

\* Faulty: the join starts one branch too early.
DecideJoinEarly(f) ==
    IF \/ Cardinality(CompletedBranches(f)) < f.required - 1
       \/ \E n \in DOMAIN steps : steps[n].step = f.to
      THEN <<"none">> ELSE <<"start", f.to>>

\* Faulty: the join waits for one branch too many.
DecideJoinNever(f) ==
    IF \/ Cardinality(CompletedBranches(f)) <= f.required
       \/ \E n \in DOMAIN steps : steps[n].step = f.to
      THEN <<"none">> ELSE <<"start", f.to>>

\* The branches of a fork either start its join or nothing.
DecideJoin(f) ==
    IF \/ Cardinality(CompletedBranches(f)) < f.required
       \/ \E n \in DOMAIN steps : steps[n].step = f.to
      THEN <<"none">> ELSE <<"start", f.to>>

\* Faulty: a step without a way out ends nothing.
ResolutionsNeverComplete(s) ==
    {<<"start", x.to>> : x \in {y \in Transitions : y.from = s /\ y.type # "fork"}}
    \cup {<<"none">>}

\* resolveNextSteps: a fork wins; else any conditional may be the first whose
\* expression holds, and then comes the fallback.  An error is a condition that
\* cannot be found or evaluated, or none that holds where there is no fallback;
\* a step with neither, such as one with nothing but a join, completes the
\* instance.
Resolutions(s) ==
    LET out == {x \in Transitions : x.from = s}
        forks == {x \in out : x.type = "fork"}
        conditionals == {x \in out : x.type = "conditional"}
        fallback == {x \in out : x.type \in {"sequential", "default"}}
    IN  IF forks # {} THEN {<<"start">> \o f.branches : f \in forks}
        ELSE IF conditionals \cup fallback = {} THEN {<<"complete">>}
        ELSE {<<"start", x.to>> : x \in conditionals \cup fallback}
             \cup {<<"error">> : x \in conditionals}

\* decideNextAfterStepCompleted, as of the reads it makes.
Decide(t) ==
    /\ tasks[t].pc = "merged"
    /\ LET s == tasks[t].record.step
           forks == {f \in Forks : s \in ToSet(f.branches)}
       IN  \E d \in IF forks # {} THEN {DecideJoin(f) : f \in forks} ELSE Resolutions(s) :
              tasks' = [tasks EXCEPT ![t] = [@ EXCEPT !.pc = "decided", !.next = d]]
    /\ UNCHANGED <<instance, steps, waiters, holder, clock, calls>>

\* The section ends and its caller acts on the decision before the next chained
\* section begins.  An error, of the decision or of completing an instance that
\* is no longer running, ends the task: the step's catch block cannot fail a
\* step that is already completed.
Continue(t) ==
    /\ tasks[t].pc = "decided"
    /\ holder' = IF holder = t THEN 0 ELSE holder
    /\ LET kind == Head(tasks[t].next)
           inst == tasks[t].instance
       IN  \/ /\ kind = "start"
              /\ StartSteps(Tail(tasks[t].next), inst, [tasks EXCEPT ![t] = Done])
              /\ UNCHANGED instance
           \/ /\ kind # "start"
              /\ End(t)
              /\ instance' = IF kind = "complete"
                                /\ CanTransitionWorkflow(inst.status, "completed")
                               THEN [inst EXCEPT !.status = "completed"] ELSE instance
              /\ UNCHANGED steps
    /\ UNCHANGED <<waiters, clock, calls>>

-----------------------------------------------------------------------------
(* onStepFailed: compensation, then the failure of the instance.           *)

\* The completed steps that have a compensation to run.
Undoable ==
    {n \in DOMAIN steps : /\ steps[n].status = "completed" /\ Main(n)
                          /\ ~ steps[n].compensated
                          /\ CompensatedBy[steps[n].step] # NoStep}

\* Latest completedAt first, steps of the same instant in insertion order.
Later(m, n) ==
    \/ steps[m].completedAt > steps[n].completedAt
    \/ steps[m].completedAt = steps[n].completedAt /\ m < n

\* Faulty: in order of completion.
ToCompensateForward ==
    CHOOSE s \in [1..Cardinality(Undoable) -> Undoable] :
        \A i, j \in DOMAIN s : i < j => s[i] < s[j]

ToCompensate ==
    CHOOSE s \in [1..Cardinality(Undoable) -> Undoable] :
        \A i, j \in DOMAIN s : i < j => Later(s[i], s[j])

ScanCompleted(t) ==
    /\ tasks[t].pc = "failed"
    /\ tasks' = [tasks EXCEPT ![t] = [@ EXCEPT
                     !.pc = "compensating",
                     !.next = [i \in 1..Len(ToCompensate) |->
                         [at |-> ToCompensate[i], record |-> steps[ToCompensate[i]]]]]]
    /\ UNCHANGED <<instance, steps, waiters, holder, clock, calls>>

\* The compensation instance is stored before its handler is called; without a
\* handler the original is marked at once and the compensation stays active.
StartCompensation(t) ==
    /\ tasks[t].pc = "compensating" /\ tasks[t].next # <<>>
    /\ LET original == Head(tasks[t].next)
           by == CompensatedBy[original.record.step]
           new == [StepInstance(by) EXCEPT !.status = "active", !.resumeAt = 0,
                                           !.compensationOf = original.record.step]
       IN  IF by \in Handled
             THEN /\ steps' = Append(steps, new)
                  /\ tasks' = [tasks EXCEPT ![t] = [@ EXCEPT !.pc = "undoing", !.record = new,
                                            !.at = Len(steps) + 1]]
             ELSE /\ steps' = [Append(steps, new) EXCEPT
                                  ![original.at] = [original.record EXCEPT !.compensated = TRUE]]
                  /\ tasks' = [tasks EXCEPT ![t].next = Tail(@)]
    /\ UNCHANGED <<instance, waiters, holder, clock, calls>>

\* How a compensation handler may settle.
CompensationOutcomes(s) == {"completed"} \cup IF s \in MayFail THEN {"failed"} ELSE {}

\* The compensation handler settles; either way the original is marked.
EndCompensation(t) ==
    /\ tasks[t].pc = "undoing"
    /\ LET original == Head(tasks[t].next)
       IN  \E o \in CompensationOutcomes(tasks[t].record.step) :
             steps' = [steps EXCEPT
                         ![tasks[t].at] = [tasks[t].record EXCEPT !.status = o],
                         ![original.at] = [original.record EXCEPT !.compensated = TRUE]]
    /\ tasks' = [tasks EXCEPT ![t] = [@ EXCEPT !.pc = "compensating", !.next = Tail(tasks[t].next)]]
    /\ UNCHANGED <<instance, waiters, holder, clock, calls>>

\* Faulty: the instance is failed while compensation is still to do.
FailInstanceAtOnce(t) ==
    /\ tasks[t].pc = "compensating"
    /\ instance' = [tasks[t].instance EXCEPT !.status = "failed"]
    /\ End(t)
    /\ UNCHANGED <<steps, waiters, holder, clock, calls>>

\* The instance is failed from the copy the task has held since its step began.
FailInstance(t) ==
    /\ tasks[t].pc = "compensating" /\ tasks[t].next = <<>>
    /\ LET inst == tasks[t].instance
       IN  instance' = IF CanTransitionWorkflow(inst.status, "failed")
                         THEN [inst EXCEPT !.status = "failed"] ELSE instance
    /\ End(t)
    /\ UNCHANGED <<steps, waiters, holder, clock, calls>>

-----------------------------------------------------------------------------
(* dispatch, advance, suspend, resume and cancel, for an instance that     *)
(* startWorkflow has started.                                              *)

FirstMain(s) == {n \in DOMAIN steps : steps[n].step = s /\ Main(n)}

\* The step instance a call works on: requireNonTerminalStepInstance, the first
\* failed one, the one to skip (a new one if there is none), the first waiting
\* one whose time has come.  No target: the call throws, and changes nothing.
Targets(op, s) ==
    LET main == IF FirstMain(s) = {} THEN {} ELSE {Min(FirstMain(s))}
        failed == {n \in FirstMain(s) : steps[n].status = "failed"}
        waiting == {n \in DOMAIN steps : steps[n].status = "waiting"}
    IN  CASE op \in {"complete", "fail", "cancel"} ->
               {n \in main : steps[n].status \notin {"completed", "skipped", "cancelled"}}
          [] op = "retry" ->
               {n \in failed : n = Min(failed) /\ CanRetry(s, steps[n].attempt)}
          [] op = "skip" ->
               IF s \notin Optional THEN {} ELSE IF main = {} THEN {0} ELSE main
          [] op = "advance" ->
               {n \in waiting : n = Min(waiting) /\ steps[n].resumeAt <= clock}
          [] OTHER -> {}

InstanceTarget == [suspend |-> "suspended", resume |-> "running", terminate |-> "cancelled"]

StepTarget == [complete |-> "completed", advance |-> "completed", fail |-> "failed",
               retry |-> "active", skip |-> "skipped", cancel |-> "cancelled"]

\* A call begins: it reads the instance, and the step instance it works on.
Call(op, s) ==
    /\ calls < MaxCalls /\ steps # <<>>
    /\ SerialClient => \A t \in DOMAIN tasks : tasks[t].pc = "done"
    /\ calls' = calls + 1
    /\ IF op \in DOMAIN InstanceTarget \cup {"start"}
         THEN tasks' = Append(tasks, Task(op, "read", 0, StepInstance(s), instance))
         ELSE \E n \in Targets(op, s) :
                LET r == IF n = 0 THEN [StepInstance(s) EXCEPT !.status = "pending"]
                                   ELSE steps[n]
                IN  tasks' = Append(tasks, Task(op, "read", n, r, instance))
    /\ UNCHANGED <<instance, steps, waiters, holder, clock>>

\* suspend, resume, cancel: the transitioned copy replaces the instance.
ChangeInstance(t) ==
    /\ tasks[t].pc = "read" /\ tasks[t].op \in DOMAIN InstanceTarget
    /\ LET to == InstanceTarget[tasks[t].op]
       IN  instance' = IF CanTransitionWorkflow(tasks[t].instance.status, to)
                         THEN [tasks[t].instance EXCEPT !.status = to] ELSE instance
    /\ End(t)
    /\ UNCHANGED <<steps, waiters, holder, clock, calls>>

\* dispatch "start" with variables: they are merged into the copy of the
\* instance, which is saved.
DispatchVariables(t) ==
    /\ tasks[t].pc = "read" /\ tasks[t].op = "start"
    /\ tasks[t].record.step \in WithOutput
    /\ instance' = [tasks[t].instance EXCEPT !.variables = @ \cup {tasks[t].record.step}]
    /\ tasks' = [tasks EXCEPT ![t] = [@ EXCEPT !.pc = "given", !.instance = instance']]
    /\ UNCHANGED <<steps, waiters, holder, clock, calls>>

\* dispatch "start": another instance of the step, whatever exists already.
DispatchStart(t) ==
    /\ tasks[t].pc \in {"read", "given"} /\ tasks[t].op = "start"
    /\ StartSteps(<<tasks[t].record.step>>, tasks[t].instance, [tasks EXCEPT ![t] = Done])
    /\ UNCHANGED <<instance, waiters, holder, clock, calls>>

\* The other commands: the copy is transitioned and saved; then the graph is
\* advanced, the failure is handled, or the call is over.
ChangeStep(t) ==
    /\ tasks[t].pc = "read" /\ tasks[t].op \in DOMAIN StepTarget
    /\ LET op == tasks[t].op
           to == StepTarget[op]
           r == [tasks[t].record EXCEPT
                    !.status = to,
                    !.attempt = IF op = "retry" THEN @ + 1 ELSE @,
                    !.completedAt = IF to = "completed" THEN clock ELSE @]
           over == op \in {"retry", "cancel"}
                   \/ (op = "fail" /\ CanRetry(r.step, r.attempt))
       IN  IF ~ CanTransitionStep(tasks[t].record.status, to)
             THEN End(t) /\ UNCHANGED steps
             ELSE /\ Save(tasks[t].at, r)
                  /\ tasks' = [tasks EXCEPT ![t] =
                        IF over THEN Done
                        ELSE [@ EXCEPT !.pc = IF op = "fail" THEN "failed" ELSE "completed",
                                       !.record = r,
                                       !.output = IF op = "complete"
                                                    THEN WithOutput \cap {r.step} ELSE {}]]
    /\ UNCHANGED <<instance, waiters, holder, clock, calls>>

-----------------------------------------------------------------------------

Init ==
    /\ instance = [status |-> "pending", variables |-> {}]
    /\ steps = <<>>
    /\ tasks = <<>>
    /\ waiters = <<>>
    /\ holder = 0
    /\ clock = 1
    /\ calls = 0

\* startWorkflow: dispatch "start" of the first step of a pending instance.
StartWorkflow ==
    /\ instance.status = "pending"
    /\ instance' = [instance EXCEPT !.status = "running"]
    /\ StartSteps(<<FirstStep>>, instance', tasks)
    /\ UNCHANGED <<waiters, holder, clock, calls>>

Tick ==
    /\ clock < MaxClock
    /\ clock' = clock + 1
    /\ UNCHANGED <<instance, steps, tasks, waiters, holder, calls>>

TaskStep(t) ==
    /\ t \in DOMAIN tasks /\ tasks[t].pc # "done"
    /\ \/ HandlerSucceeds(t) \/ HandlerRetries(t) \/ HandlerFails(t)
       \/ CallAdvance(t) \/ EnterLock(t) \/ MergeOutput(t) \/ Decide(t) \/ Continue(t)
       \/ ScanCompleted(t) \/ StartCompensation(t) \/ EndCompensation(t)
       \/ FailInstance(t)
       \/ ChangeInstance(t) \/ DispatchVariables(t) \/ DispatchStart(t) \/ ChangeStep(t)

Next ==
    \/ StartWorkflow
    \/ Tick
    \/ \E r \in Requests : Call(r[1], r[2])
    \/ \E t \in DOMAIN tasks : TaskStep(t)

Spec == Init /\ [][Next]_vars

=============================================================================
