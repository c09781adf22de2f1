--------------------------- MODULE WorkflowProofs ---------------------------
(***************************************************************************)
(* Theorems about the workflow executor, for any graph of steps.           *)
(***************************************************************************)
EXTENDS WorkflowProperties, SetSums, SequenceTheorems, TLAPS

-----------------------------------------------------------------------------
(* What always holds.                                                      *)

Instance == [status : DOMAIN WorkflowTransitions, variables : SUBSET Steps]

StepRecord ==
    [step : Steps, status : DOMAIN StepTransitions, attempt : Nat \ {0}, completedAt : Nat,
     resumeAt : Nat, compensated : BOOLEAN, compensationOf : Steps \cup {NoStep}]

Undo == [at : Nat \ {0}, record : StepRecord]

\* What may be decided after a step.
Kinds == {"start", "none", "complete", "error"}

\* Where a task that advances the graph, or handles a failure, may be.
Advancing == {"completed", "chained", "entered", "merged", "decided"}
Failing == {"failed", "compensating", "undoing"}

TaskRecord ==
    [op : Operations \cup {"run", "none"},
     pc : {"handler", "read", "given", "done"} \cup Advancing \cup Failing,
     at : Nat, record : StepRecord, instance : Instance, output : SUBSET Steps,
     next : Seq(Kinds \cup Steps \cup Undo)]

WorkflowTypeOK ==
    /\ instance \in Instance
    /\ steps \in Seq(StepRecord)
    /\ tasks \in Seq(TaskRecord)
    /\ waiters \in Seq(Nat)
    /\ holder \in Nat /\ clock \in Nat /\ calls \in Nat

Active == {t \in DOMAIN tasks : tasks[t].pc # "done"}

\* The tasks that will save a record over the stored one at `at`.
Writes(t) ==
    \/ tasks[t].pc \in {"handler", "undoing"}
    \/ tasks[t].pc = "read" /\ tasks[t].op \in DOMAIN StepTarget /\ tasks[t].at # 0

Original(r) == r.compensationOf = NoStep

Same(r, q) == r.step = q.step /\ r.compensationOf = q.compensationOf

\* A chained task is in the chain once.
ChainInv ==
    /\ \A i \in DOMAIN waiters : /\ waiters[i] \in DOMAIN tasks
                                 /\ tasks[waiters[i]].pc = "chained"
    /\ \A i, j \in DOMAIN waiters : waiters[i] = waiters[j] => i = j

\* A record is only ever saved over an earlier one of the same step instance.
Placed(t) ==
    /\ Writes(t) => tasks[t].at \in DOMAIN steps /\ Same(steps[tasks[t].at], tasks[t].record)
    /\ tasks[t].pc = "undoing" => ~ Original(tasks[t].record) /\ tasks[t].next # <<>>
    /\ tasks[t].pc \in {"handler", "read"} => Original(tasks[t].record)
    /\ tasks[t].pc \in Advancing => FirstMain(tasks[t].record.step) # {}
    /\ tasks[t].pc = "decided" =>
          tasks[t].next # <<>> /\ Tail(tasks[t].next) \in Seq(Steps)
    /\ tasks[t].pc \in {"compensating", "undoing"} =>
          \A i \in DOMAIN tasks[t].next :
             LET u == tasks[t].next[i]
             IN  /\ u \in Undo /\ u.at \in DOMAIN steps /\ Same(steps[u.at], u.record)
                 /\ Original(u.record) /\ u.record.status = "completed"
                 /\ CompensatedBy[u.record.step] \in Steps

PlaceInv == \A t \in DOMAIN tasks : Placed(t)

\* Before the workflow is started there is nothing; afterwards it is not pending.
StartedInv ==
    /\ steps = <<>> => tasks = <<>> /\ instance.status = "pending"
    /\ steps # <<>> => instance.status # "pending"
    /\ \A t \in Active : tasks[t].instance.status # "pending"

\* No record, stored or held, has more attempts than its policy allows, only
\* wait steps wait, and what a task holds is as it found it.
WithinPolicy(r) == r.attempt <= MaxAttempts[r.step]

Allowed(r) == WithinPolicy(r) /\ (r.status = "waiting" => r.step \in Waits /\ Original(r))

Recorded(t) ==
    /\ WithinPolicy(tasks[t].record)
    /\ tasks[t].pc \in {"handler", "undoing"} => tasks[t].record.status = "active"
    /\ tasks[t].pc = "read" /\ tasks[t].op = "retry" =>
          CanRetry(tasks[t].record.step, tasks[t].record.attempt)
    /\ tasks[t].pc = "read" /\ tasks[t].op = "advance" =>
          tasks[t].at # 0 /\ tasks[t].record.step \in Waits
    /\ tasks[t].pc = "read" /\ tasks[t].op \in DOMAIN StepTarget /\ tasks[t].at = 0 =>
          tasks[t].op = "skip" /\ tasks[t].record.status = "pending"
    /\ tasks[t].pc \in {"compensating", "undoing"} =>
          \A i \in DOMAIN tasks[t].next : WithinPolicy(tasks[t].next[i].record)

RecordInv ==
    /\ \A n \in DOMAIN steps : Allowed(steps[n])
    /\ \A t \in DOMAIN tasks : Recorded(t)

BaseInv == WorkflowTypeOK /\ ChainInv /\ PlaceInv /\ StartedInv /\ RecordInv

-----------------------------------------------------------------------------
(* One activity at a time.                                                 *)

SoloClient == Requests = {} \/ SerialClient

\* No two handlers ever run beside each other.
Sequential == Forks = {} \/ Handled \subseteq Waits

Calm == InSequence \/ Sequential

OneAtATime == \A t, u \in Active : t = u

\* What a task has decided: nothing to start, one step, or the branches of a fork.
Chosen(t) ==
    \/ tasks[t].next \in {<<"none">>, <<"complete">>, <<"error">>} /\ tasks[t].next[1] # "start"
    \/ \E y \in Steps : tasks[t].next = <<"start", y>> /\ Tail(tasks[t].next) = <<y>>
    \/ \E f \in Forks : tasks[t].next = <<"start">> \o f.branches /\ Tail(tasks[t].next) = f.branches

ChosenInv == \A t \in DOMAIN tasks : tasks[t].pc = "decided" => Chosen(t)

\* The only activity holds a copy of the instance that is not stale.
CalmInv == Calm => OneAtATime /\ \A t \in Active : tasks[t].instance = instance

-----------------------------------------------------------------------------
(* No two activities change the same step instance.                        *)

Undisturbed == Requests = {} \/ (SerialClient /\ Sequential)

Owned(t) ==
    /\ Requests = {} => tasks[t].pc \notin {"read", "given"}
    /\ Writes(t) => /\ steps[tasks[t].at].status = tasks[t].record.status
                    /\ steps[tasks[t].at].compensated = tasks[t].record.compensated
    /\ Writes(t) /\ tasks[t].pc = "read" => steps[tasks[t].at] = tasks[t].record
    /\ tasks[t].pc \in {"compensating", "undoing"} =>
          \A i \in DOMAIN tasks[t].next :
             LET u == tasks[t].next[i]
             IN  steps[u.at] \in {u.record, [u.record EXCEPT !.compensated = TRUE]}

OwnInv ==
    /\ \A t, u \in DOMAIN tasks : Writes(t) /\ Writes(u) /\ t # u => tasks[t].at # tasks[u].at
    /\ \A t \in DOMAIN tasks : Owned(t)

\* A step that failed on its last attempt.
GaveUp == \E n \in DOMAIN steps : Main(n) /\ steps[n].status = "failed"
                                    /\ ~ CanRetry(steps[n].step, steps[n].attempt)

GaveUpInv ==
    \/ GaveUp
    \/ /\ \A t \in DOMAIN tasks : tasks[t].pc \notin Failing
       /\ instance.status # "failed"
       /\ \A t \in Active : tasks[t].instance.status # "failed"
       /\ \A n \in DOMAIN steps : Main(n)

-----------------------------------------------------------------------------
(* Outputs.                                                                *)

\* Calls are awaited one by one and no two handlers run beside each other, or there are
\* no calls.
Orderly == (SerialClient /\ Sequential /\ WithOutput \cap Waits = {}) \/ Requests = {}

\* What the advance of the graph has still to merge.
Pending(t) == IF tasks[t].pc \in {"completed", "chained", "entered"}
                THEN tasks[t].output ELSE {}

OutputInv ==
    Calm =>
        \A n \in DOMAIN steps :
            Main(n) /\ steps[n].status = "completed" /\ steps[n].step \in WithOutput =>
               \/ steps[n].step \in instance.variables
               \/ \E t \in DOMAIN tasks : steps[n].step \in Pending(t)

\* The outputs of the early steps are in v.
Given(v) == \A n \in DOMAIN steps :
    Main(n) /\ Early(n) /\ steps[n].status = "completed" =>
        WithOutput \cap {steps[n].step} \subseteq v

\* Once branches have been started, the outputs of the steps before them are in every
\* copy of the instance, and no handler works on such a step.
EarlyInv ==
    (Requests = {} /\ ~ InSequence) =>
        /\ Given(instance.variables)
        /\ \A t \in Active : /\ Given(tasks[t].instance.variables)
                             /\ tasks[t].pc = "handler" => ~ Early(tasks[t].at)

-----------------------------------------------------------------------------
(* Work left.                                                              *)

\* No condition can throw.
Unconditional == \A x \in Transitions : x.type # "conditional"

\* Without calls, a sequence works on its last record.
AtLast(t) ==
    /\ tasks[t].pc \in {"handler"} \cup Advancing => tasks[t].at = Len(steps)
    /\ tasks[t].pc \in Advancing =>
          /\ tasks[t].at \in DOMAIN steps /\ Main(tasks[t].at)
          /\ steps[tasks[t].at].status = "completed"
          /\ steps[tasks[t].at].step = tasks[t].record.step

LastInv == InSequence => \A t \in Active : AtLast(t)

NoCallInv == Requests = {} => OwnInv /\ LastInv

\* A condition behind the step completed last may have thrown.
Lost == \E n \in DOMAIN steps : /\ n = Len(steps) /\ Main(n) /\ steps[n].status = "completed"
                                /\ <<"error">> \in Resolutions(steps[n].step)

\* Callers neither suspend the instance nor cancel a step.
Uninterrupted == \A r \in Requests : r[1] \notin {"suspend", "cancel"}

Busy(t) == tasks[t].pc \in Advancing \cup Failing

WorkInv ==
    InSequence =>
        /\ instance.status \notin {"suspended", "waiting"}
        /\ \A t \in DOMAIN tasks : tasks[t].pc = "read" => tasks[t].op \notin {"suspend", "cancel"}
        /\ \A t \in DOMAIN tasks : tasks[t].pc = "decided" =>
              /\ tasks[t].next[1] \in {"start", "complete"} \/ Lost
              /\ tasks[t].next[1] = "start" => Tail(tasks[t].next) # <<>>
        /\ instance.status = "running" => HasWork \/ Lost \/ \E t \in DOMAIN tasks : Busy(t)

-----------------------------------------------------------------------------
(* Joins.                                                                  *)

OnlyJoined == \A f \in Forks :
    /\ f.to # FirstStep
    /\ \A x \in Transitions \ {f} : x.to # f.to
    /\ \A g \in Forks : f.to \notin ToSet(g.branches)

Quorum(f) == Cardinality(CompletedBranches(f)) >= f.required

JoinInv ==
    \A f \in Forks :
        /\ FirstMain(f.to) # {} => Quorum(f)
        /\ \A t \in DOMAIN tasks :
              (/\ tasks[t].pc = "decided" /\ tasks[t].next[1] = "start"
               /\ f.to \in ToSet(Tail(tasks[t].next))) => Quorum(f)

-----------------------------------------------------------------------------
(* Compensation.                                                           *)

Declared == {n \in DOMAIN steps : /\ steps[n].status = "completed" /\ Main(n)
                                  /\ CompensatedBy[steps[n].step] # NoStep}

\* The completed instances of step s that declare a compensation.
Undid(s) == FirstMain(s) \cap Declared

Compensating == {t \in DOMAIN tasks : tasks[t].pc \in {"compensating", "undoing"}}

\* What is left to undo: latest completion first, and nothing later is undone already.
Ordered(next) ==
    /\ \A p \in DOMAIN next : next[p].at \in Declared
    /\ \A p, q \in DOMAIN next : p < q =>
          /\ next[p].at # next[q].at
          /\ steps[next[p].at].completedAt >= steps[next[q].at].completedAt
    /\ \A m \in DOMAIN steps : ~ Main(m) => \A p \in DOMAIN next :
          \E i \in Undid(steps[m].compensationOf) :
              steps[i].completedAt >= steps[next[p].at].completedAt

\* Compensations begin latest completion first.
ByTime == \A m, n \in DOMAIN steps : (~ Main(m) /\ ~ Main(n) /\ m < n) =>
    \E i \in Undid(steps[m].compensationOf), j \in Undid(steps[n].compensationOf) :
        steps[i].completedAt >= steps[j].completedAt

\* Steps are completed in the order of their records.
RisingInv ==
    /\ \A n \in DOMAIN steps :
          Main(n) /\ steps[n].status = "completed" => steps[n].completedAt <= clock
    /\ InSequence => \A m, n \in DOMAIN steps :
          (/\ m < n /\ Main(m) /\ Main(n)
           /\ steps[m].status = "completed" /\ steps[n].status = "completed") =>
             steps[m].completedAt <= steps[n].completedAt

OrderInv ==
    InSequence =>
        /\ Active # {} => instance.status = "running"
        /\ (Compensating = {} /\ instance.status # "failed") =>
              \A n \in DOMAIN steps : Main(n) /\ ~ steps[n].compensated
        /\ \A t \in Compensating : Ordered(tasks[t].next)
        /\ ByTime

\* The graph has no cycle.
Ranks(rank) == rank \in [Steps -> Nat] /\ \A x \in Transitions : rank[x.from] < rank[x.to]

RankInv(rank) ==
    InSequence =>
        /\ \A m, n \in DOMAIN steps : m < n /\ Main(m) /\ Main(n) =>
              rank[steps[m].step] < rank[steps[n].step]
        /\ \A t \in DOMAIN tasks : tasks[t].pc \in {"handler"} \cup Advancing =>
              \A m \in DOMAIN steps : Main(m) => rank[steps[m].step] <= rank[tasks[t].record.step]
        /\ \A t \in DOMAIN tasks : tasks[t].pc = "decided" /\ tasks[t].next[1] = "start" =>
              \/ \E y \in Steps : Tail(tasks[t].next) = <<y>> /\ rank[y] > rank[tasks[t].record.step]
              \/ \E f \in Forks : Tail(tasks[t].next) = f.branches

Undone(n) == \E m \in DOMAIN steps : Compensations(steps[n].step) = {m}

\* `at` is the compensation that is running, 0 for none.
Covered(next, at) ==
    /\ \A n \in Declared : IF steps[n].compensated THEN Undone(n)
          ELSE \E p \in DOMAIN next : next[p].at = n
    /\ \A p \in DOMAIN next :
          /\ ~ steps[next[p].at].compensated
          /\ Compensations(steps[next[p].at].step) = IF p = 1 /\ at # 0 THEN {at} ELSE {}

CompInv ==
    InSequence =>
        /\ \A t \in Compensating :
              Covered(tasks[t].next, IF tasks[t].pc = "undoing" THEN tasks[t].at ELSE 0)
        /\ instance.status = "failed" =>
              Compensating = {} /\ \A n \in Declared : steps[n].compensated /\ Undone(n)

-----------------------------------------------------------------------------
(* What the operators of the model return.                                 *)

LEMMA Tables ==
    /\ DOMAIN WorkflowTransitions = {"pending", "running", "waiting", "suspended",
                                     "completed", "failed", "cancelled", "terminated"}
    /\ DOMAIN StepTransitions = {"pending", "ready", "active", "waiting", "failed",
                                 "completed", "skipped", "cancelled"}
    /\ DOMAIN InstanceTarget = {"suspend", "resume", "terminate"}
    /\ DOMAIN StepTarget = {"complete", "advance", "fail", "retry", "skip", "cancel"}
  BY SMTT(30) DEF WorkflowTransitions, StepTransitions, InstanceTarget, StepTarget

\* What the tables allow.
LEMMA InstanceMoves ==
    /\ \A s \in DOMAIN WorkflowTransitions : CanTransitionWorkflow(s, "completed") <=> s = "running"
    /\ \A s \in DOMAIN WorkflowTransitions :
          CanTransitionWorkflow(s, "failed") <=> s \in {"running", "waiting"}
    /\ \A s \in DOMAIN WorkflowTransitions, op \in DOMAIN InstanceTarget :
          /\ InstanceTarget[op] \in {"suspended", "running", "cancelled"}
          /\ CanTransitionWorkflow(s, InstanceTarget[op]) => s \notin Terminal
  BY DEF WorkflowTransitions, CanTransitionWorkflow, InstanceTarget, Terminal

LEMMA StepMoves ==
    ASSUME NEW s \in DOMAIN StepTransitions, NEW op \in DOMAIN StepTarget,
           CanTransitionStep(s, StepTarget[op])
    PROVE  /\ s \notin {"completed", "skipped", "cancelled"}
           /\ s = "failed" => op = "retry"
           /\ op = "retry" => s \in {"pending", "ready", "waiting", "failed"}
           /\ StepTarget[op] \in DOMAIN StepTransitions \ {"waiting"}
  BY DEF StepTransitions, CanTransitionStep, StepTarget

LEMMA StepTargets ==
    /\ StepTarget["complete"] = "completed" /\ StepTarget["advance"] = "completed"
    /\ StepTarget["fail"] = "failed" /\ StepTarget["retry"] = "active"
    /\ StepTarget["skip"] = "skipped" /\ StepTarget["cancel"] = "cancelled"
  BY DEF StepTarget

LEMMA FirstIsFirst ==
    /\ FirstStep \in Steps /\ NoStep \notin Steps
    /\ \A f \in Forks : f \in Transitions /\ f.to \in Steps /\ f.branches \in Seq(Steps)
                        /\ f.required \in 1..Len(f.branches)
    /\ MaxAttempts \in [Steps -> Nat \ {0}]
    /\ CompensatedBy \in [Steps -> Steps \cup {NoStep}]
    /\ Requests \subseteq Operations \X Steps
    /\ WithOutput \subseteq Steps
  BY WorkflowAssumption DEF Forks

LEMMA NewInstance ==
    ASSUME WorkflowTypeOK, NEW s \in Steps
    PROVE  /\ StepInstance(s) \in StepRecord
           /\ StepInstance(s).step = s /\ Original(StepInstance(s))
           /\ StepInstance(s).attempt = 1 /\ ~ StepInstance(s).compensated
           /\ s \in Waits => StepInstance(s).status = "waiting"
           /\ s \notin Waits => StepInstance(s).status = "active"
           /\ WithinPolicy(StepInstance(s))
  BY FirstIsFirst, Tables
     DEF StepInstance, StepRecord, Original, WithinPolicy, ResumeAt, WaitTime, WorkflowTypeOK

LEMMA SomeTasks ==
    ASSUME NEW s \in Seq(TaskRecord), NEW t \in DOMAIN s, NEW x \in TaskRecord
    PROVE  /\ [s EXCEPT ![t] = x] \in Seq(TaskRecord)
           /\ Len([s EXCEPT ![t] = x]) = Len(s) /\ DOMAIN [s EXCEPT ![t] = x] = DOMAIN s
           /\ [s EXCEPT ![t] = x][t] = x
           /\ \A u \in DOMAIN s \ {t} : [s EXCEPT ![t] = x][u] = s[u]
  OBVIOUS

LEMMA NewTask ==
    ASSUME NEW op \in Operations \cup {"run", "none"}, NEW pc \in {"handler", "read", "done"},
           NEW at \in Nat, NEW r \in StepRecord, NEW inst \in Instance
    PROVE  /\ Task(op, pc, at, r, inst) \in TaskRecord
           /\ Task(op, pc, at, r, inst).pc = pc /\ Task(op, pc, at, r, inst).op = op
           /\ Task(op, pc, at, r, inst).at = at /\ Task(op, pc, at, r, inst).record = r
           /\ Task(op, pc, at, r, inst).instance = inst
           /\ Task(op, pc, at, r, inst).output = {} /\ Task(op, pc, at, r, inst).next = <<>>
  BY DEF Task, TaskRecord

LEMMA DoneIsDone ==
    WorkflowTypeOK => /\ Done \in TaskRecord /\ Done.pc = "done" /\ Done.op = "none"
                      /\ WithinPolicy(Done.record)
  <1> SUFFICES ASSUME WorkflowTypeOK
               PROVE  /\ Done \in TaskRecord /\ Done.pc = "done" /\ Done.op = "none"
                      /\ WithinPolicy(Done.record)
    OBVIOUS
  <1> DEFINE r == [StepInstance(FirstStep) EXCEPT !.resumeAt = 0]
             i == [status |-> "pending", variables |-> {}]
  <1>1. r \in StepRecord /\ WithinPolicy(r) /\ i \in Instance
    BY NewInstance, FirstIsFirst, Tables DEF StepRecord, Instance, WithinPolicy
  <1> HIDE DEF r, i
  <1>2. Task("none", "done", 0, r, i) \in TaskRecord
        /\ Task("none", "done", 0, r, i).pc = "done" /\ Task("none", "done", 0, r, i).op = "none"
        /\ Task("none", "done", 0, r, i).record = r
    BY <1>1 DEF Task, TaskRecord
  <1>3. Done = Task("none", "done", 0, r, i)
    BY DEF Done, r, i
  <1>4. QED
    BY <1>1, <1>2, <1>3

LEMMA Extended ==
    ASSUME NEW S, NEW p \in Seq(S), NEW q \in Seq(S)
    PROVE  /\ p \o q \in Seq(S) /\ Len(p \o q) = Len(p) + Len(q)
           /\ \A i \in 1..Len(p) : (p \o q)[i] = p[i]
           /\ \A i \in 1..Len(q) : (p \o q)[Len(p) + i] = q[i]
  <1>1. \A i \in 1..Len(q) : Len(p) + i \in 1..(Len(p) + Len(q)) /\ ~ (Len(p) + i <= Len(p))
                             /\ (Len(p) + i) - Len(p) = i
    BY LenProperties
  <1>2. QED
    BY <1>1, ConcatProperties, LenProperties

\* The steps that are started, and the runs of those with a handler.
LEMMA StartedSteps ==
    ASSUME WorkflowTypeOK, NEW ids \in Seq(Steps), NEW inst \in Instance,
           NEW ended \in Seq(TaskRecord), StartSteps(ids, inst, ended)
    PROVE  /\ steps' \in Seq(StepRecord) /\ Len(steps') = Len(steps) + Len(ids)
           /\ tasks' \in Seq(TaskRecord) /\ Len(tasks') = Len(ended) + Len(ids)
           /\ \A n \in DOMAIN steps : steps'[n] = steps[n]
           /\ \A u \in DOMAIN ended : tasks'[u] = ended[u]
           /\ \A i \in 1..Len(ids) : steps'[Len(steps) + i] = StepInstance(ids[i])
           /\ \A i \in 1..Len(ids) : tasks'[Len(ended) + i] =
                 IF ids[i] \in Handled \ Waits
                   THEN Task("run", "handler", Len(steps) + i, StepInstance(ids[i]), inst)
                   ELSE Done
  <1> DEFINE new == [i \in 1..Len(ids) |-> StepInstance(ids[i])]
             runs == [i \in 1..Len(ids) |->
                        IF ids[i] \in Handled \ Waits
                          THEN Task("run", "handler", Len(steps) + i, StepInstance(ids[i]), inst)
                          ELSE Done]
  <1>1. \A i \in 1..Len(ids) : ids[i] \in Steps /\ Len(steps) + i \in Nat
    BY DEF WorkflowTypeOK
  <1>2. \A i \in 1..Len(ids) : StepInstance(ids[i]) \in StepRecord
    BY <1>1, NewInstance
  <1>3. new \in Seq(StepRecord)
    BY <1>2
  <1>13. Len(new) = Len(ids) /\ Len(runs) = Len(ids)
    OBVIOUS
  <1>4. ASSUME NEW i \in 1..Len(ids)
        PROVE  Task("run", "handler", Len(steps) + i, StepInstance(ids[i]), inst) \in TaskRecord
    BY <1>1, <1>2, NewTask
  <1>5. runs \in Seq(TaskRecord)
    BY <1>4, DoneIsDone
  <1>6. steps' = steps \o new /\ tasks' = ended \o runs
    BY DEF StartSteps
  <1>7. \A i \in 1..Len(ids) : new[i] = StepInstance(ids[i])
    OBVIOUS
  <1>8. \A i \in 1..Len(ids) : runs[i] =
           IF ids[i] \in Handled \ Waits
             THEN Task("run", "handler", Len(steps) + i, StepInstance(ids[i]), inst)
             ELSE Done
    OBVIOUS
  <1> HIDE DEF new, runs
  <1>0. steps \in Seq(StepRecord)
    BY DEF WorkflowTypeOK
  <1>9. LET s == steps \o new
        IN  /\ s \in Seq(StepRecord) /\ Len(s) = Len(steps) + Len(new)
            /\ \A n \in 1..Len(steps) : s[n] = steps[n]
            /\ \A i \in 1..Len(new) : s[Len(steps) + i] = new[i]
    BY <1>0, <1>3, Extended
  <1>10. LET s == ended \o runs
        IN  /\ s \in Seq(TaskRecord) /\ Len(s) = Len(ended) + Len(runs)
            /\ \A u \in 1..Len(ended) : s[u] = ended[u]
            /\ \A i \in 1..Len(runs) : s[Len(ended) + i] = runs[i]
    BY <1>5, Extended
  <1>12. DOMAIN steps = 1..Len(steps) /\ DOMAIN ended = 1..Len(ended)
    BY LenProperties DEF WorkflowTypeOK
  <1>11. QED
    BY <1>6, <1>7, <1>8, <1>9, <1>10, <1>12, <1>13

\* The place of a record that is saved.
Place(n) == IF n = 0 THEN Len(steps) + 1 ELSE n

LEMMA SavedStep ==
    ASSUME WorkflowTypeOK, NEW n \in {0} \cup DOMAIN steps, NEW r \in StepRecord, Save(n, r)
    PROVE  /\ steps' \in Seq(StepRecord)
           /\ Len(steps') = IF n = 0 THEN Len(steps) + 1 ELSE Len(steps)
           /\ \A m \in DOMAIN steps \ {n} : steps'[m] = steps[m]
           /\ steps'[Place(n)] = r
  BY DEF WorkflowTypeOK, Save, Place

LEMMA BranchesAreFinite ==
    ASSUME NEW s \in Seq(Steps)
    PROVE  IsFiniteSet(ToSet(s)) /\ \A x : x \in ToSet(s) <=> \E i \in 1..Len(s) : s[i] = x
  <1>1. ToSet(s) = {s[i] : i \in 1..Len(s)} /\ IsFiniteSet(1..Len(s))
    <2>1. DOMAIN s = 1..Len(s) /\ Len(s) \in Nat
      OBVIOUS
    <2>2. IsFiniteSet(1..Len(s))
      BY <2>1, FS_Interval
    <2>3. QED
      BY <2>1, <2>2 DEF ToSet
  <1> DEFINE F == [i \in 1..Len(s) |-> s[i]]
  <1>2. F \in Surjection(1..Len(s), ToSet(s))
    BY <1>1 DEF Surjection
  <1>3. QED
    BY <1>1, <1>2, FS_Surjection

-----------------------------------------------------------------------------
(* What each step does to the task that takes it.                          *)

\* The other tasks stay as they are, and none is created.
Turns(t) ==
    /\ tasks' \in Seq(TaskRecord) /\ Len(tasks') = Len(tasks) /\ DOMAIN tasks' = DOMAIN tasks
    /\ \A u \in DOMAIN tasks \ {t} : tasks'[u] = tasks[u]

LEMMA TaskParts ==
    ASSUME WorkflowTypeOK, NEW t \in DOMAIN tasks
    PROVE  /\ tasks[t] \in TaskRecord /\ tasks[t].record \in StepRecord
           /\ tasks[t].record.step \in Steps /\ tasks[t].record.attempt \in Nat \ {0}
           /\ tasks[t].instance \in Instance /\ tasks[t].output \in SUBSET Steps
           /\ tasks[t].at \in Nat
           /\ tasks[t].next \in Seq(Kinds \cup Steps \cup Undo)
  <1>1. tasks[t] \in TaskRecord
    BY DEF WorkflowTypeOK
  <1>2. /\ tasks[t].record \in StepRecord /\ tasks[t].instance \in Instance
        /\ tasks[t].output \in SUBSET Steps /\ tasks[t].at \in Nat
        /\ tasks[t].next \in Seq(Kinds \cup Steps \cup Undo)
    BY <1>1 DEF TaskRecord
  <1>3. tasks[t].record.step \in Steps /\ tasks[t].record.attempt \in Nat \ {0}
    BY <1>2 DEF StepRecord
  <1>4. QED
    BY <1>1, <1>2, <1>3

LEMMA TurnsTo ==
    ASSUME WorkflowTypeOK, NEW t \in DOMAIN tasks, NEW x \in TaskRecord,
           tasks' = [tasks EXCEPT ![t] = x]
    PROVE  Turns(t) /\ tasks'[t] = x
  BY SomeTasks DEF WorkflowTypeOK, Turns

LEMMA HandlerSucceedsDoes ==
    ASSUME BaseInv, NEW t \in DOMAIN tasks, HandlerSucceeds(t)
    PROVE  /\ Turns(t) /\ tasks[t].pc = "handler" /\ tasks[t].at \in DOMAIN steps
           /\ tasks'[t] = [tasks[t] EXCEPT !.pc = "completed", !.record = tasks'[t].record,
                                           !.output = WithOutput \cap {tasks[t].record.step}]
           /\ tasks'[t].record \in StepRecord
           /\ tasks'[t].record = [tasks[t].record EXCEPT !.status = "completed", !.completedAt = clock]
           /\ steps' \in Seq(StepRecord) /\ Len(steps') = Len(steps)
           /\ \A n \in DOMAIN steps \ {tasks[t].at} : steps'[n] = steps[n]
           /\ steps'[tasks[t].at] = tasks'[t].record
           /\ UNCHANGED <<instance, waiters, holder, clock, calls>>
  <1> DEFINE r == [tasks[t].record EXCEPT !.status = "completed", !.completedAt = clock]
             x == [tasks[t] EXCEPT !.pc = "completed", !.record = r,
                                   !.output = WithOutput \cap {tasks[t].record.step}]
  <1>0. clock \in Nat /\ tasks[t].record \in StepRecord /\ tasks[t] \in TaskRecord
        /\ "completed" \in DOMAIN StepTransitions
    BY TaskParts, Tables DEF BaseInv, WorkflowTypeOK
  <1>1. r \in StepRecord
    BY <1>0 DEF StepRecord
  <1>2. x \in TaskRecord
    <2>1. WithOutput \cap {tasks[t].record.step} \in SUBSET Steps
      BY FirstIsFirst
    <2> HIDE DEF r
    <2>2. QED
      BY <1>0, <1>1, <2>1 DEF TaskRecord, Advancing
  <1>3. tasks' = [tasks EXCEPT ![t] = x] /\ Save(tasks[t].at, r)
    BY <1>1 DEF HandlerSucceeds
  <1>4. tasks[t].pc = "handler" /\ tasks[t].at \in DOMAIN steps /\ tasks[t].at # 0
        /\ UNCHANGED <<instance, waiters, holder, clock, calls>>
    BY DEF HandlerSucceeds, BaseInv, PlaceInv, Placed, Writes, WorkflowTypeOK
  <1>5. Place(tasks[t].at) = tasks[t].at
    BY <1>4 DEF Place
  <1> HIDE DEF r
  <1>6. Turns(t) /\ tasks'[t] = x
    BY <1>2, <1>3, TurnsTo DEF BaseInv
  <1>7. steps' \in Seq(StepRecord) /\ Len(steps') = Len(steps)
        /\ (\A n \in DOMAIN steps \ {tasks[t].at} : steps'[n] = steps[n])
        /\ steps'[tasks[t].at] = r
    BY <1>1, <1>3, <1>4, <1>5, SavedStep DEF BaseInv
  <1>8. QED
    BY <1>1, <1>2, <1>4, <1>6, <1>7 DEF r

LEMMA GoneTo ==
    ASSUME WorkflowTypeOK, NEW t \in DOMAIN tasks, Goto(t, "failed") \/ Goto(t, "chained")
    PROVE  /\ Turns(t)
           /\ Goto(t, "failed") => tasks'[t] = [tasks[t] EXCEPT !.pc = "failed"]
           /\ Goto(t, "chained") => tasks'[t] = [tasks[t] EXCEPT !.pc = "chained"]
  <1>1. tasks[t] \in TaskRecord
    BY TaskParts
  <1>2. [tasks[t] EXCEPT !.pc = "failed"] \in TaskRecord
        /\ [tasks[t] EXCEPT !.pc = "chained"] \in TaskRecord
    BY <1>1 DEF TaskRecord, Advancing, Failing
  <1>3. QED
    BY <1>2, TurnsTo DEF Goto

LEMMA Ended ==
    ASSUME WorkflowTypeOK, NEW t \in DOMAIN tasks, End(t)
    PROVE  Turns(t) /\ tasks'[t] = Done
  BY TurnsTo, DoneIsDone DEF End

LEMMA HandlerRetriesDoes ==
    ASSUME BaseInv, NEW t \in DOMAIN tasks, HandlerRetries(t)
    PROVE  /\ Turns(t) /\ tasks[t].pc = "handler"
           /\ CanRetry(tasks[t].record.step, tasks[t].record.attempt)
           /\ tasks'[t] = [tasks[t] EXCEPT !.record = tasks'[t].record]
           /\ tasks'[t].record \in StepRecord
           /\ tasks'[t].record = [tasks[t].record EXCEPT !.attempt = tasks[t].record.attempt + 1]
           /\ UNCHANGED <<instance, steps, waiters, holder, clock, calls>>
  <1> DEFINE r == [tasks[t].record EXCEPT !.attempt = tasks[t].record.attempt + 1]
             x == [tasks[t] EXCEPT !.record = r]
  <1>1. tasks[t].record \in StepRecord /\ tasks[t] \in TaskRecord
    BY TaskParts DEF BaseInv
  <1>2. r \in StepRecord
    BY <1>1 DEF StepRecord
  <1>3. tasks' = [tasks EXCEPT ![t] = x]
    BY DEF HandlerRetries
  <1> HIDE DEF r
  <1>4. x \in TaskRecord /\ x.record = r
    BY <1>1, <1>2 DEF TaskRecord
  <1>5. Turns(t) /\ tasks'[t] = x
    BY <1>3, <1>4, TurnsTo DEF BaseInv
  <1>6. QED
    BY <1>2, <1>4, <1>5 DEF HandlerRetries, r

LEMMA HandlerFailsDoes ==
    ASSUME BaseInv, NEW t \in DOMAIN tasks, HandlerFails(t)
    PROVE  /\ Turns(t) /\ tasks[t].pc = "handler" /\ tasks[t].at \in DOMAIN steps
           /\ ~ CanRetry(tasks[t].record.step, tasks[t].record.attempt)
           /\ tasks'[t] = [tasks[t] EXCEPT !.pc = "failed"]
           /\ steps' \in Seq(StepRecord) /\ Len(steps') = Len(steps)
           /\ \A n \in DOMAIN steps \ {tasks[t].at} : steps'[n] = steps[n]
           /\ steps'[tasks[t].at] = [tasks[t].record EXCEPT !.status = "failed"]
           /\ UNCHANGED <<instance, waiters, holder, clock, calls>>
  <1> DEFINE r == [tasks[t].record EXCEPT !.status = "failed"]
  <1>1. tasks[t].record \in StepRecord /\ "failed" \in DOMAIN StepTransitions
    BY TaskParts, Tables DEF BaseInv
  <1>2. r \in StepRecord
    BY <1>1 DEF StepRecord
  <1>3. Save(tasks[t].at, r) /\ Turns(t) /\ tasks'[t] = [tasks[t] EXCEPT !.pc = "failed"]
    BY GoneTo DEF HandlerFails, BaseInv
  <1>4. tasks[t].pc = "handler" /\ tasks[t].at \in DOMAIN steps /\ tasks[t].at # 0
        /\ ~ CanRetry(tasks[t].record.step, tasks[t].record.attempt)
        /\ UNCHANGED <<instance, waiters, holder, clock, calls>>
    BY DEF HandlerFails, BaseInv, PlaceInv, Placed, Writes, WorkflowTypeOK
  <1>5. Place(tasks[t].at) = tasks[t].at
    BY <1>4 DEF Place
  <1> HIDE DEF r
  <1>6. steps' \in Seq(StepRecord) /\ Len(steps') = Len(steps)
        /\ (\A n \in DOMAIN steps \ {tasks[t].at} : steps'[n] = steps[n])
        /\ steps'[tasks[t].at] = r
    BY <1>2, <1>3, <1>4, <1>5, SavedStep DEF BaseInv
  <1>7. QED
    BY <1>3, <1>4, <1>6 DEF r

LEMMA CallAdvanceDoes ==
    ASSUME BaseInv, NEW t \in DOMAIN tasks, CallAdvance(t)
    PROVE  /\ Turns(t) /\ tasks[t].pc = "completed"
           /\ \/ /\ waiters' = waiters
                 /\ tasks'[t] = [tasks[t] EXCEPT !.pc = "entered", !.instance = instance]
              \/ /\ waiters' = Append(waiters, t)
                 /\ tasks'[t] = [tasks[t] EXCEPT !.pc = "chained"]
           /\ UNCHANGED <<instance, steps, holder, clock, calls>>
  <1> DEFINE x == [tasks[t] EXCEPT !.pc = "entered", !.instance = instance]
  <1>1. tasks[t] \in TaskRecord /\ instance \in Instance
    BY TaskParts DEF BaseInv, WorkflowTypeOK
  <1>2. x \in TaskRecord
    BY <1>1 DEF TaskRecord, Advancing
  <1>3. CASE holder # 0
    <2>1. tasks' = [tasks EXCEPT ![t] = x] /\ waiters' = waiters
      BY <1>3 DEF CallAdvance
    <2>2. Turns(t) /\ tasks'[t] = x
      BY <1>2, <2>1, TurnsTo DEF BaseInv
    <2>3. QED
      BY <2>1, <2>2 DEF CallAdvance
  <1>4. CASE holder = 0
    <2>1. Goto(t, "chained") /\ waiters' = Append(waiters, t)
      BY <1>4 DEF CallAdvance
    <2>2. Turns(t) /\ tasks'[t] = [tasks[t] EXCEPT !.pc = "chained"]
      BY <2>1, GoneTo DEF BaseInv
    <2>3. QED
      BY <2>1, <2>2 DEF CallAdvance
  <1>5. QED
    BY <1>3, <1>4

LEMMA EnterLockDoes ==
    ASSUME BaseInv, NEW t \in DOMAIN tasks, EnterLock(t)
    PROVE  /\ Turns(t) /\ tasks[t].pc = "chained"
           /\ waiters # <<>> /\ waiters[1] = t /\ waiters' = Tail(waiters) /\ holder' = t
           /\ tasks'[t] = [tasks[t] EXCEPT !.pc = "entered", !.instance = instance]
           /\ UNCHANGED <<instance, steps, clock, calls>>
  <1> DEFINE x == [tasks[t] EXCEPT !.pc = "entered", !.instance = instance]
  <1>1. tasks[t] \in TaskRecord /\ instance \in Instance
    BY TaskParts DEF BaseInv, WorkflowTypeOK
  <1>2. x \in TaskRecord
    BY <1>1 DEF TaskRecord, Advancing
  <1>3. tasks' = [tasks EXCEPT ![t] = x]
    BY DEF EnterLock
  <1>4. Turns(t) /\ tasks'[t] = x
    BY <1>2, <1>3, TurnsTo DEF BaseInv
  <1>5. waiters # <<>> /\ waiters[1] = t /\ 1 \in DOMAIN waiters
    BY DEF EnterLock, BaseInv, WorkflowTypeOK
  <1>6. tasks[t].pc = "chained"
    BY <1>5 DEF BaseInv, ChainInv
  <1>7. QED
    BY <1>4, <1>5, <1>6 DEF EnterLock

Merged(t) == [tasks[t].instance EXCEPT !.variables = tasks[t].instance.variables \cup tasks[t].output]

LEMMA MergeOutputDoes ==
    ASSUME BaseInv, NEW t \in DOMAIN tasks, MergeOutput(t)
    PROVE  /\ Turns(t) /\ tasks[t].pc = "entered" /\ Merged(t) \in Instance
           /\ tasks'[t] = [tasks[t] EXCEPT !.pc = "merged", !.instance = Merged(t)]
           /\ instance' = IF tasks[t].output # {} THEN Merged(t) ELSE instance
           /\ UNCHANGED <<steps, waiters, holder, clock, calls>>
  <1> DEFINE x == [tasks[t] EXCEPT !.pc = "merged", !.instance = Merged(t)]
  <1>1. tasks[t] \in TaskRecord /\ tasks[t].instance \in Instance
        /\ tasks[t].output \in SUBSET Steps
    BY TaskParts DEF BaseInv
  <1>2. Merged(t) \in Instance
    BY <1>1 DEF Instance, Merged
  <1>3. x \in TaskRecord
    BY <1>1, <1>2 DEF TaskRecord, Advancing
  <1>4. tasks' = [tasks EXCEPT ![t] = x]
        /\ instance' = (IF tasks[t].output # {} THEN Merged(t) ELSE instance)
        /\ tasks[t].pc = "entered" /\ UNCHANGED <<steps, waiters, holder, clock, calls>>
    BY DEF MergeOutput, Merged
  <1> HIDE DEF x
  <1>5. Turns(t) /\ tasks'[t] = x
    BY <1>3, <1>4, TurnsTo DEF BaseInv
  <1>6. QED
    BY <1>2, <1>4, <1>5 DEF x

\* The decisions that can be taken after step s.
Decisions(s) == LET forks == {f \in Forks : s \in ToSet(f.branches)}
                IN  IF forks # {} THEN {DecideJoin(f) : f \in forks} ELSE Resolutions(s)

LEMMA DecisionParts ==
    ASSUME NEW s \in Steps, NEW d \in Decisions(s)
    PROVE  /\ d # <<>> /\ d \in Seq(Kinds \cup Steps \cup Undo) /\ Tail(d) \in Seq(Steps)
           /\ \/ d \in {<<"none">>, <<"complete">>, <<"error">>} /\ d[1] # "start"
              \/ \E f \in Forks : /\ s \in ToSet(f.branches) /\ Quorum(f)
                                  /\ d = <<"start", f.to>> /\ Tail(d) = <<f.to>>
              \/ \E x \in Transitions : /\ x \notin Forks /\ x.from = s
                                        /\ d = <<"start", x.to>> /\ Tail(d) = <<x.to>>
              \/ \E f \in Forks : d = <<"start">> \o f.branches /\ Tail(d) = f.branches
  <1> DEFINE A == Kinds \cup Steps \cup Undo
  <1>0. Kinds \cup Steps \subseteq A /\ Kinds = {"start", "none", "complete", "error"}
    BY DEF Kinds
  <1>1. ASSUME NEW w \in {"none", "complete", "error"}
        PROVE  /\ <<w>> # <<>> /\ <<w>> \in Seq(A) /\ Tail(<<w>>) \in Seq(Steps)
               /\ <<w>>[1] # "start"
    <2>1. w \in A
      BY <1>0
    <2>2. QED
      BY <2>1
  <1>2. ASSUME NEW y \in Steps
        PROVE  LET e == <<"start", y>>
               IN  e # <<>> /\ e \in Seq(A) /\ Tail(e) \in Seq(Steps) /\ Tail(e) = <<y>>
    <2>1. "start" \in A /\ y \in A
      BY <1>0
    <2> HIDE DEF A
    <2>2. QED
      BY <2>1
  <1>3. ASSUME NEW f \in Forks
        PROVE  LET e == <<"start">> \o f.branches
               IN  e # <<>> /\ e \in Seq(A) /\ Tail(e) \in Seq(Steps) /\ Tail(e) = f.branches
    <2> DEFINE p == <<"start">>
               q == f.branches
               e == p \o q
    <2>1. q \in Seq(Steps)
      BY FirstIsFirst
    <2>2. q \in Seq(A)
      BY <1>0, <2>1, SeqMonotonic
    <2>3. p \in Seq(A)
      <3>1. "start" \in A
        BY <1>0
      <3> HIDE DEF A
      <3>2. QED
        BY <3>1
    <2>9. Len(p) = 1 /\ Len(q) \in Nat
      BY <2>1
    <2> HIDE DEF p, q, A
    <2>4. e \in Seq(A) /\ Len(e) = Len(p) + Len(q)
          /\ \A i \in 1..Len(q) : e[Len(p) + i] = q[i]
      BY <2>2, <2>3, Extended
    <2>10. e \in Seq(A) /\ Len(e) = 1 + Len(q) /\ e # <<>>
           /\ \A i \in 1..Len(q) : e[i + 1] = q[i]
      BY <2>4, <2>9
    <2>5. Tail(e) \in Seq(A) /\ Len(Tail(e)) = Len(q) /\ \A i \in 1..Len(q) : Tail(e)[i] = q[i]
      BY <2>9, <2>10, HeadTailProperties
    <2>7. Tail(e) = q
      BY <2>2, <2>5, SeqEqual
    <2>8. QED
      BY <2>1, <2>7, <2>10 DEF p, q, A
  <1>4. CASE \E f \in Forks : s \in ToSet(f.branches)
    <2>1. PICK f \in Forks : s \in ToSet(f.branches) /\ d = DecideJoin(f)
      BY <1>4 DEF Decisions
    <2>2. d = <<"none">> \/ (Quorum(f) /\ d = <<"start", f.to>>)
      <3>1. CASE Cardinality(CompletedBranches(f)) < f.required
        BY <2>1, <3>1 DEF DecideJoin
      <3>2. CASE ~ (Cardinality(CompletedBranches(f)) < f.required)
        <4>1. CompletedBranches(f) \in SUBSET ToSet(f.branches)
          BY DEF CompletedBranches
        <4>2. IsFiniteSet(ToSet(f.branches))
          <5>1. f.branches \in Seq(Steps)
            BY FirstIsFirst
          <5>2. QED
            BY <5>1, BranchesAreFinite
        <4>3. Cardinality(CompletedBranches(f)) \in Nat /\ f.required \in Nat
          BY <4>1, <4>2, FS_Subset, FS_CardinalityType, FirstIsFirst
        <4>4. Quorum(f)
          BY <3>2, <4>3 DEF Quorum
        <4>5. QED
          BY <2>1, <4>4 DEF DecideJoin
      <3>3. QED
        BY <3>1, <3>2
    <2>3. f.to \in Steps
      BY FirstIsFirst
    <2>4. QED
      BY <1>1, <1>2, <2>1, <2>2, <2>3
  <1>5. CASE ~ \E f \in Forks : s \in ToSet(f.branches)
    <2>1. d \in Resolutions(s)
      BY <1>5 DEF Decisions
    <2>2. \/ d \in {<<"none">>, <<"complete">>, <<"error">>}
          \/ \E x \in Transitions : x \notin Forks /\ x.from = s /\ d = <<"start", x.to>>
          \/ \E f \in Forks : d = <<"start">> \o f.branches
      BY <2>1 DEF Resolutions, Forks
    <2>3. \A x \in Transitions : x.to \in Steps
      BY WorkflowAssumption
    <2>4. QED
      BY <1>1, <1>2, <1>3, <2>2, <2>3
  <1>6. QED
    BY <1>4, <1>5

LEMMA DecideDoes ==
    ASSUME BaseInv, NEW t \in DOMAIN tasks, Decide(t)
    PROVE  /\ Turns(t) /\ tasks[t].pc = "merged"
           /\ tasks'[t] = [tasks[t] EXCEPT !.pc = "decided", !.next = tasks'[t].next]
           /\ tasks'[t].next \in Decisions(tasks[t].record.step)
           /\ UNCHANGED <<instance, steps, waiters, holder, clock, calls>>
  <1>1. PICK d \in Decisions(tasks[t].record.step) :
            tasks' = [tasks EXCEPT ![t] = [tasks[t] EXCEPT !.pc = "decided", !.next = d]]
    BY Zenon DEF Decide, Decisions
  <1> DEFINE x == [tasks[t] EXCEPT !.pc = "decided", !.next = d]
  <1>2. tasks[t] \in TaskRecord /\ tasks[t].record.step \in Steps
    BY TaskParts DEF BaseInv
  <1>3. d \in Seq(Kinds \cup Steps \cup Undo)
    BY <1>2, DecisionParts
  <1>4. x \in TaskRecord /\ x.next = d
    BY <1>2, <1>3 DEF TaskRecord, Advancing
  <1>5. Turns(t) /\ tasks'[t] = x
    BY <1>1, <1>4, TurnsTo DEF BaseInv
  <1>6. QED
    BY <1>4, <1>5 DEF Decide

\* Steps `ids` are started with the copy `inst`.
Began(ids, inst) ==
    /\ steps' \in Seq(StepRecord) /\ Len(steps') = Len(steps) + Len(ids)
    /\ tasks' \in Seq(TaskRecord) /\ Len(tasks') = Len(tasks) + Len(ids)
    /\ \A n \in DOMAIN steps : steps'[n] = steps[n]
    /\ \A i \in 1..Len(ids) :
          /\ steps'[Len(steps) + i] = StepInstance(ids[i])
          /\ tasks'[Len(tasks) + i] =
                IF ids[i] \in Handled \ Waits
                  THEN Task("run", "handler", Len(steps) + i, StepInstance(ids[i]), inst)
                  ELSE Done

\* What is new after that.
LEMMA Newcomers ==
    ASSUME BaseInv, NEW ids \in Seq(Steps), NEW inst \in Instance, Began(ids, inst)
    PROVE  /\ DOMAIN steps \subseteq DOMAIN steps' /\ DOMAIN tasks \subseteq DOMAIN tasks'
           /\ \A n \in DOMAIN steps' \ DOMAIN steps :
                 /\ n - Len(steps) \in 1..Len(ids) /\ ids[n - Len(steps)] \in Steps
                 /\ steps'[n] = StepInstance(ids[n - Len(steps)])
           /\ \A u \in DOMAIN tasks' \ DOMAIN tasks :
                 \/ tasks'[u] = Done
                 \/ /\ u - Len(tasks) \in 1..Len(ids)
                    /\ ids[u - Len(tasks)] \in Handled \ Waits
                    /\ tasks'[u].pc = "handler" /\ tasks'[u].op = "run"
                    /\ tasks'[u].at = Len(steps) + (u - Len(tasks))
                    /\ tasks'[u].at \in DOMAIN steps' \ DOMAIN steps
                    /\ tasks'[u].record = steps'[tasks'[u].at]
                    /\ tasks'[u].record = StepInstance(ids[u - Len(tasks)])
                    /\ tasks'[u].instance = inst /\ tasks'[u].output = {}
  <1>1. /\ DOMAIN steps = 1..Len(steps) /\ DOMAIN tasks = 1..Len(tasks)
        /\ DOMAIN steps' = 1..(Len(steps) + Len(ids))
        /\ DOMAIN tasks' = 1..(Len(tasks) + Len(ids))
        /\ Len(steps) \in Nat /\ Len(tasks) \in Nat /\ Len(ids) \in Nat
    BY DEF BaseInv, WorkflowTypeOK, Began
  <1>2. ASSUME NEW n \in DOMAIN steps' \ DOMAIN steps
        PROVE  /\ n - Len(steps) \in 1..Len(ids) /\ ids[n - Len(steps)] \in Steps
               /\ steps'[n] = StepInstance(ids[n - Len(steps)])
    <2>1. n - Len(steps) \in 1..Len(ids) /\ Len(steps) + (n - Len(steps)) = n
      BY <1>1
    <2>2. QED
      BY <2>1 DEF Began
  <1>3. ASSUME NEW u \in DOMAIN tasks' \ DOMAIN tasks, tasks'[u] # Done
        PROVE  /\ u - Len(tasks) \in 1..Len(ids)
               /\ ids[u - Len(tasks)] \in Handled \ Waits
               /\ tasks'[u].pc = "handler" /\ tasks'[u].op = "run"
               /\ tasks'[u].at = Len(steps) + (u - Len(tasks))
               /\ tasks'[u].at \in DOMAIN steps' \ DOMAIN steps
               /\ tasks'[u].record = steps'[tasks'[u].at]
               /\ tasks'[u].record = StepInstance(ids[u - Len(tasks)])
               /\ tasks'[u].instance = inst /\ tasks'[u].output = {}
    <2> DEFINE i == u - Len(tasks)
               n == Len(steps) + i
               r == StepInstance(ids[i])
    <2>1. i \in 1..Len(ids) /\ Len(tasks) + i = u /\ n \in DOMAIN steps' \ DOMAIN steps /\ n \in Nat
      BY <1>1
    <2>2. ids[i] \in Steps /\ steps'[n] = r
      BY <2>1 DEF Began
    <2>3. r \in StepRecord
      BY <2>2, NewInstance DEF BaseInv
    <2>4. ids[i] \in Handled \ Waits /\ tasks'[u] = Task("run", "handler", n, r, inst)
      BY <1>3, <2>1 DEF Began
    <2> HIDE DEF i, n, r
    <2>5. /\ tasks'[u].pc = "handler" /\ tasks'[u].op = "run" /\ tasks'[u].at = n
          /\ tasks'[u].record = r /\ tasks'[u].instance = inst /\ tasks'[u].output = {}
      BY <2>4 DEF Task
    <2>6. QED
      BY <2>1, <2>2, <2>4, <2>5 DEF i, n, r
  <1>4. DOMAIN steps \subseteq DOMAIN steps' /\ DOMAIN tasks \subseteq DOMAIN tasks'
    BY <1>1
  <1>5. QED
    BY <1>2, <1>3, <1>4

\* A task ends and starts steps.
LEMMA EndedAndBegan ==
    ASSUME BaseInv, NEW t \in DOMAIN tasks, NEW ids \in Seq(Steps), NEW inst \in Instance,
           StartSteps(ids, inst, [tasks EXCEPT ![t] = Done])
    PROVE  /\ Began(ids, inst) /\ tasks'[t] = Done
           /\ \A u \in DOMAIN tasks \ {t} : tasks'[u] = tasks[u]
  <1> DEFINE ended == [tasks EXCEPT ![t] = Done]
  <1>1. Done \in TaskRecord
    BY DoneIsDone DEF BaseInv
  <1>2. ended \in Seq(TaskRecord) /\ Len(ended) = Len(tasks) /\ DOMAIN ended = DOMAIN tasks
        /\ ended[t] = Done /\ \A u \in DOMAIN tasks \ {t} : ended[u] = tasks[u]
    BY <1>1, SomeTasks DEF BaseInv, WorkflowTypeOK
  <1> HIDE DEF ended
  <1>3. StartSteps(ids, inst, ended)
    BY DEF ended
  <1>4. Began(ids, inst) /\ \A u \in DOMAIN ended : tasks'[u] = ended[u]
    BY <1>2, <1>3, StartedSteps DEF Began, BaseInv
  <1>5. QED
    BY <1>2, <1>4

LEMMA ContinueDoes ==
    ASSUME BaseInv, NEW t \in DOMAIN tasks, Continue(t)
    PROVE  /\ tasks[t].pc = "decided" /\ tasks'[t] = Done
           /\ \A u \in DOMAIN tasks \ {t} : tasks'[u] = tasks[u]
           /\ holder' \in {holder, 0} /\ UNCHANGED <<waiters, clock, calls>>
           /\ Tail(tasks[t].next) \in Seq(Steps)
           /\ \/ /\ tasks[t].next[1] = "start"
                 /\ Began(Tail(tasks[t].next), tasks[t].instance)
                 /\ UNCHANGED instance
              \/ /\ tasks[t].next[1] # "start"
                 /\ Turns(t) /\ UNCHANGED steps
                 /\ \/ UNCHANGED instance
                    \/ /\ tasks[t].next[1] = "complete" /\ tasks[t].instance.status = "running"
                       /\ instance' = [tasks[t].instance EXCEPT !.status = "completed"]
                 /\ tasks[t].next[1] = "complete" /\ tasks[t].instance.status = "running" =>
                       instance' = [tasks[t].instance EXCEPT !.status = "completed"]
  <1> DEFINE ids == Tail(tasks[t].next)
             inst == tasks[t].instance
  <1>1. tasks[t].pc = "decided" /\ holder' \in {holder, 0} /\ UNCHANGED <<waiters, clock, calls>>
    BY DEF Continue
  <1>2. ids \in Seq(Steps) /\ tasks[t].next # <<>>
    BY <1>1 DEF BaseInv, PlaceInv, Placed
  <1>3. inst \in Instance /\ inst.status \in DOMAIN WorkflowTransitions
    BY TaskParts DEF BaseInv, Instance
  <1>4. Head(tasks[t].next) = tasks[t].next[1]
    OBVIOUS
  <1> HIDE DEF ids
  <1>5. CASE Head(tasks[t].next) = "start"
    <2>1. StartSteps(ids, inst, [tasks EXCEPT ![t] = Done]) /\ UNCHANGED instance
      BY <1>5 DEF Continue, ids
    <2>2. Began(ids, inst) /\ tasks'[t] = Done /\ \A u \in DOMAIN tasks \ {t} : tasks'[u] = tasks[u]
      BY <1>2, <1>3, <2>1, EndedAndBegan
    <2>3. QED
      BY <1>1, <1>2, <1>4, <1>5, <2>1, <2>2 DEF ids
  <1>6. CASE Head(tasks[t].next) # "start"
    <2>1. End(t) /\ UNCHANGED steps
      BY <1>6 DEF Continue
    <2>2. instance' = IF Head(tasks[t].next) = "complete" /\ CanTransitionWorkflow(inst.status, "completed")
                        THEN [inst EXCEPT !.status = "completed"] ELSE instance
      BY <1>6 DEF Continue
    <2>3. Turns(t) /\ tasks'[t] = Done /\ \A u \in DOMAIN tasks \ {t} : tasks'[u] = tasks[u]
      BY <2>1, Ended DEF BaseInv, Turns
    <2>4. CanTransitionWorkflow(inst.status, "completed") <=> inst.status = "running"
      BY <1>3, InstanceMoves
    <2>5. QED
      BY <1>1, <1>2, <1>4, <1>6, <2>1, <2>2, <2>3, <2>4 DEF ids
  <1>7. QED
    BY <1>5, <1>6

\* A finite set with a strict total order can be listed in that order.
LEMMA CanBeSorted ==
    ASSUME NEW S, IsFiniteSet(S), NEW R,
           \A x \in S : <<x, x>> \notin R,
           \A x, y, z \in S : <<x, y>> \in R /\ <<y, z>> \in R => <<x, z>> \in R,
           \A x, y \in S : x # y => <<x, y>> \in R \/ <<y, x>> \in R
    PROVE  \E s \in [1..Cardinality(S) -> S] :
              \A i, j \in 1..Cardinality(S) : i < j => <<s[i], s[j]>> \in R
  <1> DEFINE n == Cardinality(S)
             before == [x \in S |-> {y \in S : <<y, x>> \in R}]
             rank == [x \in S |-> Cardinality(before[x]) + 1]
             s == [i \in 1..n |-> CHOOSE x \in S : rank[x] = i]
  <1>1. n \in Nat
    BY FS_CardinalityType
  <1>2. \A x \in S : IsFiniteSet(before[x]) /\ Cardinality(before[x]) \in Nat
    BY FS_Subset, FS_CardinalityType
  <1>3. ASSUME NEW x \in S
        PROVE  rank[x] \in 1..n
    <2>1. before[x] \in SUBSET S /\ before[x] # S
      OBVIOUS
    <2>2. Cardinality(before[x]) <= n /\ Cardinality(before[x]) # n
      BY <2>1, FS_Subset
    <2>3. QED
      BY <1>1, <1>2, <2>2
  <1>4. ASSUME NEW x \in S, NEW y \in S, <<x, y>> \in R
        PROVE  rank[x] < rank[y]
    <2>1. before[x] \in SUBSET before[y] /\ before[x] # before[y]
      BY <1>4
    <2>2. Cardinality(before[x]) <= Cardinality(before[y])
          /\ Cardinality(before[x]) # Cardinality(before[y])
      BY <1>2, <2>1, FS_Subset
    <2>3. QED
      BY <1>2, <2>2
  <1>13. rank \in [S -> 1..n]
    BY <1>3
  <1> HIDE DEF rank, n
  <1>5. rank \in Injection(S, 1..n)
    <2>1. ASSUME NEW x \in S, NEW y \in S, x # y
          PROVE  rank[x] # rank[y]
      <3>1. rank[x] \in 1..n /\ rank[y] \in 1..n /\ (rank[x] < rank[y] \/ rank[y] < rank[x])
        BY <1>3, <1>4, <2>1
      <3>2. QED
        BY <1>1, <3>1
    <2>2. QED
      BY <1>13, <2>1 DEF Injection, IsInjective
  <1>6. IsFiniteSet(1..n) /\ Cardinality(1..n) = n
    BY <1>1, FS_Interval
  <1>7. rank \in Surjection(S, 1..n)
    BY <1>5, <1>6, FS_Injection DEF n
  <1>8. \A i \in 1..n : \E x \in S : rank[x] = i
    BY <1>7 DEF Surjection
  <1>9. \A i \in 1..n : s[i] \in S /\ rank[s[i]] = i
    BY <1>8
  <1>10. ASSUME NEW i \in 1..n, NEW j \in 1..n, i < j
         PROVE  <<s[i], s[j]>> \in R
    <2>1. s[i] \in S /\ s[j] \in S /\ rank[s[i]] = i /\ rank[s[j]] = j
      BY <1>9
    <2> HIDE DEF s
    <2>2. s[i] # s[j] /\ ~ (rank[s[j]] < rank[s[i]])
      BY <1>1, <1>10, <2>1
    <2>3. QED
      BY <1>4, <2>1, <2>2
  <1>11. s \in [1..n -> S]
    BY <1>9
  <1>12. QED
    BY <1>10, <1>11 DEF n

LEMMA StepsInPlace ==
    ASSUME WorkflowTypeOK
    PROVE  /\ DOMAIN steps = 1..Len(steps) /\ Len(steps) \in Nat
           /\ \A n \in DOMAIN steps : n \in Nat \ {0} /\ steps[n] \in StepRecord
           /\ \A n \in DOMAIN steps : steps[n].step \in Steps /\ steps[n].completedAt \in Nat
  <1>1. DOMAIN steps = 1..Len(steps) /\ Len(steps) \in Nat
        /\ \A n \in DOMAIN steps : n \in Nat \ {0} /\ steps[n] \in StepRecord
    BY DEF WorkflowTypeOK
  <1>2. \A r \in StepRecord : r.step \in Steps /\ r.completedAt \in Nat
    BY DEF StepRecord
  <1>3. QED
    BY <1>1, <1>2

LEMMA CompensatedInOrder ==
    ASSUME WorkflowTypeOK
    PROVE  /\ ToCompensate \in Seq(Undoable)
           /\ \A i, j \in 1..Len(ToCompensate) : i < j => Later(ToCompensate[i], ToCompensate[j])
           /\ \A n \in Undoable : \E i \in 1..Len(ToCompensate) : ToCompensate[i] = n
  <1> DEFINE S == Undoable
             n == Cardinality(S)
             R == {p \in S \X S : Later(p[1], p[2])}
             T == ToCompensate
  <1>1. S \in SUBSET (1..Len(steps)) /\ IsFiniteSet(1..Len(steps))
    BY StepsInPlace, FS_Interval DEF Undoable
  <1>2. IsFiniteSet(S) /\ n \in Nat
    BY <1>1, FS_Subset, FS_CardinalityType
  <1>3. \A x \in S : x \in Nat /\ steps[x].completedAt \in Nat
    BY StepsInPlace DEF Undoable
  <1> HIDE DEF S
  <1>4. \A x, y \in S : <<x, y>> \in R <=> Later(x, y)
    OBVIOUS
  <1>5. \A x \in S : ~ Later(x, x)
    BY <1>3 DEF Later
  <1>6. \A x, y, z \in S : Later(x, y) /\ Later(y, z) => Later(x, z)
    BY <1>3 DEF Later
  <1>7. \A x, y \in S : x # y => Later(x, y) \/ Later(y, x)
    BY <1>3 DEF Later
  <1> HIDE DEF R
  <1>8. PICK s \in [1..n -> S] : \A i, j \in 1..n : i < j => <<s[i], s[j]>> \in R
    <2>1. \A x \in S : <<x, x>> \notin R
      BY <1>4, <1>5
    <2>2. \A x, y, z \in S : <<x, y>> \in R /\ <<y, z>> \in R => <<x, z>> \in R
      BY <1>4, <1>6
    <2>3. \A x, y \in S : x # y => <<x, y>> \in R \/ <<y, x>> \in R
      BY <1>4, <1>7
    <2>4. QED
      BY <1>2, <2>1, <2>2, <2>3, CanBeSorted
  <1>9. \A i, j \in DOMAIN s : i < j => Later(s[i], s[j])
    BY <1>4, <1>8
  <1>10. T = CHOOSE q \in [1..n -> S] : \A i, j \in DOMAIN q : i < j => Later(q[i], q[j])
    BY DEF ToCompensate, S
  <1> HIDE DEF T
  <1>11. T \in [1..n -> S] /\ \A i, j \in DOMAIN T : i < j => Later(T[i], T[j])
    BY <1>8, <1>9, <1>10
  <1>12. T \in Injection(1..n, S)
    <2>1. ASSUME NEW i \in 1..n, NEW j \in 1..n, i # j
          PROVE  T[i] # T[j]
      <3>1. CASE i < j
        BY <1>5, <1>11, <3>1
      <3>2. CASE j < i
        BY <1>5, <1>11, <3>2
      <3>3. QED
        BY <2>1, <3>1, <3>2
    <2>2. QED
      BY <1>11, <2>1 DEF Injection, IsInjective
  <1>13. T \in Surjection(1..n, S)
    <2>1. Cardinality(1..n) = n
      BY <1>2, FS_Interval
    <2>2. QED
      BY <1>2, <1>12, <2>1, FS_Injection
  <1>14. T \in Seq(S) /\ Len(T) = n
    BY <1>2, <1>11
  <1>15. \A x \in S : \E i \in 1..n : T[i] = x
    BY <1>13 DEF Surjection
  <1>16. QED
    BY <1>11, <1>14, <1>15 DEF T, S

LEMMA ScanCompletedDoes ==
    ASSUME BaseInv, NEW t \in DOMAIN tasks, ScanCompleted(t)
    PROVE  /\ Turns(t) /\ tasks[t].pc = "failed"
           /\ tasks'[t] = [tasks[t] EXCEPT !.pc = "compensating", !.next = tasks'[t].next]
           /\ tasks'[t].next \in Seq(Undo)
           /\ \A p \in DOMAIN tasks'[t].next :
                 LET u == tasks'[t].next[p]
                 IN  u \in Undo /\ u.at \in Undoable /\ u.record = steps[u.at]
           /\ \A p, q \in DOMAIN tasks'[t].next : p < q =>
                 Later(tasks'[t].next[p].at, tasks'[t].next[q].at)
           /\ \A n \in Undoable : \E p \in DOMAIN tasks'[t].next : tasks'[t].next[p].at = n
           /\ UNCHANGED <<instance, steps, waiters, holder, clock, calls>>
  <1> DEFINE T == ToCompensate
             L == [i \in 1..Len(T) |-> [at |-> T[i], record |-> steps[T[i]]]]
             x == [tasks[t] EXCEPT !.pc = "compensating", !.next = L]
  <1>1. T \in Seq(Undoable) /\ Len(T) \in Nat /\ DOMAIN L = 1..Len(T)
    BY CompensatedInOrder DEF BaseInv
  <1>2. ASSUME NEW i \in 1..Len(T)
        PROVE  T[i] \in Undoable /\ L[i].at = T[i] /\ L[i].record = steps[T[i]] /\ L[i] \in Undo
    <2>1. T[i] \in Undoable /\ T[i] \in DOMAIN steps
      BY <1>1 DEF Undoable
    <2>2. T[i] \in Nat \ {0} /\ steps[T[i]] \in StepRecord
      BY <2>1, StepsInPlace DEF BaseInv
    <2> HIDE DEF T
    <2>3. QED
      BY <2>1, <2>2 DEF Undo
  <1>3. L \in Seq(Undo)
    BY <1>1, <1>2
  <1>4. L \in Seq(Kinds \cup Steps \cup Undo)
    BY <1>3, SeqMonotonic
  <1>5. tasks' = [tasks EXCEPT ![t] = x] /\ tasks[t].pc = "failed"
        /\ UNCHANGED <<instance, steps, waiters, holder, clock, calls>>
    BY DEF ScanCompleted
  <1>6. tasks[t] \in TaskRecord
    BY TaskParts DEF BaseInv
  <1> HIDE DEF L
  <1>7. x \in TaskRecord /\ x.next = L
    BY <1>4, <1>6 DEF TaskRecord, Failing
  <1>8. Turns(t) /\ tasks'[t] = x
    BY <1>5, <1>7, TurnsTo DEF BaseInv
  <1>13. /\ \A i, j \in 1..Len(T) : i < j => Later(T[i], T[j])
         /\ \A n \in Undoable : \E i \in 1..Len(T) : T[i] = n
    BY CompensatedInOrder DEF BaseInv
  <1> HIDE DEF T
  <1>9. \A p, q \in DOMAIN L : p < q => Later(L[p].at, L[q].at)
    BY <1>1, <1>2, <1>13
  <1>10. ASSUME NEW n \in Undoable
         PROVE  \E p \in DOMAIN L : L[p].at = n
    <2>1. PICK i \in 1..Len(T) : T[i] = n
      BY <1>13
    <2>2. i \in DOMAIN L /\ L[i].at = n
      BY <1>1, <1>2, <2>1
    <2>3. QED
      BY <2>2
  <1>11. \A p \in DOMAIN L : L[p] \in Undo /\ L[p].at \in Undoable /\ L[p].record = steps[L[p].at]
    BY <1>1, <1>2
  <1>12. QED
    BY <1>3, <1>5, <1>7, <1>8, <1>9, <1>10, <1>11, ZenonT(30)

\* The step instance that compensates the next one of the list, and that one
\* marked.
Compensation(t) ==
    [StepInstance(CompensatedBy[tasks[t].next[1].record.step]) EXCEPT
        !.status = "active", !.resumeAt = 0,
        !.compensationOf = tasks[t].next[1].record.step]

Marked(t) == [tasks[t].next[1].record EXCEPT !.compensated = TRUE]

LEMMA NextToUndo ==
    ASSUME BaseInv, NEW t \in DOMAIN tasks, tasks[t].pc \in {"compensating", "undoing"},
           tasks[t].next # <<>>
    PROVE  /\ Head(tasks[t].next) = tasks[t].next[1] /\ 1 \in DOMAIN tasks[t].next
           /\ tasks[t].next[1].at \in DOMAIN steps
           /\ Same(steps[tasks[t].next[1].at], tasks[t].next[1].record)
           /\ tasks[t].next[1].record \in StepRecord /\ Original(tasks[t].next[1].record)
           /\ Marked(t) \in StepRecord /\ Compensation(t) \in StepRecord
           /\ ~ Original(Compensation(t)) /\ Compensation(t).status = "active"
           /\ Compensation(t).compensationOf = tasks[t].next[1].record.step
           /\ Compensation(t).attempt = 1 /\ ~ Compensation(t).compensated
           /\ Tail(tasks[t].next) \in Seq(Kinds \cup Steps \cup Undo)
           /\ Len(Tail(tasks[t].next)) = Len(tasks[t].next) - 1
           /\ \A p \in DOMAIN Tail(tasks[t].next) :
                 p + 1 \in DOMAIN tasks[t].next /\ Tail(tasks[t].next)[p] = tasks[t].next[p + 1]
           /\ Len(tasks[t].next) \in Nat /\ DOMAIN tasks[t].next = 1..Len(tasks[t].next)
           /\ DOMAIN Tail(tasks[t].next) = 1..(Len(tasks[t].next) - 1)
  <1> DEFINE L == tasks[t].next
             u == L[1]
             by == CompensatedBy[u.record.step]
  <1>1. L \in Seq(Kinds \cup Steps \cup Undo) /\ L # <<>>
    BY TaskParts DEF BaseInv
  <1>2. 1 \in DOMAIN L /\ Head(L) = L[1] /\ DOMAIN L = 1..Len(L) /\ Len(L) \in Nat
    BY <1>1
  <1>3. u \in Undo /\ u.at \in DOMAIN steps /\ Same(steps[u.at], u.record)
        /\ Original(u.record) /\ by \in Steps
    BY <1>2 DEF BaseInv, PlaceInv, Placed
  <1>4. u.record \in StepRecord /\ u.record.step \in Steps
    <2>1. u.record \in StepRecord
      BY <1>3 DEF Undo
    <2>2. QED
      BY <2>1 DEF StepRecord
  <1>5. Tail(L) \in Seq(Kinds \cup Steps \cup Undo) /\ Len(Tail(L)) = Len(L) - 1
        /\ \A p \in 1..Len(Tail(L)) : Tail(L)[p] = L[p + 1]
    BY <1>1, HeadTailProperties
  <1>6. DOMAIN Tail(L) = 1..(Len(L) - 1)
        /\ \A p \in DOMAIN Tail(L) : p + 1 \in DOMAIN L /\ Tail(L)[p] = L[p + 1]
    BY <1>2, <1>5
  <1>7. Marked(t) \in StepRecord
    BY <1>4 DEF Marked, StepRecord
  <1>8. StepInstance(by) \in StepRecord /\ StepInstance(by).attempt = 1
        /\ ~ StepInstance(by).compensated
    BY <1>3, NewInstance DEF BaseInv
  <1>9. "active" \in DOMAIN StepTransitions /\ u.record.step # NoStep
    BY <1>4, Tables, FirstIsFirst
  <1> HIDE DEF by, u
  <1>10. LET c == [StepInstance(by) EXCEPT !.status = "active", !.resumeAt = 0,
                                           !.compensationOf = u.record.step]
         IN  /\ c \in StepRecord /\ c.compensationOf # NoStep /\ c.status = "active"
             /\ c.compensationOf = u.record.step /\ c.attempt = 1 /\ ~ c.compensated
    BY <1>4, <1>8, <1>9 DEF StepRecord
  <1>11. QED
    BY <1>2, <1>3, <1>4, <1>5, <1>6, <1>7, <1>10, SMTT(30) DEF Compensation, Original, u, by

LEMMA StartCompensationDoes ==
    ASSUME BaseInv, NEW t \in DOMAIN tasks, StartCompensation(t)
    PROVE  /\ Turns(t) /\ tasks[t].pc = "compensating" /\ tasks[t].next # <<>>
           /\ steps' \in Seq(StepRecord) /\ Len(steps') = Len(steps) + 1
           /\ steps'[Len(steps) + 1] = Compensation(t)
           /\ \A n \in DOMAIN steps \ {tasks[t].next[1].at} : steps'[n] = steps[n]
           /\ \/ /\ tasks'[t] = [tasks[t] EXCEPT !.pc = "undoing", !.record = Compensation(t),
                                                 !.at = Len(steps) + 1]
                 /\ steps'[tasks[t].next[1].at] = steps[tasks[t].next[1].at]
              \/ /\ tasks'[t] = [tasks[t] EXCEPT !.next = Tail(tasks[t].next)]
                 /\ steps'[tasks[t].next[1].at] = Marked(t)
           /\ UNCHANGED <<instance, waiters, holder, clock, calls>>
  <1> DEFINE L == tasks[t].next
             c == Compensation(t)
             k == Len(steps) + 1
             x == [tasks[t] EXCEPT !.pc = "undoing", !.record = c, !.at = k]
             y == [tasks[t] EXCEPT !.next = Tail(L)]
  <1>1. tasks[t].pc = "compensating" /\ L # <<>>
        /\ UNCHANGED <<instance, waiters, holder, clock, calls>>
    BY DEF StartCompensation
  <1>2. /\ Head(L) = L[1] /\ L[1].at \in DOMAIN steps /\ c \in StepRecord
        /\ Marked(t) \in StepRecord /\ Tail(L) \in Seq(Kinds \cup Steps \cup Undo)
    BY <1>1, NextToUndo
  <1>3. tasks[t] \in TaskRecord /\ steps \in Seq(StepRecord)
        /\ DOMAIN steps = 1..Len(steps) /\ Len(steps) \in Nat
    BY TaskParts DEF BaseInv, WorkflowTypeOK
  <1>4. CASE CompensatedBy[L[1].record.step] \in Handled
    <2>1. steps' = Append(steps, c) /\ tasks' = [tasks EXCEPT ![t] = x]
      BY <1>2, <1>4 DEF StartCompensation, Compensation
    <2>6. k \in Nat
      BY <1>3
    <2> HIDE DEF c, k
    <2>2. x \in TaskRecord
      BY <1>2, <1>3, <2>6 DEF TaskRecord, Failing
    <2>3. Turns(t) /\ tasks'[t] = x
      BY <2>1, <2>2, TurnsTo DEF BaseInv
    <2>4. steps' \in Seq(StepRecord) /\ Len(steps') = Len(steps) + 1
          /\ steps'[Len(steps) + 1] = c /\ \A n \in DOMAIN steps : steps'[n] = steps[n]
      BY <1>2, <1>3, <2>1
    <2>5. QED
      BY <1>1, <1>2, <2>3, <2>4 DEF c, k
  <1>5. CASE CompensatedBy[L[1].record.step] \notin Handled
    <2>1. steps' = [Append(steps, c) EXCEPT ![L[1].at] = Marked(t)]
          /\ tasks' = [tasks EXCEPT ![t] = y]
      BY <1>2, <1>5 DEF StartCompensation, Compensation, Marked
    <2> HIDE DEF c
    <2>2. y \in TaskRecord
      BY <1>2, <1>3 DEF TaskRecord
    <2>3. Turns(t) /\ tasks'[t] = y
      BY <2>1, <2>2, TurnsTo DEF BaseInv
    <2> DEFINE s == Append(steps, c)
               m == L[1].at
    <2>6. s \in Seq(StepRecord) /\ Len(s) = Len(steps) + 1 /\ s[Len(steps) + 1] = c
          /\ (\A n \in DOMAIN steps : s[n] = steps[n]) /\ DOMAIN s = 1..(Len(steps) + 1)
      BY <1>2, <1>3
    <2>7. m \in 1..Len(steps) /\ m \in DOMAIN s /\ m # Len(steps) + 1 /\ Marked(t) \in StepRecord
      BY <1>2, <1>3, <2>6
    <2>8. steps' = [s EXCEPT ![m] = Marked(t)]
      BY <2>1
    <2> HIDE DEF s, m
    <2>9. steps' \in Seq(StepRecord) /\ Len(steps') = Len(s) /\ steps'[m] = Marked(t)
          /\ \A n \in DOMAIN s \ {m} : steps'[n] = s[n]
      BY <2>6, <2>7, <2>8
    <2>4. steps' \in Seq(StepRecord) /\ Len(steps') = Len(steps) + 1
          /\ steps'[Len(steps) + 1] = c /\ steps'[m] = Marked(t)
          /\ \A n \in DOMAIN steps \ {m} : steps'[n] = steps[n]
      BY <1>3, <2>6, <2>7, <2>9
    <2>5. QED
      BY <1>1, <1>2, <2>3, <2>4 DEF c, m
  <1>6. QED
    BY <1>4, <1>5

LEMMA EndCompensationDoes ==
    ASSUME BaseInv, NEW t \in DOMAIN tasks, EndCompensation(t)
    PROVE  /\ Turns(t) /\ tasks[t].pc = "undoing" /\ tasks[t].next # <<>>
           /\ tasks[t].at \in DOMAIN steps /\ tasks[t].at # tasks[t].next[1].at
           /\ steps' \in Seq(StepRecord) /\ Len(steps') = Len(steps)
           /\ \E o \in {"completed", "failed"} :
                 steps'[tasks[t].at] = [tasks[t].record EXCEPT !.status = o]
           /\ steps'[tasks[t].next[1].at] = Marked(t)
           /\ \A n \in DOMAIN steps \ {tasks[t].at, tasks[t].next[1].at} : steps'[n] = steps[n]
           /\ tasks'[t] = [tasks[t] EXCEPT !.pc = "compensating", !.next = Tail(tasks[t].next)]
           /\ UNCHANGED <<instance, waiters, holder, clock, calls>>
  <1> DEFINE L == tasks[t].next
             y == [tasks[t] EXCEPT !.pc = "compensating", !.next = Tail(L)]
  <1>1. tasks[t].pc = "undoing" /\ UNCHANGED <<instance, waiters, holder, clock, calls>>
        /\ tasks' = [tasks EXCEPT ![t] = y]
    BY DEF EndCompensation
  <1>2. /\ tasks[t].at \in DOMAIN steps /\ L # <<>> /\ ~ Original(tasks[t].record)
        /\ Same(steps[tasks[t].at], tasks[t].record)
    BY <1>1 DEF BaseInv, PlaceInv, Placed, Writes
  <1>3. /\ Head(L) = L[1] /\ L[1].at \in DOMAIN steps /\ Same(steps[L[1].at], L[1].record)
        /\ Original(L[1].record)
        /\ Marked(t) \in StepRecord /\ Tail(L) \in Seq(Kinds \cup Steps \cup Undo)
    BY <1>1, <1>2, NextToUndo
  <1>4. tasks[t].at # L[1].at
    BY <1>2, <1>3 DEF Same, Original
  <1>5. tasks[t] \in TaskRecord /\ tasks[t].record \in StepRecord /\ steps \in Seq(StepRecord)
    BY TaskParts DEF BaseInv, WorkflowTypeOK
  <1>6. PICK o \in {"completed", "failed"} :
            steps' = [steps EXCEPT ![tasks[t].at] = [tasks[t].record EXCEPT !.status = o],
                                   ![L[1].at] = Marked(t)]
    BY <1>3 DEF EndCompensation, CompensationOutcomes, Marked
  <1> DEFINE r == [tasks[t].record EXCEPT !.status = o]
  <1>7. r \in StepRecord
    BY <1>5, Tables DEF StepRecord
  <1> HIDE DEF r
  <1>8. steps' = [steps EXCEPT ![tasks[t].at] = r, ![L[1].at] = Marked(t)]
    BY <1>6 DEF r
  <1>9. steps' \in Seq(StepRecord) /\ Len(steps') = Len(steps)
        /\ steps'[tasks[t].at] = r /\ steps'[L[1].at] = Marked(t)
        /\ \A n \in DOMAIN steps \ {tasks[t].at, L[1].at} : steps'[n] = steps[n]
    BY <1>2, <1>3, <1>4, <1>5, <1>7, <1>8
  <1>10. y \in TaskRecord
    BY <1>3, <1>5 DEF TaskRecord, Failing
  <1>11. Turns(t) /\ tasks'[t] = y
    BY <1>1, <1>10, TurnsTo DEF BaseInv
  <1>12. QED
    BY <1>1, <1>2, <1>4, <1>9, <1>11 DEF r

LEMMA FailInstanceDoes ==
    ASSUME BaseInv, NEW t \in DOMAIN tasks, FailInstance(t)
    PROVE  /\ Turns(t) /\ tasks[t].pc = "compensating" /\ tasks[t].next = <<>>
           /\ tasks'[t] = Done
           /\ \/ /\ tasks[t].instance.status \in {"running", "waiting"}
                 /\ instance' = [tasks[t].instance EXCEPT !.status = "failed"]
              \/ /\ tasks[t].instance.status \notin {"running", "waiting"}
                 /\ UNCHANGED instance
           /\ UNCHANGED <<steps, waiters, holder, clock, calls>>
  <1>1. tasks[t].instance.status \in DOMAIN WorkflowTransitions
    BY TaskParts DEF BaseInv, Instance
  <1>2. CanTransitionWorkflow(tasks[t].instance.status, "failed")
           <=> tasks[t].instance.status \in {"running", "waiting"}
    BY <1>1, InstanceMoves
  <1>3. End(t) /\ tasks[t].pc = "compensating" /\ tasks[t].next = <<>>
        /\ instance' = (IF CanTransitionWorkflow(tasks[t].instance.status, "failed")
                          THEN [tasks[t].instance EXCEPT !.status = "failed"] ELSE instance)
        /\ UNCHANGED <<steps, waiters, holder, clock, calls>>
    BY DEF FailInstance
  <1>4. Turns(t) /\ tasks'[t] = Done
    BY <1>3, Ended DEF BaseInv
  <1>5. QED
    BY <1>2, <1>3, <1>4

LEMMA ChangeInstanceDoes ==
    ASSUME BaseInv, NEW t \in DOMAIN tasks, ChangeInstance(t)
    PROVE  /\ Turns(t) /\ tasks[t].pc = "read" /\ tasks[t].op \in DOMAIN InstanceTarget
           /\ tasks'[t] = Done
           /\ \/ UNCHANGED instance
              \/ /\ tasks[t].instance.status \notin Terminal
                 /\ instance' = [tasks[t].instance EXCEPT !.status = InstanceTarget[tasks[t].op]]
                 /\ InstanceTarget[tasks[t].op] \in {"suspended", "running", "cancelled"}
                 /\ InstanceTarget[tasks[t].op] = "running" =>
                       tasks[t].instance.status \in {"pending", "waiting", "suspended"}
                 /\ InstanceTarget[tasks[t].op] = "suspended" => tasks[t].op = "suspend"
           /\ UNCHANGED <<steps, waiters, holder, clock, calls>>
  <1> DEFINE s == tasks[t].instance.status
             to == InstanceTarget[tasks[t].op]
  <1>1. s \in DOMAIN WorkflowTransitions
    BY TaskParts DEF BaseInv, Instance
  <1>2. End(t) /\ tasks[t].pc = "read" /\ tasks[t].op \in DOMAIN InstanceTarget
        /\ instance' = (IF CanTransitionWorkflow(s, to)
                          THEN [tasks[t].instance EXCEPT !.status = to] ELSE instance)
        /\ UNCHANGED <<steps, waiters, holder, clock, calls>>
    BY DEF ChangeInstance
  <1>3. to \in {"suspended", "running", "cancelled"} /\ (CanTransitionWorkflow(s, to) => s \notin Terminal)
    BY <1>1, <1>2, InstanceMoves
  <1>4. CanTransitionWorkflow(s, to) /\ to = "running" => s \in {"pending", "waiting", "suspended"}
    BY <1>1 DEF CanTransitionWorkflow, WorkflowTransitions
  <1>5. to = "suspended" => tasks[t].op = "suspend"
    BY <1>2 DEF InstanceTarget
  <1>6. Turns(t) /\ tasks'[t] = Done
    BY <1>2, Ended DEF BaseInv
  <1> HIDE DEF to
  <1>7. QED
    BY <1>2, <1>3, <1>4, <1>5, <1>6 DEF to

LEMMA DispatchVariablesDoes ==
    ASSUME BaseInv, NEW t \in DOMAIN tasks, DispatchVariables(t)
    PROVE  /\ Turns(t) /\ tasks[t].pc = "read" /\ tasks[t].op = "start"
           /\ tasks[t].record.step \in WithOutput
           /\ instance' \in Instance
           /\ instance' = [tasks[t].instance EXCEPT
                             !.variables = tasks[t].instance.variables \cup {tasks[t].record.step}]
           /\ tasks'[t] = [tasks[t] EXCEPT !.pc = "given", !.instance = instance']
           /\ UNCHANGED <<steps, waiters, holder, clock, calls>>
  <1> DEFINE i == [tasks[t].instance EXCEPT
                     !.variables = tasks[t].instance.variables \cup {tasks[t].record.step}]
             x == [tasks[t] EXCEPT !.pc = "given", !.instance = i]
  <1>1. tasks[t] \in TaskRecord /\ tasks[t].instance \in Instance /\ tasks[t].record.step \in Steps
    BY TaskParts DEF BaseInv
  <1>2. i \in Instance
    BY <1>1 DEF Instance
  <1>3. tasks[t].pc = "read" /\ tasks[t].op = "start" /\ instance' = i
        /\ tasks[t].record.step \in WithOutput
        /\ UNCHANGED <<steps, waiters, holder, clock, calls>>
    BY DEF DispatchVariables
  <1>4. tasks' = [tasks EXCEPT ![t] = x]
    BY <1>3 DEF DispatchVariables
  <1> HIDE DEF i
  <1>5. x \in TaskRecord
    BY <1>1, <1>2 DEF TaskRecord
  <1>6. Turns(t) /\ tasks'[t] = x
    BY <1>4, <1>5, TurnsTo DEF BaseInv
  <1>7. QED
    BY <1>2, <1>3, <1>6 DEF i

LEMMA DispatchStartDoes ==
    ASSUME BaseInv, NEW t \in DOMAIN tasks, DispatchStart(t)
    PROVE  /\ tasks[t].pc \in {"read", "given"} /\ tasks[t].op = "start" /\ tasks'[t] = Done
           /\ \A u \in DOMAIN tasks \ {t} : tasks'[u] = tasks[u]
           /\ tasks[t].record.step \in Steps
           /\ Began(<<tasks[t].record.step>>, tasks[t].instance)
           /\ UNCHANGED <<instance, waiters, holder, clock, calls>>
  <1> DEFINE ids == <<tasks[t].record.step>>
  <1>1. tasks[t].record.step \in Steps /\ tasks[t].instance \in Instance
    BY TaskParts DEF BaseInv
  <1>2. ids \in Seq(Steps)
    BY <1>1
  <1>3. StartSteps(ids, tasks[t].instance, [tasks EXCEPT ![t] = Done])
        /\ tasks[t].pc \in {"read", "given"} /\ tasks[t].op = "start"
        /\ UNCHANGED <<instance, waiters, holder, clock, calls>>
    BY DEF DispatchStart
  <1> HIDE DEF ids
  <1>4. Began(ids, tasks[t].instance) /\ tasks'[t] = Done
        /\ \A u \in DOMAIN tasks \ {t} : tasks'[u] = tasks[u]
    BY <1>1, <1>2, <1>3, EndedAndBegan
  <1>5. QED
    BY <1>1, <1>3, <1>4 DEF ids

\* The record a command saves, and whether the call is over then.
Changed(t) ==
    LET op == tasks[t].op
        to == StepTarget[op]
    IN  [tasks[t].record EXCEPT
            !.status = to,
            !.attempt = IF op = "retry" THEN tasks[t].record.attempt + 1 ELSE tasks[t].record.attempt,
            !.completedAt = IF to = "completed" THEN clock ELSE tasks[t].record.completedAt]

CallOver(t) ==
    \/ tasks[t].op \in {"retry", "cancel"}
    \/ tasks[t].op = "fail" /\ CanRetry(tasks[t].record.step, tasks[t].record.attempt)

LEMMA ChangeStepDoes ==
    ASSUME BaseInv, NEW t \in DOMAIN tasks, ChangeStep(t)
    PROVE  /\ Turns(t) /\ tasks[t].pc = "read" /\ tasks[t].op \in DOMAIN StepTarget
           /\ tasks[t].at \in {0} \cup DOMAIN steps
           /\ \/ /\ ~ CanTransitionStep(tasks[t].record.status, StepTarget[tasks[t].op])
                 /\ tasks'[t] = Done /\ UNCHANGED steps
              \/ /\ CanTransitionStep(tasks[t].record.status, StepTarget[tasks[t].op])
                 /\ Changed(t) \in StepRecord
                 /\ Changed(t).step = tasks[t].record.step
                 /\ Changed(t).compensationOf = tasks[t].record.compensationOf
                 /\ Changed(t).compensated = tasks[t].record.compensated
                 /\ Changed(t).status = StepTarget[tasks[t].op]
                 /\ Changed(t).attempt = IF tasks[t].op = "retry" THEN tasks[t].record.attempt + 1
                                                                  ELSE tasks[t].record.attempt
                 /\ steps' \in Seq(StepRecord)
                 /\ Len(steps') = IF tasks[t].at = 0 THEN Len(steps) + 1 ELSE Len(steps)
                 /\ \A n \in DOMAIN steps \ {tasks[t].at} : steps'[n] = steps[n]
                 /\ steps'[Place(tasks[t].at)] = Changed(t)
                 /\ \/ CallOver(t) /\ tasks'[t] = Done
                    \/ /\ ~ CallOver(t)
                       /\ tasks'[t] = [tasks[t] EXCEPT
                             !.pc = IF tasks[t].op = "fail" THEN "failed" ELSE "completed",
                             !.record = Changed(t),
                             !.output = IF tasks[t].op = "complete"
                                          THEN WithOutput \cap {tasks[t].record.step} ELSE {}]
           /\ UNCHANGED <<instance, waiters, holder, clock, calls>>
  <1> DEFINE op == tasks[t].op
             to == StepTarget[op]
             r == Changed(t)
             pc == IF op = "fail" THEN "failed" ELSE "completed"
             out == IF op = "complete" THEN WithOutput \cap {tasks[t].record.step} ELSE {}
             x == [tasks[t] EXCEPT !.pc = pc, !.record = r, !.output = out]
             b == CanTransitionStep(tasks[t].record.status, to)
  <1>1. tasks[t].pc = "read" /\ op \in DOMAIN StepTarget
        /\ UNCHANGED <<instance, waiters, holder, clock, calls>>
    BY DEF ChangeStep
  <1>2. tasks[t].at \in {0} \cup DOMAIN steps
    BY <1>1 DEF BaseInv, PlaceInv, Placed, Writes
  <1>3. tasks[t] \in TaskRecord /\ tasks[t].record \in StepRecord /\ tasks[t].record.step \in Steps
        /\ tasks[t].record.attempt \in Nat \ {0} /\ clock \in Nat
    BY TaskParts DEF BaseInv, WorkflowTypeOK
  <1>4. tasks[t].record.completedAt \in Nat /\ to \in DOMAIN StepTransitions
    <2>1. tasks[t].record.completedAt \in Nat
      BY <1>3 DEF StepRecord
    <2>2. to \in DOMAIN StepTransitions
      BY <1>1, Tables, StepTargets
    <2>3. QED
      BY <2>1, <2>2
  <1>5. /\ r \in StepRecord /\ r.step = tasks[t].record.step
        /\ r.compensationOf = tasks[t].record.compensationOf
        /\ r.compensated = tasks[t].record.compensated /\ r.status = to
        /\ r.attempt = IF op = "retry" THEN tasks[t].record.attempt + 1 ELSE tasks[t].record.attempt
    <2> DEFINE a == IF op = "retry" THEN tasks[t].record.attempt + 1 ELSE tasks[t].record.attempt
               c == IF to = "completed" THEN clock ELSE tasks[t].record.completedAt
    <2>1. a \in Nat \ {0} /\ c \in Nat
      BY <1>3, <1>4
    <2>2. r = [tasks[t].record EXCEPT !.status = to, !.attempt = a, !.completedAt = c]
      BY DEF Changed
    <2> HIDE DEF a, c, to, r
    <2>3. /\ r \in StepRecord /\ r.step = tasks[t].record.step
          /\ r.compensationOf = tasks[t].record.compensationOf
          /\ r.compensated = tasks[t].record.compensated /\ r.status = to /\ r.attempt = a
      BY <1>3, <1>4, <2>1, <2>2 DEF StepRecord
    <2>4. QED
      BY <2>3 DEF a
  <1>6. CASE ~ b
    <2>1. End(t) /\ UNCHANGED steps
      BY <1>6 DEF ChangeStep
    <2>2. Turns(t) /\ tasks'[t] = Done
      BY <2>1, Ended DEF BaseInv
    <2>3. QED
      BY <1>1, <1>2, <1>6, <2>1, <2>2
  <1>7. CASE b
    <2>1. Save(tasks[t].at, r)
      BY <1>7 DEF ChangeStep, Changed
    <2>2. /\ steps' \in Seq(StepRecord)
          /\ Len(steps') = IF tasks[t].at = 0 THEN Len(steps) + 1 ELSE Len(steps)
          /\ \A n \in DOMAIN steps \ {tasks[t].at} : steps'[n] = steps[n]
          /\ steps'[Place(tasks[t].at)] = r
      BY <1>2, <1>5, <2>1, SavedStep DEF BaseInv
    <2>3. op # "retry" => r.attempt = tasks[t].record.attempt
      BY <1>5
    <2>4. tasks' = [tasks EXCEPT ![t] = IF CallOver(t) THEN Done ELSE x]
      <3>1. tasks' = [tasks EXCEPT ![t] =
                        IF \/ op \in {"retry", "cancel"}
                           \/ op = "fail" /\ CanRetry(r.step, r.attempt)
                        THEN Done
                        ELSE [tasks[t] EXCEPT !.pc = pc, !.record = r,
                                 !.output = IF op = "complete" THEN WithOutput \cap {r.step} ELSE {}]]
        BY <1>7 DEF ChangeStep, Changed
      <3> HIDE DEF r
      <3>2. QED
        BY <1>5, <2>3, <3>1 DEF CallOver
    <2>5. out \in SUBSET Steps /\ pc \in {"failed", "completed"}
      BY FirstIsFirst
    <2> HIDE DEF r, pc, out
    <2>6. x \in TaskRecord
      BY <1>3, <1>5, <2>5 DEF TaskRecord, Advancing, Failing
    <2>7. CASE CallOver(t)
      <3>1. Turns(t) /\ tasks'[t] = Done
        BY <2>4, <2>7, DoneIsDone, TurnsTo DEF BaseInv
      <3>2. QED
        BY <1>1, <1>2, <1>5, <1>7, <2>2, <2>7, <3>1 DEF r
    <2>8. CASE ~ CallOver(t)
      <3>1. Turns(t) /\ tasks'[t] = x
        BY <2>4, <2>6, <2>8, TurnsTo DEF BaseInv
      <3>2. QED
        BY <1>1, <1>2, <1>5, <1>7, <2>2, <2>8, <3>1 DEF r, pc, out
    <2>9. QED
      BY <2>7, <2>8
  <1>8. QED
    BY <1>6, <1>7

LEMMA FirstOfThese ==
    ASSUME WorkflowTypeOK, NEW S \in SUBSET DOMAIN steps, S # {}
    PROVE  Min(S) \in S
  <1>1. S \in SUBSET Nat
    BY StepsInPlace
  <1>2. PICK m \in S : \A n \in S : m <= n
    BY <1>1, LeastNatural
  <1>3. QED
    BY <1>2 DEF Min

\* A call that begins: `n` is the place of the step instance it works on, 0 when it
\* works on none that exists, and `r` its copy of it.
Asked(op, s, n, r) ==
    /\ n \in {0} \cup DOMAIN steps
    /\ n = 0 => /\ op \in DOMAIN StepTarget => op = "skip" /\ r.status = "pending"
                /\ r.attempt = 1 /\ r.step = s
    /\ n # 0 => /\ op \in DOMAIN StepTarget /\ r = steps[n]
                /\ op = "retry" => CanRetry(r.step, r.attempt)
                /\ op = "advance" => r.status = "waiting"
                /\ op # "advance" => r.step = s

LEMMA CallDoes ==
    ASSUME BaseInv, NEW op \in Operations, NEW s \in Steps, Call(op, s)
    PROVE  \E n \in Nat, r \in StepRecord :
           /\ steps # <<>>
           /\ SerialClient => \A t \in DOMAIN tasks : tasks[t].pc = "done"
           /\ Asked(op, s, n, r) /\ Original(r)
           /\ tasks' \in Seq(TaskRecord) /\ Len(tasks') = Len(tasks) + 1
           /\ \A t \in DOMAIN tasks : tasks'[t] = tasks[t]
           /\ tasks'[Len(tasks) + 1] = Task(op, "read", n, r, instance)
           /\ calls' \in Nat /\ UNCHANGED <<instance, steps, waiters, holder, clock>>
  <1> DEFINE Does(n, r) ==
           /\ steps # <<>>
           /\ SerialClient => \A t \in DOMAIN tasks : tasks[t].pc = "done"
           /\ Asked(op, s, n, r) /\ Original(r)
           /\ tasks' \in Seq(TaskRecord) /\ Len(tasks') = Len(tasks) + 1
           /\ \A t \in DOMAIN tasks : tasks'[t] = tasks[t]
           /\ tasks'[Len(tasks) + 1] = Task(op, "read", n, r, instance)
           /\ calls' \in Nat /\ UNCHANGED <<instance, steps, waiters, holder, clock>>
  <1>1. /\ steps # <<>>
        /\ SerialClient => \A t \in DOMAIN tasks : tasks[t].pc = "done"
        /\ calls' \in Nat /\ UNCHANGED <<instance, steps, waiters, holder, clock>>
    BY DEF Call, BaseInv, WorkflowTypeOK
  <1>2. ASSUME NEW n \in Nat, NEW r \in StepRecord, Asked(op, s, n, r), Original(r),
               tasks' = Append(tasks, Task(op, "read", n, r, instance))
        PROVE  \E m \in Nat, q \in StepRecord : Does(m, q)
    <2> DEFINE x == Task(op, "read", n, r, instance)
    <2>1. x \in TaskRecord
      BY NewTask DEF BaseInv, WorkflowTypeOK
    <2>2. tasks \in Seq(TaskRecord)
      BY DEF BaseInv, WorkflowTypeOK
    <2> HIDE DEF x
    <2>3. tasks' = Append(tasks, x)
      BY <1>2 DEF x
    <2>4. tasks' \in Seq(TaskRecord) /\ Len(tasks') = Len(tasks) + 1
          /\ (\A t \in DOMAIN tasks : tasks'[t] = tasks[t]) /\ tasks'[Len(tasks) + 1] = x
      BY <2>1, <2>2, <2>3
    <2>5. Does(n, r)
      BY <1>1, <1>2, <2>4 DEF x
    <2>6. QED
      BY <2>5
  <1> HIDE DEF Does
  <1>3. StepInstance(s) \in StepRecord /\ StepInstance(s).step = s
        /\ Original(StepInstance(s)) /\ StepInstance(s).attempt = 1
    BY NewInstance DEF BaseInv
  <1>4. \A n \in DOMAIN steps : n \in Nat \ {0} /\ steps[n] \in StepRecord
    BY StepsInPlace DEF BaseInv
  <1>5. CASE op \in DOMAIN InstanceTarget \cup {"start"}
    <2>1. op \notin DOMAIN StepTarget
      BY <1>5, Tables
    <2>2. Asked(op, s, 0, StepInstance(s))
      BY <1>3, <2>1 DEF Asked
    <2>3. tasks' = Append(tasks, Task(op, "read", 0, StepInstance(s), instance))
      BY <1>5 DEF Call
    <2>4. \E m \in Nat, q \in StepRecord : Does(m, q)
      BY <1>2, <1>3, <2>2, <2>3
    <2>5. QED
      BY <2>4 DEF Does
  <1>6. CASE op \notin DOMAIN InstanceTarget \cup {"start"}
    <2>1. op \in DOMAIN StepTarget
      BY <1>6, Tables DEF Operations
    <2> DEFINE q == [StepInstance(s) EXCEPT !.status = "pending"]
    <2>2. PICK n \in Targets(op, s) :
              tasks' = Append(tasks, Task(op, "read", n, IF n = 0 THEN q ELSE steps[n], instance))
      BY <1>6 DEF Call
    <2>3. q \in StepRecord /\ Original(q) /\ q.status = "pending" /\ q.attempt = 1 /\ q.step = s
      BY <1>3, Tables DEF StepRecord, Original
    <2> HIDE DEF q
    <2>4. FirstMain(s) \in SUBSET DOMAIN steps
          /\ \A n_1 \in FirstMain(s) : steps[n_1].step = s /\ Main(n_1)
      BY DEF FirstMain
    <2> DEFINE main == IF FirstMain(s) = {} THEN {} ELSE {Min(FirstMain(s))}
               failed == {m \in FirstMain(s) : steps[m].status = "failed"}
               waiting == {m \in DOMAIN steps : steps[m].status = "waiting"}
    <2>5. main \in SUBSET FirstMain(s)
      BY <2>4, FirstOfThese DEF BaseInv
    <2>6. \/ op \in {"complete", "fail", "cancel"} /\ n \in FirstMain(s)
          \/ op = "retry" /\ n \in FirstMain(s) /\ CanRetry(s, steps[n].attempt)
          \/ op = "skip" /\ n \in {0} \cup FirstMain(s)
          \/ op = "advance" /\ n \in waiting
      <3> HIDE DEF main
      <3>1. CASE op \in {"complete", "fail", "cancel"}
        BY <2>2, <2>5, <3>1 DEF Targets, main
      <3>2. CASE op = "retry"
        BY <2>2, <3>2 DEF Targets
      <3>3. CASE op = "skip"
        BY <2>2, <2>5, <3>3 DEF Targets, main
      <3>4. CASE op = "advance"
        BY <2>2, <3>4 DEF Targets
      <3>5. QED
        BY <2>1, <3>1, <3>2, <3>3, <3>4, Tables
    <2>7. \A m \in waiting : m \in DOMAIN steps /\ steps[m].status = "waiting" /\ Main(m)
      BY DEF BaseInv, RecordInv, Allowed, Main, Original
    <2> HIDE DEF main, waiting
    <2>8. CASE n = 0
      <3>1. op = "skip"
        BY <1>4, <2>4, <2>6, <2>7, <2>8
      <3>2. Asked(op, s, n, q)
        BY <2>3, <2>8, <3>1 DEF Asked
      <3>3. \E m \in Nat, r \in StepRecord : Does(m, r)
        BY <1>2, <2>2, <2>3, <2>8, <3>2
      <3>4. QED
        BY <3>3 DEF Does
    <2>9. CASE n # 0
      <3>1. n \in DOMAIN steps /\ Main(n) /\ (op = "retry" => CanRetry(steps[n].step, steps[n].attempt))
            /\ (op = "advance" => steps[n].status = "waiting") /\ (op # "advance" => steps[n].step = s)
        BY <2>4, <2>6, <2>7, <2>9
      <3>2. Asked(op, s, n, steps[n]) /\ Original(steps[n])
        BY <2>1, <2>9, <3>1 DEF Asked, Main, Original
      <3>3. \E m \in Nat, r \in StepRecord : Does(m, r)
        BY <1>2, <1>4, <2>2, <2>9, <3>1, <3>2
      <3>4. QED
        BY <3>3 DEF Does
    <2>10. QED
      BY <2>8, <2>9
  <1>7. QED
    BY <1>5, <1>6

LEMMA StartWorkflowDoes ==
    ASSUME BaseInv, StartWorkflow
    PROVE  /\ instance.status = "pending" /\ steps = <<>> /\ tasks = <<>>
           /\ instance' = [instance EXCEPT !.status = "running"] /\ instance' \in Instance
           /\ <<FirstStep>> \in Seq(Steps) /\ Began(<<FirstStep>>, instance')
           /\ UNCHANGED <<waiters, holder, clock, calls>>
  <1>1. instance.status = "pending" /\ instance \in Instance /\ tasks \in Seq(TaskRecord)
        /\ instance' = [instance EXCEPT !.status = "running"]
        /\ UNCHANGED <<waiters, holder, clock, calls>>
    BY DEF StartWorkflow, BaseInv, WorkflowTypeOK
  <1>2. instance' \in Instance
    BY <1>1, Tables DEF Instance
  <1>3. steps = <<>> /\ tasks = <<>>
    BY <1>1 DEF BaseInv, StartedInv
  <1> DEFINE ids == <<FirstStep>>
  <1>4. ids \in Seq(Steps)
    BY FirstIsFirst
  <1> HIDE DEF ids
  <1>5. StartSteps(ids, instance', tasks)
    BY DEF StartWorkflow, ids
  <1>6. Began(ids, instance')
    <2> DEFINE inst == instance'
    <2>1. inst \in Instance /\ StartSteps(ids, inst, tasks)
      BY <1>2, <1>5
    <2> HIDE DEF inst
    <2>2. Began(ids, inst)
      BY <1>1, <1>4, <2>1, StartedSteps DEF Began, BaseInv
    <2>3. QED
      BY <2>2 DEF inst
  <1>7. QED
    BY <1>1, <1>2, <1>3, <1>4, <1>6 DEF ids

-----------------------------------------------------------------------------
(* What holds in every behaviour, whatever callers ask for.                *)

LEMMA StatusChanged ==
    ASSUME NEW i \in Instance, NEW s \in DOMAIN WorkflowTransitions
    PROVE  [i EXCEPT !.status = s] \in Instance
  BY DEF Instance

\* Step instances stay, and stay instances of the same step.
Kept ==
    /\ DOMAIN steps \subseteq DOMAIN steps' /\ Len(steps) <= Len(steps')
    /\ \A n \in DOMAIN steps : Same(steps'[n], steps[n])
    /\ DOMAIN tasks \subseteq DOMAIN tasks'

LEMMA KeptByBegan ==
    ASSUME BaseInv, NEW ids \in Seq(Steps), NEW inst \in Instance, Began(ids, inst)
    PROVE  /\ Kept /\ steps' \in Seq(StepRecord) /\ tasks' \in Seq(TaskRecord)
  <1>1. DOMAIN steps \subseteq DOMAIN steps' /\ DOMAIN tasks \subseteq DOMAIN tasks'
    BY Newcomers
  <1>2. Len(steps) <= Len(steps')
    BY DEF Began, BaseInv, WorkflowTypeOK
  <1>3. QED
    BY <1>1, <1>2 DEF Began, Kept, Same

LEMMA KeptInPlace ==
    ASSUME BaseInv, steps' \in Seq(StepRecord), Len(steps) <= Len(steps'),
           \A n \in DOMAIN steps : Same(steps'[n], steps[n]), DOMAIN tasks \subseteq DOMAIN tasks'
    PROVE  Kept
  <1>1. DOMAIN steps = 1..Len(steps) /\ DOMAIN steps' = 1..Len(steps')
        /\ Len(steps) \in Nat /\ Len(steps') \in Nat
    BY DEF BaseInv, WorkflowTypeOK
  <1>2. QED
    BY <1>1 DEF Kept

LEMMA KeptByTask ==
    ASSUME BaseInv, NEW t \in DOMAIN tasks, TaskStep(t)
    PROVE  WorkflowTypeOK' /\ Kept
  <1>0. /\ instance \in Instance /\ steps \in Seq(StepRecord) /\ tasks \in Seq(TaskRecord)
        /\ waiters \in Seq(Nat) /\ holder \in Nat /\ clock \in Nat /\ calls \in Nat
        /\ tasks[t].instance \in Instance /\ t \in Nat
        /\ "completed" \in DOMAIN WorkflowTransitions /\ "failed" \in DOMAIN WorkflowTransitions
        /\ {"suspended", "running", "cancelled"} \subseteq DOMAIN WorkflowTransitions
        /\ Len(steps) \in Nat
    BY TaskParts, Tables DEF BaseInv, WorkflowTypeOK
  <1>1. Writes(t) => tasks[t].at \in DOMAIN steps /\ Same(steps[tasks[t].at], tasks[t].record)
    BY DEF BaseInv, PlaceInv, Placed
  <1> DEFINE Stays == \A n \in DOMAIN steps : Same(steps'[n], steps[n])
  <1>2. ASSUME Turns(t), instance' \in Instance, waiters' \in Seq(Nat), holder' \in Nat,
               clock' = clock, calls' = calls, steps' \in Seq(StepRecord),
               Len(steps) <= Len(steps'), Stays
        PROVE  WorkflowTypeOK' /\ Kept
    BY <1>0, <1>2, KeptInPlace DEF Turns, WorkflowTypeOK
  <1>3. ASSUME Turns(t), instance' \in Instance, waiters' \in Seq(Nat), holder' \in Nat,
               clock' = clock, calls' = calls, steps' = steps
        PROVE  WorkflowTypeOK' /\ Kept
    <2>1. Stays /\ Len(steps) <= Len(steps') /\ steps' \in Seq(StepRecord)
      BY <1>0, <1>3 DEF Same
    <2>2. QED
      BY <1>2, <1>3, <2>1
  <1>4. ASSUME Turns(t), UNCHANGED <<instance, waiters, holder, clock, calls>>,
               steps' \in Seq(StepRecord), Len(steps) <= Len(steps'), Stays
        PROVE  WorkflowTypeOK' /\ Kept
    BY <1>0, <1>2, <1>4
  <1>5. CASE HandlerSucceeds(t)
    <2>1. Same(tasks'[t].record, tasks[t].record) /\ Writes(t)
      BY <1>5, HandlerSucceedsDoes, TaskParts, ZenonT(30) DEF Same, Writes, StepRecord
    <2>2. Stays
      BY <1>1, <1>5, <2>1, HandlerSucceedsDoes, Zenon DEF Same
    <2>3. /\ Turns(t) /\ UNCHANGED <<instance, waiters, holder, clock, calls>>
          /\ steps' \in Seq(StepRecord) /\ Len(steps') = Len(steps)
      BY <1>5, HandlerSucceedsDoes, Zenon
    <2>4. Len(steps) <= Len(steps')
      BY <1>0, <2>3
    <2>5. QED
      BY <1>4, <2>2, <2>3, <2>4
  <1>6. CASE HandlerRetries(t)
    BY <1>0, <1>3, <1>6, HandlerRetriesDoes
  <1>7. CASE HandlerFails(t)
    <2> DEFINE r == [tasks[t].record EXCEPT !.status = "failed"]
    <2>0. tasks[t].record \in StepRecord
      BY TaskParts DEF BaseInv
    <2>1. Same(r, tasks[t].record) /\ Writes(t)
      BY <1>7, <2>0, HandlerFailsDoes DEF Same, Writes, StepRecord
    <2>2. Stays
      BY <1>1, <1>7, <2>1, HandlerFailsDoes DEF Same
    <2>3. /\ Turns(t) /\ UNCHANGED <<instance, waiters, holder, clock, calls>>
          /\ steps' \in Seq(StepRecord) /\ Len(steps') = Len(steps)
      BY <1>7, HandlerFailsDoes
    <2>4. Len(steps) <= Len(steps')
      BY <1>0, <2>3
    <2>5. QED
      BY <1>4, <2>2, <2>3, <2>4
  <1>8. CASE CallAdvance(t)
    <2>1. waiters' \in Seq(Nat)
      <3>1. waiters' = waiters \/ waiters' = Append(waiters, t)
        BY <1>8, CallAdvanceDoes, Zenon
      <3>2. Append(waiters, t) \in Seq(Nat)
        BY <1>0
      <3>3. QED
        BY <1>0, <3>1, <3>2
    <2>2. QED
      BY <1>0, <1>3, <1>8, <2>1, CallAdvanceDoes, Zenon
  <1>9. CASE EnterLock(t)
    <2>1. waiters' \in Seq(Nat)
      <3>1. waiters' = Tail(waiters) /\ waiters # <<>>
        BY <1>9, EnterLockDoes, Zenon
      <3>2. QED
        BY <1>0, <3>1
    <2>2. QED
      BY <1>0, <1>3, <1>9, <2>1, EnterLockDoes, Zenon
  <1>10. CASE MergeOutput(t)
    BY <1>0, <1>3, <1>10, MergeOutputDoes, Zenon
  <1>11. CASE Decide(t)
    BY <1>0, <1>3, <1>11, DecideDoes, Zenon
  <1>12. CASE Continue(t)
    <2>1. holder' \in Nat /\ waiters' \in Seq(Nat) /\ clock' \in Nat /\ calls' \in Nat
      <3>1. holder' \in {holder, 0} /\ waiters' = waiters /\ clock' = clock /\ calls' = calls
        BY <1>12, ContinueDoes
      <3>2. QED
        BY <1>0, <3>1
    <2>2. CASE tasks[t].next[1] = "start"
      BY <1>0, <1>12, <2>1, <2>2, ContinueDoes, KeptByBegan DEF WorkflowTypeOK
    <2>3. CASE tasks[t].next[1] # "start"
      <3>1. instance' \in Instance
        BY <1>0, <1>12, <2>3, ContinueDoes, StatusChanged, SMTT(30)
      <3>2. QED
        BY <1>0, <1>3, <1>12, <2>1, <2>3, <3>1, ContinueDoes
    <2>4. QED
      BY <2>2, <2>3
  <1>13. CASE ScanCompleted(t)
    BY <1>0, <1>3, <1>13, ScanCompletedDoes, Zenon
  <1>14. CASE StartCompensation(t)
    <2> DEFINE m == tasks[t].next[1].at
    <2>1. m \in DOMAIN steps /\ Same(steps[m], tasks[t].next[1].record)
          /\ tasks[t].next[1].record \in StepRecord
      BY <1>14, StartCompensationDoes, NextToUndo, Zenon
    <2>2. Same(Marked(t), tasks[t].next[1].record)
      BY <2>1 DEF Same, Marked, StepRecord
    <2>3. \A n \in DOMAIN steps \ {m} : steps'[n] = steps[n]
      BY <1>14, StartCompensationDoes, Zenon
    <2>5. steps'[m] \in {steps[m], Marked(t)}
      BY <1>14, StartCompensationDoes, Zenon
    <2>6. Stays
      BY <2>1, <2>2, <2>3, <2>5 DEF Same
    <2>7. Len(steps) <= Len(steps')
      <3>1. Len(steps') = Len(steps) + 1
        BY <1>14, StartCompensationDoes, Zenon
      <3>2. QED
        BY <1>0, <3>1
    <2>4. QED
      BY <1>4, <1>14, <2>6, <2>7, StartCompensationDoes, Zenon
  <1>15. CASE EndCompensation(t)
    <2> DEFINE m == tasks[t].next[1].at
    <2>1. m \in DOMAIN steps /\ Same(steps[m], tasks[t].next[1].record)
          /\ tasks[t].next[1].record \in StepRecord
      BY <1>15, EndCompensationDoes, NextToUndo, Zenon
    <2>2. Same(Marked(t), tasks[t].next[1].record)
      BY <2>1 DEF Same, Marked, StepRecord
    <2>3. \A o : Same([tasks[t].record EXCEPT !.status = o], tasks[t].record)
      BY TaskParts DEF Same, StepRecord
    <2>4. Writes(t)
      BY <1>15, EndCompensationDoes, Zenon DEF Writes
    <2>5. \A n \in DOMAIN steps \ {tasks[t].at, m} : steps'[n] = steps[n]
      BY <1>15, EndCompensationDoes, Zenon
    <2>6. Same(steps'[tasks[t].at], tasks[t].record) /\ steps'[m] = Marked(t)
      <3>1. PICK o \in {"completed", "failed"} :
                steps'[tasks[t].at] = [tasks[t].record EXCEPT !.status = o]
        BY <1>15, EndCompensationDoes, Zenon
      <3>2. steps'[m] = Marked(t)
        BY <1>15, EndCompensationDoes, Zenon
      <3>3. QED
        BY <2>3, <3>1, <3>2
    <2>7. Stays
      BY <1>1, <2>1, <2>2, <2>4, <2>5, <2>6 DEF Same
    <2>8. /\ Turns(t) /\ UNCHANGED <<instance, waiters, holder, clock, calls>>
          /\ steps' \in Seq(StepRecord) /\ Len(steps') = Len(steps)
      BY <1>15, EndCompensationDoes, Zenon
    <2>9. Len(steps) <= Len(steps')
      BY <1>0, <2>8
    <2>10. QED
      BY <1>4, <2>7, <2>8, <2>9
  <1>16. CASE FailInstance(t)
    BY <1>0, <1>3, <1>16, FailInstanceDoes, StatusChanged
  <1>17. CASE ChangeInstance(t)
    BY <1>0, <1>3, <1>17, ChangeInstanceDoes, StatusChanged
  <1>18. CASE DispatchVariables(t)
    BY <1>0, <1>3, <1>18, DispatchVariablesDoes, Zenon
  <1>19. CASE DispatchStart(t)
    <2>1. <<tasks[t].record.step>> \in Seq(Steps)
      <3>1. tasks[t].record.step \in Steps
        BY <1>19, DispatchStartDoes
      <3>2. QED
        BY <3>1
    <2>2. Kept /\ steps' \in Seq(StepRecord) /\ tasks' \in Seq(TaskRecord)
      BY <1>0, <1>19, <2>1, DispatchStartDoes, KeptByBegan
    <2>3. QED
      BY <1>0, <1>19, <2>2, DispatchStartDoes DEF WorkflowTypeOK
  <1>20. CASE ChangeStep(t)
    <2>1. CASE steps' = steps
      BY <1>0, <1>3, <1>20, <2>1, ChangeStepDoes, Zenon
    <2>2. CASE steps' # steps
      <3>1. /\ steps' \in Seq(StepRecord)
            /\ Len(steps') = IF tasks[t].at = 0 THEN Len(steps) + 1 ELSE Len(steps)
            /\ \A n \in DOMAIN steps \ {tasks[t].at} : steps'[n] = steps[n]
            /\ steps'[Place(tasks[t].at)] = Changed(t)
            /\ Same(Changed(t), tasks[t].record)
        BY <1>20, <2>2, ChangeStepDoes, Zenon DEF Same
      <3>2. tasks[t].at # 0 => Writes(t)
        BY <1>20, ChangeStepDoes, Zenon DEF Writes
      <3>3. 0 \notin DOMAIN steps
        BY StepsInPlace
      <3>4. Stays
        BY <1>1, <3>1, <3>2, <3>3 DEF Same, Place
      <3>5. Len(steps) <= Len(steps')
        BY <1>0, <3>1
      <3>6. QED
        BY <1>4, <1>20, <3>1, <3>4, <3>5, ChangeStepDoes, Zenon
    <2>3. QED
      BY <2>1, <2>2
  <1>21. QED
    BY <1>5, <1>6, <1>7, <1>8, <1>9, <1>10, <1>11, <1>12, <1>13, <1>14, <1>15, <1>16, <1>17,
       <1>18, <1>19, <1>20 DEF TaskStep

LEMMA KeptByAll ==
    ASSUME BaseInv, [Next]_vars
    PROVE  WorkflowTypeOK' /\ Kept
  <1>1. CASE UNCHANGED vars \/ Tick
    <2>1. UNCHANGED <<instance, steps, tasks, waiters, holder, calls>> /\ clock' \in Nat
      BY <1>1 DEF vars, Tick, BaseInv, WorkflowTypeOK
    <2>2. QED
      BY <2>1 DEF BaseInv, WorkflowTypeOK, Kept, Same
  <1>2. CASE StartWorkflow
    BY <1>2, StartWorkflowDoes, KeptByBegan DEF BaseInv, WorkflowTypeOK
  <1>3. ASSUME NEW r \in Requests, Call(r[1], r[2])
        PROVE  WorkflowTypeOK' /\ Kept
    <2>1. r[1] \in Operations /\ r[2] \in Steps
      BY FirstIsFirst
    <2>2. /\ tasks' \in Seq(TaskRecord) /\ Len(tasks') = Len(tasks) + 1
          /\ calls' \in Nat /\ UNCHANGED <<instance, steps, waiters, holder, clock>>
      BY <1>3, <2>1, CallDoes
    <2>3. DOMAIN tasks \subseteq DOMAIN tasks'
      BY <2>2 DEF BaseInv, WorkflowTypeOK
    <2>4. QED
      BY <2>2, <2>3 DEF BaseInv, WorkflowTypeOK, Kept, Same
  <1>4. ASSUME NEW t \in DOMAIN tasks, TaskStep(t)
        PROVE  WorkflowTypeOK' /\ Kept
    BY <1>4, KeptByTask
  <1>5. QED
    BY <1>1, <1>2, <1>3, <1>4 DEF Next

\* A run that has just begun, of a step instance that is new.
Newborn(u, inst) ==
    \/ tasks'[u] = Done
    \/ /\ tasks'[u].pc = "handler" /\ tasks'[u].op = "run"
       /\ tasks'[u].at \in DOMAIN steps' \ DOMAIN steps
       /\ tasks'[u].at = Len(steps) + (u - Len(tasks))
       /\ tasks'[u].record = steps'[tasks'[u].at]
       /\ \E s \in Handled \ Waits : s \in Steps /\ tasks'[u].record = StepInstance(s)
       /\ tasks'[u].instance = inst /\ tasks'[u].output = {}

LEMMA NewbornTasks ==
    ASSUME BaseInv, NEW ids \in Seq(Steps), NEW inst \in Instance, Began(ids, inst)
    PROVE  \A u \in DOMAIN tasks' \ DOMAIN tasks : Newborn(u, inst)
  <1> TAKE u \in DOMAIN tasks' \ DOMAIN tasks
  <1>1. CASE tasks'[u] # Done
    <2> DEFINE s == ids[u - Len(tasks)]
    <2>1. /\ u - Len(tasks) \in 1..Len(ids)
          /\ s \in Handled \ Waits
          /\ tasks'[u].pc = "handler" /\ tasks'[u].op = "run"
          /\ tasks'[u].at \in DOMAIN steps' \ DOMAIN steps
          /\ tasks'[u].at = Len(steps) + (u - Len(tasks))
          /\ tasks'[u].record = steps'[tasks'[u].at]
          /\ tasks'[u].record = StepInstance(s)
          /\ tasks'[u].instance = inst /\ tasks'[u].output = {}
      BY <1>1, Newcomers
    <2>2. s \in Steps
      BY <2>1
    <2> HIDE DEF s
    <2>3. QED
      BY <2>1, <2>2 DEF Newborn
  <1>2. QED
    BY <1>1 DEF Newborn

\* What the step of a task leaves alone, and the copies of the instance it makes.
Alone(t) ==
    /\ tasks[t].pc # "done"
    /\ \A u \in DOMAIN tasks \ {t} : tasks'[u] = tasks[u]
    /\ \A u \in DOMAIN tasks' \ DOMAIN tasks : Newborn(u, tasks[t].instance)
    /\ DOMAIN tasks' # DOMAIN tasks => tasks'[t] = Done /\ instance' = instance
    /\ \/ tasks'[t] = Done
       \/ /\ tasks'[t].pc # "done"
          /\ \/ tasks'[t].instance = instance'
             \/ tasks'[t].instance = tasks[t].instance /\ instance' = instance
    /\ \/ instance' = instance
       \/ instance'.status = tasks[t].instance.status
       \/ /\ instance' = [tasks[t].instance EXCEPT !.status = instance'.status]
          /\ instance'.status \in {"completed", "failed", "suspended", "running", "cancelled"}
          /\ tasks[t].instance.status \notin Terminal
          /\ tasks'[t] = Done

LEMMA LeavesAlone ==
    ASSUME BaseInv, NEW t \in DOMAIN tasks, TaskStep(t)
    PROVE  Alone(t)
  <1>0. /\ tasks[t] \in TaskRecord /\ tasks[t].instance \in Instance /\ tasks[t].record \in StepRecord
        /\ Done.pc = "done"
        /\ {"completed", "failed", "suspended", "running", "cancelled"} \subseteq DOMAIN WorkflowTransitions
    BY TaskParts, Tables, DoneIsDone DEF BaseInv
  <1>1. DOMAIN tasks[t] = {"op", "pc", "at", "record", "instance", "output", "next"}
    BY <1>0 DEF TaskRecord
  <1>2. \A s \in DOMAIN WorkflowTransitions :
           [tasks[t].instance EXCEPT !.status = s].status = s
    BY <1>0 DEF Instance
  <1>3. \A s \in {"pending", "running", "waiting", "suspended"} : s \notin Terminal
    BY DEF Terminal
  <1>4. ASSUME Turns(t)
        PROVE  /\ \A u \in DOMAIN tasks \ {t} : tasks'[u] = tasks[u]
               /\ \A u \in DOMAIN tasks' \ DOMAIN tasks : Newborn(u, tasks[t].instance)
               /\ DOMAIN tasks' = DOMAIN tasks
    BY <1>4 DEF Turns
  <1>5. CASE HandlerSucceeds(t)
    BY <1>0, <1>1, <1>4, <1>5, HandlerSucceedsDoes, ZenonT(30) DEF Alone
  <1>6. CASE HandlerRetries(t)
    BY <1>0, <1>1, <1>4, <1>6, HandlerRetriesDoes DEF Alone
  <1>7. CASE HandlerFails(t)
    <2>1. Turns(t) /\ tasks[t].pc = "handler" /\ instance' = instance
          /\ tasks'[t] = [tasks[t] EXCEPT !.pc = "failed"]
      BY <1>7, HandlerFailsDoes
    <2>2. tasks'[t].pc = "failed" /\ tasks'[t].instance = tasks[t].instance
      BY <1>1, <2>1
    <2>3. QED
      BY <1>4, <2>1, <2>2 DEF Alone
  <1>8. CASE CallAdvance(t)
    BY <1>0, <1>1, <1>4, <1>8, CallAdvanceDoes, Zenon DEF Alone
  <1>9. CASE EnterLock(t)
    <2>1. Turns(t) /\ tasks[t].pc = "chained" /\ instance' = instance
          /\ tasks'[t] = [tasks[t] EXCEPT !.pc = "entered", !.instance = instance]
      BY <1>9, EnterLockDoes, Zenon
    <2>2. tasks'[t].pc = "entered" /\ tasks'[t].instance = instance
      BY <1>1, <2>1
    <2>3. QED
      BY <1>4, <2>1, <2>2 DEF Alone
  <1>10. CASE MergeOutput(t)
    <2>1. tasks'[t].pc = "merged" /\ tasks'[t].instance = Merged(t)
      BY <1>0, <1>1, <1>10, MergeOutputDoes, Zenon
    <2>2. Merged(t).status = tasks[t].instance.status
          /\ (tasks[t].output = {} => Merged(t) = tasks[t].instance)
      BY <1>0 DEF Merged, Instance
    <2>3. instance' \in {instance, Merged(t)}
          /\ (tasks[t].output # {} => tasks'[t].instance = instance')
      BY <1>10, <2>1, MergeOutputDoes, Zenon
    <2>4. tasks[t].pc = "entered" /\ Turns(t)
      BY <1>10, MergeOutputDoes, Zenon
    <2>5. QED
      BY <1>4, <2>1, <2>2, <2>3, <2>4 DEF Alone
  <1>11. CASE Decide(t)
    <2>1. Turns(t) /\ tasks[t].pc = "merged" /\ instance' = instance
          /\ tasks'[t] = [tasks[t] EXCEPT !.pc = "decided", !.next = tasks'[t].next]
      BY <1>11, DecideDoes, Zenon
    <2>2. tasks'[t].pc = "decided" /\ tasks'[t].instance = tasks[t].instance
      BY <1>1, <2>1
    <2>3. QED
      BY <1>4, <2>1, <2>2 DEF Alone
  <1>12. CASE Continue(t)
    <2>1. CASE tasks[t].next[1] = "start"
      <3>1. \A u \in DOMAIN tasks' \ DOMAIN tasks : Newborn(u, tasks[t].instance)
        BY <1>0, <1>12, <2>1, ContinueDoes, NewbornTasks
      <3>2. QED
        BY <1>12, <2>1, <3>1, ContinueDoes DEF Alone
    <2>2. CASE tasks[t].next[1] # "start"
      <3>1. \/ instance' = instance
            \/ /\ instance' = [tasks[t].instance EXCEPT !.status = "completed"]
               /\ tasks[t].instance.status = "running"
        BY <1>12, <2>2, ContinueDoes
      <3>2. \/ instance' = instance
            \/ /\ instance' = [tasks[t].instance EXCEPT !.status = instance'.status]
               /\ instance'.status = "completed" /\ tasks[t].instance.status \notin Terminal
        BY <1>0, <1>2, <1>3, <3>1
      <3>3. Turns(t) /\ tasks[t].pc = "decided" /\ tasks'[t] = Done
        BY <1>12, <2>2, ContinueDoes
      <3>4. QED
        BY <1>4, <3>2, <3>3 DEF Alone
    <2>3. QED
      BY <2>1, <2>2
  <1>13. CASE ScanCompleted(t)
    <2>1. Turns(t) /\ tasks[t].pc = "failed" /\ instance' = instance
          /\ tasks'[t] = [tasks[t] EXCEPT !.pc = "compensating", !.next = tasks'[t].next]
      BY <1>13, ScanCompletedDoes, Zenon
    <2>2. tasks'[t].pc = "compensating" /\ tasks'[t].instance = tasks[t].instance
      BY <1>1, <2>1
    <2>3. QED
      BY <1>4, <2>1, <2>2 DEF Alone
  <1>14. CASE StartCompensation(t)
    <2>1. Turns(t) /\ tasks[t].pc = "compensating" /\ instance' = instance
          /\ \/ tasks'[t] = [tasks[t] EXCEPT !.pc = "undoing", !.record = Compensation(t),
                                             !.at = Len(steps) + 1]
             \/ tasks'[t] = [tasks[t] EXCEPT !.next = Tail(tasks[t].next)]
      BY <1>14, StartCompensationDoes, Zenon
    <2>2. tasks'[t].pc \in {"undoing", "compensating"} /\ tasks'[t].instance = tasks[t].instance
      BY <1>0, <1>1, <2>1
    <2>3. QED
      BY <1>4, <2>1, <2>2 DEF Alone
  <1>15. CASE EndCompensation(t)
    <2>1. Turns(t) /\ tasks[t].pc = "undoing" /\ instance' = instance
          /\ tasks'[t] = [tasks[t] EXCEPT !.pc = "compensating", !.next = Tail(tasks[t].next)]
      BY <1>15, EndCompensationDoes, Zenon
    <2>2. tasks'[t].pc = "compensating" /\ tasks'[t].instance = tasks[t].instance
      BY <1>1, <2>1
    <2>3. QED
      BY <1>4, <2>1, <2>2 DEF Alone
  <1>16. CASE FailInstance(t)
    <2>1. \/ instance' = instance
          \/ /\ instance' = [tasks[t].instance EXCEPT !.status = "failed"]
             /\ tasks[t].instance.status \in {"running", "waiting"}
      BY <1>16, FailInstanceDoes
    <2>2. \/ instance' = instance
          \/ /\ instance' = [tasks[t].instance EXCEPT !.status = instance'.status]
             /\ instance'.status = "failed" /\ tasks[t].instance.status \notin Terminal
      BY <1>0, <1>2, <1>3, <2>1
    <2>3. Turns(t) /\ tasks[t].pc = "compensating" /\ tasks'[t] = Done
      BY <1>16, FailInstanceDoes
    <2>4. QED
      BY <1>4, <2>2, <2>3 DEF Alone
  <1>17. CASE ChangeInstance(t)
    <2>1. \/ instance' = instance
          \/ /\ tasks[t].instance.status \notin Terminal
             /\ instance' = [tasks[t].instance EXCEPT !.status = InstanceTarget[tasks[t].op]]
             /\ InstanceTarget[tasks[t].op] \in {"suspended", "running", "cancelled"}
      BY <1>17, ChangeInstanceDoes
    <2>2. \/ instance' = instance
          \/ /\ instance' = [tasks[t].instance EXCEPT !.status = instance'.status]
             /\ instance'.status \in {"suspended", "running", "cancelled"}
             /\ tasks[t].instance.status \notin Terminal
      BY <1>0, <1>2, <2>1
    <2>3. Turns(t) /\ tasks[t].pc = "read" /\ tasks'[t] = Done
      BY <1>17, ChangeInstanceDoes
    <2>4. QED
      BY <1>4, <2>2, <2>3 DEF Alone
  <1>18. CASE DispatchVariables(t)
    <2>1. instance'.status = tasks[t].instance.status
      BY <1>0, <1>18, DispatchVariablesDoes, Zenon DEF Instance
    <2>2. QED
      BY <1>0, <1>1, <1>4, <1>18, <2>1, DispatchVariablesDoes, Zenon DEF Alone
  <1>19. CASE DispatchStart(t)
    <2> DEFINE ids == <<tasks[t].record.step>>
    <2>1. tasks[t].record.step \in Steps
      BY <1>19, DispatchStartDoes
    <2>2. ids \in Seq(Steps)
      BY <2>1
    <2>3. Began(ids, tasks[t].instance)
      BY <1>19, DispatchStartDoes
    <2> HIDE DEF ids
    <2>4. \A u \in DOMAIN tasks' \ DOMAIN tasks : Newborn(u, tasks[t].instance)
      BY <1>0, <2>2, <2>3, NewbornTasks
    <2>5. QED
      BY <1>19, <2>4, DispatchStartDoes DEF Alone
  <1>20. CASE ChangeStep(t)
    <2>1. \/ tasks'[t] = Done
          \/ tasks'[t] = [tasks[t] EXCEPT
                             !.pc = IF tasks[t].op = "fail" THEN "failed" ELSE "completed",
                             !.record = Changed(t),
                             !.output = IF tasks[t].op = "complete"
                                          THEN WithOutput \cap {tasks[t].record.step} ELSE {}]
      BY <1>20, ChangeStepDoes, Zenon
    <2>2. tasks'[t] = Done \/ (tasks'[t].pc \in {"failed", "completed"}
                               /\ tasks'[t].instance = tasks[t].instance)
      BY <1>0, <1>1, <2>1
    <2>3. Turns(t) /\ tasks[t].pc = "read" /\ instance' = instance
      BY <1>20, ChangeStepDoes, Zenon
    <2>4. QED
      BY <1>4, <2>2, <2>3 DEF Alone
  <1>21. QED
    BY <1>5, <1>6, <1>7, <1>8, <1>9, <1>10, <1>11, <1>12, <1>13, <1>14, <1>15, <1>16, <1>17,
       <1>18, <1>19, <1>20 DEF TaskStep

\* The task of a call that has just begun.
LEMMA NewCall ==
    ASSUME BaseInv, NEW op \in Operations, NEW s \in Steps, Call(op, s)
    PROVE  \E u \in Nat :
               /\ DOMAIN tasks' = DOMAIN tasks \cup {u} /\ u \notin DOMAIN tasks
               /\ \A t \in DOMAIN tasks : tasks'[t] = tasks[t]
               /\ steps # <<>>
               /\ SerialClient => \A t \in DOMAIN tasks : tasks[t].pc = "done"
               /\ Asked(op, s, tasks'[u].at, tasks'[u].record) /\ Original(tasks'[u].record)
               /\ tasks'[u].op = op /\ tasks'[u].pc = "read" /\ tasks'[u].instance = instance
               /\ tasks'[u].output = {} /\ tasks'[u].next = <<>>
               /\ UNCHANGED <<instance, steps, waiters, holder, clock>>
  <1>1. PICK n \in Nat, r \in StepRecord :
           /\ steps # <<>>
           /\ SerialClient => \A t \in DOMAIN tasks : tasks[t].pc = "done"
           /\ Asked(op, s, n, r) /\ Original(r)
           /\ tasks' \in Seq(TaskRecord) /\ Len(tasks') = Len(tasks) + 1
           /\ \A t \in DOMAIN tasks : tasks'[t] = tasks[t]
           /\ tasks'[Len(tasks) + 1] = Task(op, "read", n, r, instance)
           /\ calls' \in Nat /\ UNCHANGED <<instance, steps, waiters, holder, clock>>
    BY CallDoes
  <1>2. LET x == Task(op, "read", n, r, instance)
        IN  /\ x.op = op /\ x.pc = "read" /\ x.at = n /\ x.record = r /\ x.instance = instance
            /\ x.output = {} /\ x.next = <<>>
    BY DEF Task
  <1> DEFINE u == Len(tasks) + 1
  <1>3. DOMAIN tasks' = DOMAIN tasks \cup {u} /\ u \notin DOMAIN tasks /\ u \in Nat
    BY <1>1 DEF BaseInv, WorkflowTypeOK
  <1>4. tasks'[u] = Task(op, "read", n, r, instance)
    BY <1>1
  <1> HIDE DEF u
  <1>5. QED
    BY <1>1, <1>2, <1>3, <1>4

LEMMA TaskFields ==
    ASSUME WorkflowTypeOK, NEW t \in DOMAIN tasks
    PROVE  DOMAIN tasks[t] = {"op", "pc", "at", "record", "instance", "output", "next"}
  <1>1. tasks[t] \in TaskRecord
    BY TaskParts
  <1>2. QED
    BY <1>1 DEF TaskRecord

LEMMA ChainByTask ==
    ASSUME BaseInv, NEW t \in DOMAIN tasks, TaskStep(t)
    PROVE  ChainInv'
  <1>1. /\ waiters \in Seq(Nat) /\ t \in Nat /\ tasks[t].pc # "done"
        /\ \A u \in DOMAIN tasks \ {t} : tasks'[u] = tasks[u]
        /\ DOMAIN tasks \subseteq DOMAIN tasks'
    BY LeavesAlone, KeptByTask DEF Alone, Kept, BaseInv, WorkflowTypeOK
  <1>2. /\ \A i \in DOMAIN waiters : /\ waiters[i] \in DOMAIN tasks
                                     /\ tasks[waiters[i]].pc = "chained"
        /\ \A i, j \in DOMAIN waiters : waiters[i] = waiters[j] => i = j
    BY DEF BaseInv, ChainInv
  <1>3. CASE waiters' = Append(waiters, t) /\ CallAdvance(t)
    <2>1. tasks[t].pc = "completed" /\ tasks'[t].pc = "chained"
      <3>1. tasks[t].pc = "completed" /\ (\/ waiters' = waiters
                                          \/ tasks'[t] = [tasks[t] EXCEPT !.pc = "chained"])
        BY <1>3, CallAdvanceDoes, Zenon
      <3>2. waiters' # waiters
        BY <1>1, <1>3
      <3>3. QED
        BY <3>1, <3>2, TaskFields DEF BaseInv
    <2>2. DOMAIN waiters' = DOMAIN waiters \cup {Len(waiters) + 1}
          /\ waiters'[Len(waiters) + 1] = t
          /\ \A i \in DOMAIN waiters : waiters'[i] = waiters[i]
      BY <1>1, <1>3
    <2>3. QED
      BY <1>1, <1>2, <2>1, <2>2 DEF ChainInv
  <1>4. CASE EnterLock(t)
    <2>1. waiters # <<>> /\ waiters[1] = t /\ waiters' = Tail(waiters)
      BY <1>4, EnterLockDoes, Zenon
    <2>2. 1 \in DOMAIN waiters /\ \A i \in DOMAIN waiters' :
             /\ i + 1 \in DOMAIN waiters /\ i + 1 # 1 /\ i \in Nat
             /\ waiters'[i] = waiters[i + 1]
      BY <1>1, <2>1
    <2>3. QED
      BY <1>1, <1>2, <2>1, <2>2 DEF ChainInv
  <1>5. CASE waiters' = waiters /\ tasks[t].pc # "chained"
    BY <1>1, <1>2, <1>5 DEF ChainInv
  <1>6. \/ EnterLock(t)
        \/ waiters' = Append(waiters, t) /\ CallAdvance(t)
        \/ waiters' = waiters /\ tasks[t].pc # "chained"
    <2>1. CallAdvance(t) => /\ waiters' = waiters \/ waiters' = Append(waiters, t)
                            /\ tasks[t].pc # "chained"
      BY CallAdvanceDoes, Zenon
    <2>2. ASSUME HandlerSucceeds(t) \/ HandlerRetries(t) \/ HandlerFails(t) \/ MergeOutput(t) \/ Decide(t)
          PROVE  waiters' = waiters /\ tasks[t].pc # "chained"
      BY <2>2, Zenon DEF HandlerSucceeds, HandlerRetries, HandlerFails, MergeOutput, Decide
    <2>3. ASSUME Continue(t) \/ ScanCompleted(t) \/ StartCompensation(t) \/ EndCompensation(t)
                 \/ FailInstance(t)
          PROVE  waiters' = waiters /\ tasks[t].pc # "chained"
      BY <2>3, SMTT(30) DEF Continue, ScanCompleted, StartCompensation, EndCompensation, FailInstance
    <2>4. ASSUME ChangeInstance(t) \/ DispatchVariables(t) \/ DispatchStart(t) \/ ChangeStep(t)
          PROVE  waiters' = waiters /\ tasks[t].pc # "chained"
      BY <2>4 DEF ChangeInstance, DispatchVariables, DispatchStart, ChangeStep
    <2>5. QED
      BY <2>1, <2>2, <2>3, <2>4 DEF TaskStep
  <1>7. QED
    BY <1>3, <1>4, <1>5, <1>6

LEMMA FirstMainKept ==
    ASSUME Kept, NEW s
    PROVE  FirstMain(s) \subseteq FirstMain(s)'
  BY DEF Kept, FirstMain, Same, Main

LEMMA DonePlaced ==
    ASSUME NEW u, tasks'[u].pc = "done"
    PROVE  Placed(u)'
  BY DEF Placed, Writes, Advancing

LEMMA PlacedBystander ==
    ASSUME Kept, NEW u, Placed(u), tasks'[u] = tasks[u]
    PROVE  Placed(u)'
  <1>1. Writes(u)' <=> Writes(u)
    BY DEF Writes
  <1>2. \A n \in DOMAIN steps : n \in DOMAIN steps' /\ \A r : Same(steps[n], r) => Same(steps'[n], r)
    BY DEF Kept, Same
  <1>3. QED
    BY <1>1, <1>2, FirstMainKept DEF Placed

LEMMA NewbornPlaced ==
    ASSUME BaseInv, NEW u, NEW inst, Newborn(u, inst)
    PROVE  Placed(u)'
  <1>1. CASE tasks'[u] = Done
    BY <1>1, DoneIsDone, DonePlaced DEF BaseInv
  <1>2. CASE tasks'[u] # Done
    <2>1. tasks'[u].pc = "handler" /\ Original(tasks'[u].record)
      BY <1>2, NewInstance DEF Newborn, BaseInv
    <2>2. tasks'[u].at \in DOMAIN steps' /\ Same(steps'[tasks'[u].at], tasks'[u].record)
      BY <1>2 DEF Newborn, Same
    <2>3. QED
      BY <2>1, <2>2 DEF Placed, Advancing
  <1>3. QED
    BY <1>1, <1>2

LEMMA PlacedByTask ==
    ASSUME BaseInv, NEW t \in DOMAIN tasks, TaskStep(t)
    PROVE  Placed(t)'
  <1>1. /\ DOMAIN tasks[t] = {"op", "pc", "at", "record", "instance", "output", "next"}
        /\ Kept /\ tasks[t].record \in StepRecord /\ tasks[t].record.step \in Steps
        /\ Placed(t)
    BY TaskFields, TaskParts, KeptByTask DEF BaseInv, PlaceInv
  <1>2. ASSUME tasks'[t] = Done
        PROVE  Placed(t)'
    BY <1>2, DoneIsDone, DonePlaced DEF BaseInv
  <1> DEFINE Begun(s) == \E n \in DOMAIN steps' : steps'[n].step = s /\ steps'[n].compensationOf = NoStep
  <1>3. tasks[t].pc \in Advancing => Begun(tasks[t].record.step)
    BY <1>1 DEF Placed, FirstMain, Main, Kept, Same
  <1>4. ASSUME tasks'[t].pc \in Advancing \ {"decided"}, Begun(tasks'[t].record.step)
        PROVE  Placed(t)'
    <2>1. FirstMain(tasks[t].record.step)' # {}
      BY <1>4 DEF FirstMain, Main
    <2>2. QED
      BY <1>4, <2>1 DEF Placed, Writes, Advancing
  <1>5. ASSUME NEW n \in DOMAIN steps', Same(steps'[n], tasks[t].record), Original(tasks[t].record)
        PROVE  Begun(tasks[t].record.step)
    BY <1>5 DEF Same, Original
  <1> HIDE DEF Begun
  <1>6. CASE HandlerSucceeds(t)
    <2>1. tasks'[t].pc = "completed" /\ tasks[t].pc = "handler" /\ tasks[t].at \in DOMAIN steps
      BY <1>1, <1>6, HandlerSucceedsDoes, Zenon
    <2>2. tasks'[t].record.step = tasks[t].record.step
      <3>1. tasks'[t].record = [tasks[t].record EXCEPT !.status = "completed", !.completedAt = clock]
        BY <1>6, HandlerSucceedsDoes, Zenon
      <3>2. QED
        BY <1>1, <3>1 DEF StepRecord
    <2>3. Same(steps'[tasks[t].at], tasks[t].record) /\ Original(tasks[t].record)
          /\ tasks[t].at \in DOMAIN steps'
      BY <1>1, <2>1 DEF Placed, Writes, Kept, Same
    <2>4. QED
      BY <1>4, <1>5, <2>1, <2>2, <2>3 DEF Advancing
  <1>7. CASE HandlerRetries(t)
    <2>1. tasks'[t].pc = "handler" /\ tasks[t].pc = "handler" /\ tasks'[t].at = tasks[t].at
      BY <1>1, <1>7, HandlerRetriesDoes
    <2>2. Same(tasks'[t].record, tasks[t].record) /\ steps' = steps
      <3>1. tasks'[t].record = [tasks[t].record EXCEPT !.attempt = tasks[t].record.attempt + 1]
            /\ steps' = steps
        BY <1>7, HandlerRetriesDoes
      <3>2. QED
        BY <1>1, <3>1 DEF StepRecord, Same
    <2>3. QED
      BY <1>1, <2>1, <2>2 DEF Placed, Writes, Same, Original, Advancing
  <1>8. CASE HandlerFails(t)
    <2>1. tasks'[t].pc = "failed"
      BY <1>1, <1>8, HandlerFailsDoes
    <2>2. QED
      BY <2>1 DEF Placed, Writes, Advancing
  <1>9. CASE CallAdvance(t)
    <2>1. tasks'[t].pc \in {"chained", "entered"} /\ tasks[t].pc = "completed"
          /\ tasks'[t].record = tasks[t].record
      BY <1>1, <1>9, CallAdvanceDoes, Zenon
    <2>2. QED
      BY <1>3, <1>4, <2>1 DEF Advancing
  <1>10. CASE EnterLock(t)
    <2>1. tasks'[t].pc = "entered" /\ tasks[t].pc = "chained"
          /\ tasks'[t].record = tasks[t].record
      <3>1. tasks[t].pc = "chained"
            /\ tasks'[t] = [tasks[t] EXCEPT !.pc = "entered", !.instance = instance]
        BY <1>10, EnterLockDoes, Zenon
      <3>2. QED
        BY <1>1, <3>1
    <2>2. QED
      BY <1>3, <1>4, <2>1 DEF Advancing
  <1>11. CASE MergeOutput(t)
    <2>1. tasks'[t].pc = "merged" /\ tasks[t].pc = "entered"
          /\ tasks'[t].record = tasks[t].record
      BY <1>1, <1>11, MergeOutputDoes, Zenon
    <2>2. QED
      BY <1>3, <1>4, <2>1 DEF Advancing
  <1>12. CASE Decide(t)
    <2>1. tasks'[t].pc = "decided" /\ tasks[t].pc = "merged"
          /\ tasks'[t].record = tasks[t].record
          /\ tasks'[t].next \in Decisions(tasks[t].record.step)
      <3>1. tasks[t].pc = "merged" /\ tasks'[t].next \in Decisions(tasks[t].record.step)
            /\ tasks'[t] = [tasks[t] EXCEPT !.pc = "decided", !.next = tasks'[t].next]
        BY <1>12, DecideDoes, Zenon
      <3>2. QED
        BY <1>1, <3>1
    <2>2. tasks'[t].next # <<>> /\ Tail(tasks'[t].next) \in Seq(Steps)
      BY <1>1, <2>1, DecisionParts
    <2>3. FirstMain(tasks[t].record.step)' # {}
      BY <1>3, <2>1 DEF Begun, FirstMain, Main, Advancing
    <2>4. QED
      BY <2>1, <2>2, <2>3 DEF Placed, Writes
  <1>13. CASE Continue(t)
    BY <1>2, <1>13, ContinueDoes
  <1>14. CASE ScanCompleted(t)
    <2>1. tasks'[t].pc = "compensating" /\ steps' = steps
          /\ \A p \in DOMAIN tasks'[t].next :
                 LET u == tasks'[t].next[p]
                 IN  u \in Undo /\ u.at \in Undoable /\ u.record = steps[u.at]
      BY <1>1, <1>14, ScanCompletedDoes, Zenon
    <2>2. ASSUME NEW n \in Undoable
          PROVE  /\ n \in DOMAIN steps /\ Original(steps[n]) /\ steps[n].status = "completed"
                 /\ CompensatedBy[steps[n].step] \in Steps /\ Same(steps[n], steps[n])
      BY StepsInPlace, FirstIsFirst DEF Undoable, Main, Original, Same, BaseInv
    <2>3. QED
      BY <2>1, <2>2 DEF Placed, Writes, Advancing
  <1>15. ASSUME tasks[t].pc \in {"compensating", "undoing"}, tasks'[t].pc = "compensating",
                tasks[t].next # <<>>, tasks'[t].next = Tail(tasks[t].next)
         PROVE  Placed(t)'
    <2>1. \A p \in DOMAIN tasks'[t].next :
             p + 1 \in DOMAIN tasks[t].next /\ tasks'[t].next[p] = tasks[t].next[p + 1]
      BY <1>15, NextToUndo
    <2>2. \A p \in DOMAIN tasks[t].next :
             LET u == tasks[t].next[p]
             IN  /\ u \in Undo /\ u.at \in DOMAIN steps' /\ Same(steps'[u.at], u.record)
                 /\ Original(u.record) /\ u.record.status = "completed"
                 /\ CompensatedBy[u.record.step] \in Steps
      BY <1>1, <1>15 DEF Placed, Kept, Same
    <2>3. QED
      BY <1>15, <2>1, <2>2 DEF Placed, Writes, Advancing
  <1>16. CASE StartCompensation(t)
    <2>1. tasks[t].pc = "compensating" /\ tasks[t].next # <<>> /\ Len(steps') = Len(steps) + 1
          /\ steps'[Len(steps) + 1] = Compensation(t) /\ steps' \in Seq(StepRecord)
      BY <1>16, StartCompensationDoes, Zenon
    <2>2. CASE tasks'[t] = [tasks[t] EXCEPT !.next = Tail(tasks[t].next)]
      BY <1>1, <1>15, <2>1, <2>2
    <2>3. CASE tasks'[t] = [tasks[t] EXCEPT !.pc = "undoing", !.record = Compensation(t),
                                            !.at = Len(steps) + 1]
      <3>1. /\ tasks'[t].pc = "undoing" /\ tasks'[t].record = Compensation(t)
            /\ tasks'[t].at = Len(steps) + 1 /\ tasks'[t].next = tasks[t].next
        BY <1>1, <2>3
      <3>2. Len(steps) + 1 \in DOMAIN steps'
        BY <2>1, StepsInPlace DEF BaseInv
      <3>3. ~ Original(Compensation(t))
        BY <2>1, NextToUndo
      <3>4. \A p \in DOMAIN tasks[t].next :
               LET u == tasks[t].next[p]
               IN  /\ u \in Undo /\ u.at \in DOMAIN steps' /\ Same(steps'[u.at], u.record)
                   /\ Original(u.record) /\ u.record.status = "completed"
                   /\ CompensatedBy[u.record.step] \in Steps
        BY <1>1, <2>1 DEF Placed, Kept, Same
      <3>5. QED
        BY <2>1, <3>1, <3>2, <3>3, <3>4 DEF Placed, Writes, Advancing, Same
    <2>4. QED
      BY <1>16, <2>2, <2>3, StartCompensationDoes, Zenon
  <1>17. CASE EndCompensation(t)
    <2>1. tasks[t].pc = "undoing" /\ tasks[t].next # <<>>
          /\ tasks'[t] = [tasks[t] EXCEPT !.pc = "compensating", !.next = Tail(tasks[t].next)]
      BY <1>17, EndCompensationDoes, Zenon
    <2>2. QED
      BY <1>1, <1>15, <2>1
  <1>18. CASE FailInstance(t)
    BY <1>2, <1>18, FailInstanceDoes
  <1>19. CASE ChangeInstance(t)
    BY <1>2, <1>19, ChangeInstanceDoes
  <1>20. CASE DispatchVariables(t)
    <2>1. tasks'[t].pc = "given"
      BY <1>1, <1>20, DispatchVariablesDoes, Zenon
    <2>2. QED
      BY <2>1 DEF Placed, Writes, Advancing
  <1>21. CASE DispatchStart(t)
    BY <1>2, <1>21, DispatchStartDoes
  <1>22. CASE ChangeStep(t)
    <2>1. CASE tasks'[t] = Done
      BY <1>2, <2>1
    <2>2. CASE tasks'[t] # Done
      <3>1. /\ tasks[t].pc = "read" /\ tasks[t].at \in {0} \cup DOMAIN steps
            /\ Same(Changed(t), tasks[t].record) /\ steps' \in Seq(StepRecord)
            /\ Len(steps') = IF tasks[t].at = 0 THEN Len(steps) + 1 ELSE Len(steps)
            /\ steps'[Place(tasks[t].at)] = Changed(t)
            /\ tasks'[t] = [tasks[t] EXCEPT
                             !.pc = IF tasks[t].op = "fail" THEN "failed" ELSE "completed",
                             !.record = Changed(t),
                             !.output = IF tasks[t].op = "complete"
                                          THEN WithOutput \cap {tasks[t].record.step} ELSE {}]
        BY <1>22, <2>2, ChangeStepDoes, Zenon DEF Same
      <3>2. Place(tasks[t].at) \in DOMAIN steps'
        BY <1>1, <3>1, StepsInPlace DEF Place, Kept, BaseInv
      <3>3. Original(tasks[t].record)
        BY <1>1, <3>1 DEF Placed
      <3>4. Begun(tasks[t].record.step)
        BY <1>5, <3>1, <3>2, <3>3
      <3>5. tasks'[t].pc \in {"failed", "completed"} /\ tasks'[t].record = Changed(t)
        BY <1>1, <3>1
      <3>6. CASE tasks'[t].pc = "failed"
        BY <3>6 DEF Placed, Writes, Advancing
      <3>7. CASE tasks'[t].pc = "completed"
        BY <1>4, <3>1, <3>4, <3>5, <3>7 DEF Advancing, Same
      <3>8. QED
        BY <3>5, <3>6, <3>7
    <2>3. QED
      BY <2>1, <2>2
  <1>23. QED
    BY <1>6, <1>7, <1>8, <1>9, <1>10, <1>11, <1>12, <1>13, <1>14, <1>16, <1>17,
       <1>18, <1>19, <1>20, <1>21, <1>22 DEF TaskStep

\* What a step saves is allowed, whatever happens to be stored.
LEMMA DoneRecorded ==
    ASSUME BaseInv, NEW u, tasks'[u] = Done
    PROVE  Recorded(u)'
  BY DoneIsDone DEF Recorded, BaseInv, WithinPolicy

LEMMA NewbornRecorded ==
    ASSUME BaseInv, NEW u, NEW inst, Newborn(u, inst)
    PROVE  Recorded(u)'
  <1>1. CASE tasks'[u] = Done
    BY <1>1, DoneRecorded
  <1>2. CASE tasks'[u] # Done
    <2>1. tasks'[u].pc = "handler" /\ WithinPolicy(tasks'[u].record)
          /\ tasks'[u].record.status = "active"
      BY <1>2, NewInstance DEF Newborn, BaseInv
    <2>2. QED
      BY <2>1 DEF Recorded, WithinPolicy
  <1>3. QED
    BY <1>1, <1>2

LEMMA RecordedByTask ==
    ASSUME BaseInv, NEW t \in DOMAIN tasks, TaskStep(t)
    PROVE  Recorded(t)' /\ \A n \in DOMAIN steps' : Allowed(steps'[n])
  <1>1. /\ DOMAIN tasks[t] = {"op", "pc", "at", "record", "instance", "output", "next"}
        /\ tasks[t].record \in StepRecord /\ tasks[t].record.step \in Steps
        /\ tasks[t].record.attempt \in Nat /\ MaxAttempts[tasks[t].record.step] \in Nat
        /\ Recorded(t) /\ Placed(t) /\ WithinPolicy(tasks[t].record)
    BY TaskFields, TaskParts, FirstIsFirst DEF BaseInv, PlaceInv, RecordInv, Recorded
  <1>2. \A n \in DOMAIN steps : Allowed(steps[n])
    BY DEF BaseInv, RecordInv
  <1>3. ASSUME steps' = steps
        PROVE  \A n \in DOMAIN steps' : Allowed(steps'[n])
    BY <1>2, <1>3
  <1>4. ASSUME tasks'[t].pc \notin {"handler", "undoing", "read", "compensating"},
               tasks'[t].record = tasks[t].record
        PROVE  Recorded(t)'
    BY <1>1, <1>4 DEF Recorded, WithinPolicy
  <1>6. DOMAIN steps = 1..Len(steps)
    BY StepsInPlace DEF BaseInv
  <1>7. CASE HandlerSucceeds(t)
    <2>1. tasks'[t].record = [tasks[t].record EXCEPT !.status = "completed", !.completedAt = clock]
      BY <1>7, HandlerSucceedsDoes
    <2>2. /\ tasks'[t].pc = "completed" /\ tasks[t].at \in DOMAIN steps
          /\ \A n \in DOMAIN steps \ {tasks[t].at} : steps'[n] = steps[n]
          /\ steps'[tasks[t].at] = tasks'[t].record
      BY <1>1, <1>7, HandlerSucceedsDoes, Zenon
    <2>3. WithinPolicy(tasks'[t].record) /\ Allowed(tasks'[t].record)
      BY <1>1, <2>1 DEF StepRecord, WithinPolicy, Allowed
    <2>4. DOMAIN steps' = DOMAIN steps
      <3>1. steps' \in Seq(StepRecord) /\ Len(steps') = Len(steps)
        BY <1>7, HandlerSucceedsDoes, Zenon
      <3>2. QED
        BY <1>6, <3>1
    <2>5. Recorded(t)'
      BY <2>2, <2>3 DEF Recorded, WithinPolicy
    <2>6. \A n \in DOMAIN steps' : Allowed(steps'[n])
      BY <1>2, <2>2, <2>3, <2>4
    <2>7. QED
      BY <2>5, <2>6
  <1>8. CASE HandlerRetries(t)
    <2>1. tasks'[t].record = [tasks[t].record EXCEPT !.attempt = tasks[t].record.attempt + 1]
          /\ CanRetry(tasks[t].record.step, tasks[t].record.attempt) /\ steps' = steps
          /\ tasks[t].pc = "handler"
      BY <1>8, HandlerRetriesDoes
    <2>2. tasks'[t].pc = "handler"
      BY <1>1, <1>8, HandlerRetriesDoes
    <2>3. WithinPolicy(tasks'[t].record) /\ tasks'[t].record.status = tasks[t].record.status
      BY <1>1, <2>1 DEF StepRecord, WithinPolicy, CanRetry
    <2>4. QED
      BY <1>1, <1>3, <2>1, <2>2, <2>3 DEF Recorded, WithinPolicy
  <1>9. CASE HandlerFails(t)
    <2>1. /\ tasks'[t].pc = "failed" /\ tasks[t].at \in DOMAIN steps
          /\ tasks'[t].record = tasks[t].record
          /\ \A n \in DOMAIN steps \ {tasks[t].at} : steps'[n] = steps[n]
          /\ steps'[tasks[t].at] = [tasks[t].record EXCEPT !.status = "failed"]
      BY <1>1, <1>9, HandlerFailsDoes, Zenon
    <2>2. Allowed([tasks[t].record EXCEPT !.status = "failed"])
      BY <1>1 DEF StepRecord, WithinPolicy, Allowed
    <2>3. DOMAIN steps' = DOMAIN steps
      <3>1. steps' \in Seq(StepRecord) /\ Len(steps') = Len(steps)
        BY <1>9, HandlerFailsDoes
      <3>2. QED
        BY <1>6, <3>1
    <2>4. Recorded(t)'
      BY <1>4, <2>1
    <2>5. \A n \in DOMAIN steps' : Allowed(steps'[n])
      BY <1>2, <2>1, <2>2, <2>3
    <2>6. QED
      BY <2>4, <2>5
  <1>10. CASE CallAdvance(t)
    <2>1. tasks'[t].pc \in {"chained", "entered"} /\ tasks'[t].record = tasks[t].record
          /\ steps' = steps
      BY <1>1, <1>10, CallAdvanceDoes, Zenon
    <2>2. QED
      BY <1>3, <1>4, <2>1
  <1>11. CASE EnterLock(t)
    <2>1. tasks'[t] = [tasks[t] EXCEPT !.pc = "entered", !.instance = instance] /\ steps' = steps
      BY <1>11, EnterLockDoes, Zenon
    <2>2. tasks'[t].pc = "entered" /\ tasks'[t].record = tasks[t].record
      BY <1>1, <2>1
    <2>3. QED
      BY <1>3, <1>4, <2>1, <2>2
  <1>12. CASE MergeOutput(t)
    <2>1. tasks'[t] = [tasks[t] EXCEPT !.pc = "merged", !.instance = Merged(t)] /\ steps' = steps
      BY <1>12, MergeOutputDoes, Zenon
    <2>2. tasks'[t].pc = "merged" /\ tasks'[t].record = tasks[t].record
      BY <1>1, <2>1
    <2>3. QED
      BY <1>3, <1>4, <2>1, <2>2
  <1>13. CASE Decide(t)
    <2>1. tasks'[t] = [tasks[t] EXCEPT !.pc = "decided", !.next = tasks'[t].next] /\ steps' = steps
      BY <1>13, DecideDoes, Zenon
    <2>2. tasks'[t].pc = "decided" /\ tasks'[t].record = tasks[t].record
      BY <1>1, <2>1
    <2>3. QED
      BY <1>3, <1>4, <2>1, <2>2
  <1>14. ASSUME NEW ids \in Seq(Steps), Began(ids, tasks[t].instance), tasks'[t] = Done
         PROVE  Recorded(t)' /\ \A n \in DOMAIN steps' : Allowed(steps'[n])
    <2>1. \A n \in DOMAIN steps : Allowed(steps'[n])
      BY <1>2, <1>14 DEF Began
    <2>2. ASSUME NEW s \in Steps
          PROVE  Allowed(StepInstance(s))
      BY NewInstance DEF Allowed, BaseInv
    <2>3. \A n \in DOMAIN steps' \ DOMAIN steps : Allowed(steps'[n])
      BY <1>14, <2>2, TaskParts, Newcomers DEF BaseInv
    <2>4. QED
      BY <1>14, <2>1, <2>3, DoneRecorded
  <1>15. CASE Continue(t)
    <2>1. CASE tasks[t].next[1] = "start"
      BY <1>14, <1>15, <2>1, ContinueDoes
    <2>2. CASE tasks[t].next[1] # "start"
      BY <1>3, <1>15, <2>2, ContinueDoes, DoneRecorded
    <2>3. QED
      BY <2>1, <2>2
  <1>16. CASE ScanCompleted(t)
    <2>1. steps' = steps
          /\ tasks'[t] = [tasks[t] EXCEPT !.pc = "compensating", !.next = tasks'[t].next]
          /\ \A p \in DOMAIN tasks'[t].next :
                tasks'[t].next[p].at \in Undoable /\ tasks'[t].next[p].record = steps[tasks'[t].next[p].at]
      BY <1>16, ScanCompletedDoes, ZenonT(30)
    <2>2. tasks'[t].pc = "compensating" /\ tasks'[t].record = tasks[t].record
      BY <1>1, <2>1
    <2>3. \A p \in DOMAIN tasks'[t].next : WithinPolicy(tasks'[t].next[p].record)
      BY <1>2, <2>1 DEF Undoable, Allowed
    <2>4. QED
      BY <1>1, <1>3, <2>1, <2>2, <2>3 DEF Recorded, WithinPolicy
  <1>17. ASSUME tasks[t].pc \in {"compensating", "undoing"}, tasks[t].next # <<>>
         PROVE  /\ Allowed(Marked(t)) /\ Allowed(Compensation(t))
                /\ tasks[t].next[1].at \in DOMAIN steps /\ WithinPolicy(Compensation(t))
                /\ \A p \in DOMAIN Tail(tasks[t].next) : WithinPolicy(Tail(tasks[t].next)[p].record)
    <2>1. /\ 1 \in DOMAIN tasks[t].next /\ tasks[t].next[1].at \in DOMAIN steps
          /\ tasks[t].next[1].record \in StepRecord /\ Compensation(t) \in StepRecord
          /\ Compensation(t).status = "active" /\ Compensation(t).attempt = 1
          /\ \A p \in DOMAIN Tail(tasks[t].next) :
                p + 1 \in DOMAIN tasks[t].next /\ Tail(tasks[t].next)[p] = tasks[t].next[p + 1]
      BY <1>17, NextToUndo
    <2>2. \A p \in DOMAIN tasks[t].next : WithinPolicy(tasks[t].next[p].record)
                                          /\ tasks[t].next[p].record.status = "completed"
      BY <1>1, <1>17 DEF Recorded, Placed
    <2>3. Marked(t).status = "completed" /\ WithinPolicy(Marked(t))
      BY <2>1, <2>2 DEF Marked, WithinPolicy, StepRecord
    <2>4. Compensation(t).step \in Steps
      BY <2>1 DEF StepRecord
    <2>5. MaxAttempts[Compensation(t).step] \in Nat \ {0}
      BY <2>4, FirstIsFirst
    <2>6. QED
      BY <2>1, <2>2, <2>3, <2>5 DEF Allowed, WithinPolicy
  <1>18. CASE StartCompensation(t)
    <2>1. /\ tasks[t].pc = "compensating" /\ tasks[t].next # <<>>
          /\ steps' \in Seq(StepRecord) /\ Len(steps') = Len(steps) + 1
          /\ steps'[Len(steps) + 1] = Compensation(t)
          /\ \A n \in DOMAIN steps \ {tasks[t].next[1].at} : steps'[n] = steps[n]
          /\ steps'[tasks[t].next[1].at] \in {steps[tasks[t].next[1].at], Marked(t)}
      BY <1>18, StartCompensationDoes, Zenon
    <2>2. DOMAIN steps' = DOMAIN steps \cup {Len(steps) + 1}
      BY <2>1, StepsInPlace DEF BaseInv
    <2>3. \A n \in DOMAIN steps' : Allowed(steps'[n])
      BY <1>2, <1>17, <2>1, <2>2
    <2>4. CASE tasks'[t] = [tasks[t] EXCEPT !.next = Tail(tasks[t].next)]
      <3>1. tasks'[t].pc = "compensating" /\ tasks'[t].record = tasks[t].record
            /\ tasks'[t].next = Tail(tasks[t].next)
        BY <1>1, <2>1, <2>4
      <3>2. QED
        BY <1>1, <1>17, <2>1, <2>3, <3>1 DEF Recorded, WithinPolicy
    <2>5. CASE tasks'[t] = [tasks[t] EXCEPT !.pc = "undoing", !.record = Compensation(t),
                                            !.at = Len(steps) + 1]
      <3>1. /\ tasks'[t].pc = "undoing" /\ tasks'[t].record = Compensation(t)
            /\ tasks'[t].next = tasks[t].next
        BY <1>1, <2>5
      <3>2. Compensation(t).status = "active"
        BY <2>1, NextToUndo
      <3>3. \A p \in DOMAIN tasks[t].next : WithinPolicy(tasks[t].next[p].record)
        BY <1>1, <2>1 DEF Recorded
      <3>4. QED
        BY <1>17, <2>1, <2>3, <3>1, <3>2, <3>3 DEF Recorded, WithinPolicy
    <2>6. QED
      BY <1>18, <2>4, <2>5, StartCompensationDoes, Zenon
  <1>19. CASE EndCompensation(t)
    <2>1. /\ tasks[t].pc = "undoing" /\ tasks[t].next # <<>> /\ tasks[t].at \in DOMAIN steps
          /\ steps' \in Seq(StepRecord) /\ Len(steps') = Len(steps)
          /\ \E o \in {"completed", "failed"} :
                steps'[tasks[t].at] = [tasks[t].record EXCEPT !.status = o]
          /\ steps'[tasks[t].next[1].at] = Marked(t)
          /\ \A n \in DOMAIN steps \ {tasks[t].at, tasks[t].next[1].at} : steps'[n] = steps[n]
          /\ tasks'[t] = [tasks[t] EXCEPT !.pc = "compensating", !.next = Tail(tasks[t].next)]
      BY <1>19, EndCompensationDoes, Zenon
    <2>2. \A o \in {"completed", "failed"} : Allowed([tasks[t].record EXCEPT !.status = o])
      BY <1>1 DEF StepRecord, WithinPolicy, Allowed
    <2>3. DOMAIN steps' = DOMAIN steps
      BY <1>6, <2>1
    <2>4. \A n \in DOMAIN steps' : Allowed(steps'[n])
      BY <1>2, <1>17, <2>1, <2>2, <2>3
    <2>5. tasks'[t].pc = "compensating" /\ tasks'[t].record = tasks[t].record
          /\ tasks'[t].next = Tail(tasks[t].next)
      BY <1>1, <2>1
    <2>6. QED
      BY <1>1, <1>17, <2>1, <2>4, <2>5 DEF Recorded, WithinPolicy
  <1>20. CASE FailInstance(t)
    BY <1>3, <1>20, FailInstanceDoes, DoneRecorded
  <1>21. CASE ChangeInstance(t)
    BY <1>3, <1>21, ChangeInstanceDoes, DoneRecorded
  <1>22. CASE DispatchVariables(t)
    <2>1. tasks'[t].pc = "given" /\ tasks'[t].record = tasks[t].record /\ steps' = steps
      BY <1>1, <1>22, DispatchVariablesDoes, Zenon
    <2>2. QED
      BY <1>3, <1>4, <2>1
  <1>23. CASE DispatchStart(t)
    <2>1. tasks[t].record.step \in Steps /\ tasks'[t] = Done
          /\ Began(<<tasks[t].record.step>>, tasks[t].instance)
      BY <1>23, DispatchStartDoes
    <2>2. <<tasks[t].record.step>> \in Seq(Steps)
      BY <2>1
    <2>3. QED
      BY <1>14, <2>1, <2>2
  <1>24. CASE ChangeStep(t)
    <2>1. CASE steps' = steps /\ tasks'[t] = Done
      BY <1>3, <2>1, DoneRecorded
    <2>2. CASE ~ (steps' = steps /\ tasks'[t] = Done)
      <3>1. /\ tasks[t].pc = "read" /\ tasks[t].op \in DOMAIN StepTarget
            /\ CanTransitionStep(tasks[t].record.status, StepTarget[tasks[t].op])
            /\ tasks[t].at \in {0} \cup DOMAIN steps
            /\ Changed(t).step = tasks[t].record.step
            /\ Changed(t).status = StepTarget[tasks[t].op]
            /\ Changed(t).attempt = IF tasks[t].op = "retry" THEN tasks[t].record.attempt + 1
                                                             ELSE tasks[t].record.attempt
            /\ steps' \in Seq(StepRecord)
            /\ Len(steps') = IF tasks[t].at = 0 THEN Len(steps) + 1 ELSE Len(steps)
            /\ \A n \in DOMAIN steps \ {tasks[t].at} : steps'[n] = steps[n]
            /\ steps'[Place(tasks[t].at)] = Changed(t)
        BY <1>24, <2>2, ChangeStepDoes, Zenon
      <3>2. \/ tasks'[t] = Done
            \/ tasks'[t] = [tasks[t] EXCEPT
                             !.pc = IF tasks[t].op = "fail" THEN "failed" ELSE "completed",
                             !.record = Changed(t),
                             !.output = IF tasks[t].op = "complete"
                                          THEN WithOutput \cap {tasks[t].record.step} ELSE {}]
        BY <1>24, <2>2, ChangeStepDoes, Zenon
      <3>3. tasks[t].op = "retry" => CanRetry(tasks[t].record.step, tasks[t].record.attempt)
        BY <1>1, <3>1 DEF Recorded
      <3>4. WithinPolicy(Changed(t))
        BY <1>1, <3>1, <3>3 DEF WithinPolicy, CanRetry
      <3>5. Changed(t).status # "waiting"
        BY <3>1, StepTargets, Tables
      <3>6. \A n \in DOMAIN steps' : n \in DOMAIN steps \ {tasks[t].at} \/ n = Place(tasks[t].at)
        BY <3>1, StepsInPlace DEF Place, BaseInv
      <3>7. \A n \in DOMAIN steps' : Allowed(steps'[n])
        BY <1>2, <3>1, <3>4, <3>5, <3>6 DEF Allowed
      <3>8. \/ tasks'[t] = Done
            \/ tasks'[t].pc \in {"failed", "completed"} /\ tasks'[t].record = Changed(t)
        <4> DEFINE out == IF tasks[t].op = "complete" THEN WithOutput \cap {tasks[t].record.step} ELSE {}
                   p == IF tasks[t].op = "fail" THEN "failed" ELSE "completed"
        <4>1. tasks'[t] = Done \/ tasks'[t] = [tasks[t] EXCEPT !.pc = p, !.record = Changed(t), !.output = out]
          BY <3>2
        <4>2. p \in {"failed", "completed"}
          OBVIOUS
        <4> HIDE DEF out, p
        <4>3. QED
          BY <1>1, <4>1, <4>2
      <3>9. Recorded(t)'
        <4>1. CASE tasks'[t] = Done
          BY <4>1, DoneRecorded
        <4>2. CASE tasks'[t] # Done
          BY <3>4, <3>8, <4>2 DEF Recorded, WithinPolicy
        <4>3. QED
          BY <4>1, <4>2
      <3>10. QED
        BY <3>7, <3>9
    <2>3. QED
      BY <2>1, <2>2
  <1>25. QED
    BY <1>7, <1>8, <1>9, <1>10, <1>11, <1>12, <1>13, <1>15, <1>16, <1>18, <1>19, <1>20,
       <1>21, <1>22, <1>23, <1>24 DEF TaskStep

LEMMA RecordedBystander ==
    ASSUME NEW u, Recorded(u), tasks'[u] = tasks[u]
    PROVE  Recorded(u)'
  BY DEF Recorded, WithinPolicy

LEMMA StartedByTask ==
    ASSUME BaseInv, NEW t \in DOMAIN tasks, TaskStep(t)
    PROVE  StartedInv'
  <1>1. Alone(t) /\ Kept
    BY LeavesAlone, KeptByTask
  <1>2. steps # <<>> /\ steps' # <<>>
    <2>1. steps # <<>>
      <3>1. tasks # <<>>
        BY StepsInPlace DEF BaseInv, WorkflowTypeOK
      <3>2. QED
        BY <3>1 DEF BaseInv, StartedInv
    <2>2. 1 \in DOMAIN steps
      BY <2>1 DEF BaseInv, WorkflowTypeOK
    <2>3. 1 \in DOMAIN steps'
      BY <1>1, <2>2 DEF Kept
    <2>4. QED
      BY <2>1, <2>3
  <1>3. /\ instance.status # "pending"
        /\ \A u \in DOMAIN tasks : tasks[u].pc # "done" => tasks[u].instance.status # "pending"
    BY <1>2 DEF BaseInv, StartedInv, Active
  <1>4. instance'.status # "pending"
    BY <1>1, <1>3 DEF Alone
  <1>5. Done.pc = "done"
    BY DoneIsDone DEF BaseInv
  <1>6. ASSUME NEW u \in DOMAIN tasks', tasks'[u].pc # "done"
        PROVE  tasks'[u].instance.status # "pending"
    <2>1. CASE u = t
      BY <1>1, <1>3, <1>4, <1>5, <1>6, <2>1 DEF Alone
    <2>2. CASE u \in DOMAIN tasks \ {t}
      BY <1>1, <1>3, <1>6, <2>2 DEF Alone
    <2>3. CASE u \notin DOMAIN tasks
      BY <1>1, <1>3, <1>5, <1>6, <2>3 DEF Alone, Newborn
    <2>4. QED
      BY <2>1, <2>2, <2>3
  <1>7. QED
    BY <1>2, <1>4, <1>6 DEF StartedInv, Active

LEMMA BaseByTask ==
    ASSUME BaseInv, NEW t \in DOMAIN tasks, TaskStep(t)
    PROVE  BaseInv'
  <1>1. Alone(t) /\ Kept /\ WorkflowTypeOK' /\ ChainInv' /\ StartedInv'
    BY LeavesAlone, KeptByTask, ChainByTask, StartedByTask
  <1>2. \A u \in DOMAIN tasks' : Placed(u)'
    <2>1. TAKE u \in DOMAIN tasks'
    <2>2. CASE u = t
      BY <2>2, PlacedByTask
    <2>3. CASE u \in DOMAIN tasks \ {t}
      BY <1>1, <2>3, PlacedBystander DEF Alone, BaseInv, PlaceInv
    <2>4. CASE u \notin DOMAIN tasks
      BY <1>1, <2>4, NewbornPlaced DEF Alone
    <2>5. QED
      BY <2>2, <2>3, <2>4
  <1>3. \A u \in DOMAIN tasks' : Recorded(u)'
    <2>1. TAKE u \in DOMAIN tasks'
    <2>2. CASE u = t
      BY <2>2, RecordedByTask
    <2>3. CASE u \in DOMAIN tasks \ {t}
      BY <1>1, <2>3, RecordedBystander DEF Alone, BaseInv, RecordInv
    <2>4. CASE u \notin DOMAIN tasks
      BY <1>1, <2>4, NewbornRecorded DEF Alone
    <2>5. QED
      BY <2>2, <2>3, <2>4
  <1>4. PlaceInv' /\ RecordInv'
    BY <1>2, <1>3, RecordedByTask DEF PlaceInv, RecordInv, Allowed, WithinPolicy
  <1>5. QED
    BY <1>1, <1>4 DEF BaseInv

LEMMA BaseByCall ==
    ASSUME BaseInv, NEW op \in Operations, NEW s \in Steps, Call(op, s)
    PROVE  BaseInv'
  <1>1. PICK u \in Nat :
        /\ DOMAIN tasks' = DOMAIN tasks \cup {u} /\ u \notin DOMAIN tasks
        /\ \A t \in DOMAIN tasks : tasks'[t] = tasks[t]
        /\ steps # <<>>
        /\ Asked(op, s, tasks'[u].at, tasks'[u].record) /\ Original(tasks'[u].record)
        /\ tasks'[u].op = op /\ tasks'[u].pc = "read" /\ tasks'[u].instance = instance
        /\ UNCHANGED <<instance, steps, waiters, holder, clock>>
    BY NewCall
  <1>2. WorkflowTypeOK' /\ Kept
    <2>1. calls' \in Nat /\ tasks' \in Seq(TaskRecord)
      BY CallDoes
    <2>2. WorkflowTypeOK'
      BY <1>1, <2>1 DEF BaseInv, WorkflowTypeOK
    <2>3. QED
      BY <1>1, <2>2 DEF Kept, Same, BaseInv, WorkflowTypeOK
  <1>3. ChainInv'
    BY <1>1 DEF BaseInv, ChainInv
  <1>4. Placed(u)' /\ Recorded(u)'
    <2>1. Writes(u)' => tasks'[u].at \in DOMAIN steps' /\ Same(steps'[tasks'[u].at], tasks'[u].record)
      BY <1>1 DEF Asked, Writes, Same
    <2>2. Placed(u)'
      BY <1>1, <2>1 DEF Placed, Advancing
    <2>3. \A n \in DOMAIN steps : Allowed(steps[n])
      BY DEF BaseInv, RecordInv
    <2>4. WithinPolicy(tasks'[u].record)
      BY <1>1, <2>3, FirstIsFirst DEF Asked, Allowed, WithinPolicy
    <2>5. op = "advance" => tasks'[u].at # 0 /\ tasks'[u].record.step \in Waits
      BY <1>1, <2>3, Tables DEF Asked, Allowed
    <2>6. op \in DOMAIN StepTarget /\ tasks'[u].at = 0 => op = "skip" /\ tasks'[u].record.status = "pending"
      BY <1>1 DEF Asked
    <2>7. op = "retry" => CanRetry(tasks'[u].record.step, tasks'[u].record.attempt)
      BY <1>1, Tables DEF Asked
    <2>8. Recorded(u)'
      BY <1>1, <2>4, <2>5, <2>6, <2>7 DEF Recorded, WithinPolicy, CanRetry
    <2>9. QED
      BY <2>2, <2>8
  <1>5. \A t \in DOMAIN tasks' : Placed(t)' /\ Recorded(t)'
    <2>1. TAKE t \in DOMAIN tasks'
    <2>2. CASE t = u
      BY <1>4, <2>2
    <2>3. CASE t \in DOMAIN tasks
      <3>1. Placed(t) /\ Recorded(t) /\ tasks'[t] = tasks[t]
        BY <1>1, <2>3 DEF BaseInv, PlaceInv, RecordInv
      <3>2. QED
        BY <1>2, <3>1, PlacedBystander, RecordedBystander
    <2>4. QED
      BY <1>1, <2>2, <2>3
  <1>6. StartedInv'
    BY <1>1 DEF BaseInv, StartedInv, Active
  <1>7. RecordInv' /\ PlaceInv'
    BY <1>1, <1>5 DEF BaseInv, RecordInv, PlaceInv, Allowed, WithinPolicy
  <1>8. QED
    BY <1>2, <1>3, <1>6, <1>7 DEF BaseInv

LEMMA BaseByStart ==
    ASSUME BaseInv, StartWorkflow
    PROVE  BaseInv'
  <1> DEFINE ids == <<FirstStep>>
  <1>1. /\ steps = <<>> /\ tasks = <<>> /\ ids \in Seq(Steps) /\ Began(ids, instance')
        /\ instance' = [instance EXCEPT !.status = "running"] /\ instance' \in Instance
        /\ UNCHANGED <<waiters, holder, clock, calls>>
    BY StartWorkflowDoes
  <1>2. Len(ids) = 1 /\ DOMAIN tasks = {} /\ DOMAIN steps = {}
    BY <1>1
  <1> HIDE DEF ids
  <1>3. WorkflowTypeOK' /\ Kept
    BY KeptByAll DEF Next
  <1>4. \A u \in DOMAIN tasks' : Newborn(u, instance')
    <2> DEFINE inst == instance'
    <2>1. inst \in Instance /\ Began(ids, inst)
      BY <1>1
    <2> HIDE DEF inst
    <2>2. \A u \in DOMAIN tasks' \ DOMAIN tasks : Newborn(u, inst)
      BY <1>1, <2>1, NewbornTasks
    <2>3. QED
      BY <1>2, <2>2 DEF inst
  <1>5. ChainInv'
    BY <1>1, <1>2 DEF BaseInv, ChainInv
  <1>6. \A u \in DOMAIN tasks' : Placed(u)' /\ Recorded(u)'
    <2>1. TAKE u \in DOMAIN tasks'
    <2> DEFINE inst == instance'
    <2>2. Newborn(u, inst)
      BY <1>4
    <2> HIDE DEF inst
    <2>3. QED
      BY <2>2, NewbornPlaced, NewbornRecorded
  <1>7. \A n \in DOMAIN steps' : Allowed(steps'[n])
    <2> DEFINE inst == instance'
    <2>1. inst \in Instance /\ Began(ids, inst)
      BY <1>1
    <2> HIDE DEF inst
    <2>2. ASSUME NEW s \in Steps
          PROVE  Allowed(StepInstance(s))
      BY NewInstance DEF Allowed, BaseInv
    <2>3. \A n \in DOMAIN steps' \ DOMAIN steps : Allowed(steps'[n])
      BY <1>1, <2>1, <2>2, Newcomers
    <2>4. QED
      BY <1>2, <2>3
  <1>8. StartedInv'
    <2>1. instance'.status = "running"
      BY <1>1 DEF BaseInv, WorkflowTypeOK, Instance
    <2>2. steps' # <<>>
      <3>1. Len(steps) = 0 /\ Len(steps') = Len(steps) + Len(ids)
        BY <1>1 DEF Began
      <3>2. Len(steps') = 1
        BY <1>2, <3>1
      <3>3. QED
        BY <3>2
    <2>3. Done.pc = "done"
      BY DoneIsDone DEF BaseInv
    <2>4. QED
      BY <1>4, <2>1, <2>2, <2>3 DEF StartedInv, Active, Newborn
  <1>9. PlaceInv' /\ RecordInv'
    BY <1>6, <1>7 DEF PlaceInv, RecordInv, Allowed, WithinPolicy
  <1>10. QED
    BY <1>3, <1>5, <1>8, <1>9 DEF BaseInv

LEMMA BaseByAll ==
    ASSUME BaseInv, [Next]_vars
    PROVE  BaseInv' /\ Kept
  <1>1. CASE UNCHANGED vars \/ Tick
    <2>1. UNCHANGED <<instance, steps, tasks, waiters, holder, calls>>
      BY <1>1 DEF vars, Tick
    <2>2. WorkflowTypeOK' /\ Kept
      BY KeptByAll
    <2>3. ChainInv' /\ StartedInv'
      BY <2>1 DEF BaseInv, ChainInv, StartedInv, Active
    <2>4. \A t \in DOMAIN tasks : Placed(t)' /\ Recorded(t)'
      BY <2>1, <2>2, PlacedBystander, RecordedBystander DEF BaseInv, PlaceInv, RecordInv
    <2>5. PlaceInv' /\ RecordInv'
      BY <2>1, <2>4 DEF BaseInv, PlaceInv, RecordInv, Allowed, WithinPolicy
    <2>6. QED
      BY <2>2, <2>3, <2>5 DEF BaseInv
  <1>2. CASE StartWorkflow
    BY <1>2, BaseByStart, KeptByAll
  <1>3. ASSUME NEW r \in Requests, Call(r[1], r[2])
        PROVE  BaseInv' /\ Kept
    <2>1. r[1] \in Operations /\ r[2] \in Steps
      BY FirstIsFirst
    <2>2. QED
      BY <1>3, <2>1, BaseByCall, KeptByAll
  <1>4. ASSUME NEW t \in DOMAIN tasks, TaskStep(t)
        PROVE  BaseInv' /\ Kept
    BY <1>4, BaseByTask, KeptByTask
  <1>5. QED
    BY <1>1, <1>2, <1>3, <1>4 DEF Next

LEMMA BaseAtFirst ==
    Init => BaseInv
  <1> SUFFICES ASSUME Init PROVE BaseInv
    OBVIOUS
  <1>1. WorkflowTypeOK
    BY Tables DEF Init, WorkflowTypeOK, Instance
  <1>2. ChainInv /\ PlaceInv /\ StartedInv /\ RecordInv
    BY DEF Init, ChainInv, PlaceInv, StartedInv, RecordInv, Active
  <1>3. QED
    BY <1>1, <1>2 DEF BaseInv

\* Whatever graph and whatever calls, in any order and overlapping: every variable
\* has its type, a task is chained at most once, a saved record replaces one of the
\* same step instance, and no stored attempt exceeds the retry policy.
THEOREM ExecutorRecordsAreWellFormed == Spec => []BaseInv
  <1>1. Init => BaseInv
    BY BaseAtFirst
  <1>2. BaseInv /\ [Next]_vars => BaseInv'
    BY BaseByAll
  <1>3. QED
    BY <1>1, <1>2, PTL DEF Spec

\* Whatever graph and whatever calls, racing retries included: no stored step instance
\* counts more attempts than its retry policy allows.
THEOREM AttemptsStayWithinPolicy ==
    Spec => [](\A n \in DOMAIN steps : steps[n].attempt <= MaxAttempts[steps[n].step])
  <1>1. BaseInv => \A n \in DOMAIN steps : steps[n].attempt <= MaxAttempts[steps[n].step]
    BY DEF BaseInv, RecordInv, Allowed, WithinPolicy
  <1>2. QED
    BY <1>1, ExecutorRecordsAreWellFormed, PTL

-----------------------------------------------------------------------------
(* One activity at a time.                                                 *)

LEMMA StaysInSequence ==
    ASSUME Kept
    PROVE  (InSequence' => InSequence) /\ (Calm' => Calm)
  <1>1. \A s : FirstMain(s) # {} => FirstMain(s)' # {}
    BY FirstMainKept
  <1>2. InSequence' => InSequence
    BY <1>1 DEF InSequence
  <1>3. QED
    BY <1>2 DEF Calm, Sequential

\* Where each step leaves its task.
LEMMA Lands ==
    ASSUME BaseInv, NEW t \in DOMAIN tasks
    PROVE  /\ HandlerSucceeds(t) => tasks'[t].pc = "completed"
           /\ HandlerRetries(t) => tasks'[t].pc = "handler"
           /\ HandlerFails(t) => tasks'[t].pc = "failed"
           /\ CallAdvance(t) => tasks'[t].pc \in {"chained", "entered"}
           /\ EnterLock(t) => tasks'[t].pc = "entered"
           /\ MergeOutput(t) => tasks'[t].pc = "merged"
           /\ Decide(t) => tasks'[t].pc = "decided"
           /\ Continue(t) \/ FailInstance(t) \/ ChangeInstance(t) \/ DispatchStart(t) =>
                 tasks'[t].pc = "done"
           /\ ScanCompleted(t) => tasks'[t].pc = "compensating"
           /\ StartCompensation(t) => tasks'[t].pc \in {"undoing", "compensating"}
           /\ EndCompensation(t) => tasks'[t].pc = "compensating"
           /\ DispatchVariables(t) => tasks'[t].pc = "given"
           /\ ChangeStep(t) => tasks'[t].pc \in {"failed", "completed", "done"}
  <1>1. DOMAIN tasks[t] = {"op", "pc", "at", "record", "instance", "output", "next"}
        /\ Done.pc = "done"
    BY TaskFields, DoneIsDone DEF BaseInv
  <1>2. HandlerSucceeds(t) => tasks'[t].pc = "completed"
    BY <1>1, HandlerSucceedsDoes, Zenon
  <1>3. HandlerRetries(t) => tasks'[t].pc = "handler"
    BY <1>1, HandlerRetriesDoes
  <1>4. HandlerFails(t) => tasks'[t].pc = "failed"
    BY <1>1, HandlerFailsDoes
  <1>5. CallAdvance(t) => tasks'[t].pc \in {"chained", "entered"}
    BY <1>1, CallAdvanceDoes, Zenon
  <1>6. EnterLock(t) => tasks'[t].pc = "entered"
    <2>1. EnterLock(t) => tasks'[t] = [tasks[t] EXCEPT !.pc = "entered", !.instance = instance]
      BY EnterLockDoes, Zenon
    <2>2. QED
      BY <1>1, <2>1
  <1>7. MergeOutput(t) => tasks'[t].pc = "merged"
    <2>1. MergeOutput(t) => tasks'[t] = [tasks[t] EXCEPT !.pc = "merged", !.instance = Merged(t)]
      BY MergeOutputDoes, Zenon
    <2>2. QED
      BY <1>1, <2>1
  <1>8. Decide(t) => tasks'[t].pc = "decided"
    <2>1. Decide(t) => tasks'[t] = [tasks[t] EXCEPT !.pc = "decided", !.next = tasks'[t].next]
      BY DecideDoes, Zenon
    <2>2. QED
      BY <1>1, <2>1
  <1>9. Continue(t) \/ FailInstance(t) \/ ChangeInstance(t) \/ DispatchStart(t) => tasks'[t].pc = "done"
    BY <1>1, ContinueDoes, FailInstanceDoes, ChangeInstanceDoes, DispatchStartDoes
  <1>10. ScanCompleted(t) => tasks'[t].pc = "compensating"
    <2>1. ScanCompleted(t) => tasks'[t] = [tasks[t] EXCEPT !.pc = "compensating", !.next = tasks'[t].next]
      BY ScanCompletedDoes, Zenon
    <2>2. QED
      BY <1>1, <2>1
  <1>11. StartCompensation(t) => tasks'[t].pc \in {"undoing", "compensating"}
    <2>1. StartCompensation(t) =>
            /\ tasks[t].pc = "compensating"
            /\ \/ tasks'[t] = [tasks[t] EXCEPT !.pc = "undoing", !.record = Compensation(t),
                                               !.at = Len(steps) + 1]
               \/ tasks'[t] = [tasks[t] EXCEPT !.next = Tail(tasks[t].next)]
      BY StartCompensationDoes, Zenon
    <2>2. QED
      BY <1>1, <2>1
  <1>12. EndCompensation(t) => tasks'[t].pc = "compensating"
    <2>1. EndCompensation(t) =>
             tasks'[t] = [tasks[t] EXCEPT !.pc = "compensating", !.next = Tail(tasks[t].next)]
      BY EndCompensationDoes, Zenon
    <2>2. QED
      BY <1>1, <2>1
  <1>13. DispatchVariables(t) => tasks'[t].pc = "given"
    BY <1>1, DispatchVariablesDoes, Zenon
  <1>14. ChangeStep(t) => tasks'[t].pc \in {"failed", "completed", "done"}
    <2> DEFINE out == IF tasks[t].op = "complete" THEN WithOutput \cap {tasks[t].record.step} ELSE {}
               p == IF tasks[t].op = "fail" THEN "failed" ELSE "completed"
    <2>1. ChangeStep(t) =>
             \/ tasks'[t] = Done
             \/ tasks'[t] = [tasks[t] EXCEPT !.pc = p, !.record = Changed(t), !.output = out]
      BY ChangeStepDoes, Zenon
    <2>2. p \in {"failed", "completed"}
      OBVIOUS
    <2> HIDE DEF out, p
    <2>3. QED
      BY <1>1, <2>1, <2>2
  <1>15. QED
    BY <1>2, <1>3, <1>4, <1>5, <1>6, <1>7, <1>8, <1>9, <1>10, <1>11, <1>12, <1>13, <1>14

\* The step by which a task comes where it is.
LEMMA Arrives ==
    ASSUME BaseInv, NEW t \in DOMAIN tasks, TaskStep(t)
    PROVE  /\ tasks'[t].pc = "handler" => HandlerRetries(t)
           /\ tasks'[t].pc # "read"
           /\ tasks'[t].pc = "given" => DispatchVariables(t)
           /\ tasks'[t].pc = "completed" => HandlerSucceeds(t) \/ ChangeStep(t)
           /\ tasks'[t].pc = "chained" => CallAdvance(t)
           /\ tasks'[t].pc = "entered" => CallAdvance(t) \/ EnterLock(t)
           /\ tasks'[t].pc = "merged" => MergeOutput(t)
           /\ tasks'[t].pc = "decided" => Decide(t)
           /\ tasks'[t].pc = "failed" => HandlerFails(t) \/ ChangeStep(t)
           /\ tasks'[t].pc = "compensating" =>
                 ScanCompleted(t) \/ StartCompensation(t) \/ EndCompensation(t)
           /\ tasks'[t].pc = "undoing" => StartCompensation(t)
  BY Lands DEF TaskStep

LEMMA ChosenByAll ==
    ASSUME BaseInv, ChosenInv, [Next]_vars
    PROVE  ChosenInv'
  <1>0. Done.pc = "done"
    BY DoneIsDone DEF BaseInv
  <1>1. ASSUME NEW u \in DOMAIN tasks, tasks'[u] = tasks[u], tasks'[u].pc = "decided"
        PROVE  Chosen(u)'
    BY <1>1 DEF ChosenInv, Chosen
  <1>2. ASSUME NEW t \in DOMAIN tasks, Decide(t)
        PROVE  Chosen(t)'
    <2>1. tasks'[t].next \in Decisions(tasks[t].record.step)
      BY <1>2, DecideDoes, Zenon
    <2>2. tasks[t].record.step \in Steps
      BY TaskParts DEF BaseInv
    <2> DEFINE d == tasks'[t].next
    <2>3. \/ d \in {<<"none">>, <<"complete">>, <<"error">>} /\ d[1] # "start"
          \/ \E f \in Forks : d = <<"start", f.to>> /\ Tail(d) = <<f.to>>
          \/ \E x \in Transitions : d = <<"start", x.to>> /\ Tail(d) = <<x.to>>
          \/ \E f \in Forks : d = <<"start">> \o f.branches /\ Tail(d) = f.branches
      BY <2>1, <2>2, DecisionParts
    <2>4. \A x \in Transitions : x.to \in Steps
      BY WorkflowAssumption
    <2> HIDE DEF d
    <2>5. \/ d \in {<<"none">>, <<"complete">>, <<"error">>} /\ d[1] # "start"
          \/ \E y \in Steps : d = <<"start", y>> /\ Tail(d) = <<y>>
          \/ \E f \in Forks : d = <<"start">> \o f.branches /\ Tail(d) = f.branches
      BY <2>3, <2>4, FirstIsFirst
    <2>6. QED
      BY <2>5 DEF Chosen, d
  <1>3. ASSUME NEW t \in DOMAIN tasks, TaskStep(t), NEW u \in DOMAIN tasks', tasks'[u].pc = "decided"
        PROVE  Chosen(u)'
    <2>1. Alone(t)
      BY <1>3, LeavesAlone
    <2>2. CASE u \in DOMAIN tasks \ {t}
      BY <1>1, <1>3, <2>1, <2>2 DEF Alone
    <2>3. CASE u \notin DOMAIN tasks
      BY <1>0, <1>3, <2>1, <2>3 DEF Alone, Newborn
    <2>4. CASE u = t
      BY <1>2, <1>3, <2>4, Arrives
    <2>5. QED
      BY <2>2, <2>3, <2>4
  <1>4. CASE UNCHANGED vars \/ Tick
    BY <1>1, <1>4 DEF vars, Tick, ChosenInv
  <1>5. CASE StartWorkflow
    <2>1. tasks = <<>> /\ <<FirstStep>> \in Seq(Steps) /\ instance' \in Instance
          /\ Began(<<FirstStep>>, instance')
      BY <1>5, StartWorkflowDoes
    <2>2. ASSUME NEW inst \in Instance, inst = instance'
          PROVE  \A u \in DOMAIN tasks' \ DOMAIN tasks : Newborn(u, inst)
      BY <2>1, <2>2, NewbornTasks
    <2>3. \A u \in DOMAIN tasks' : tasks'[u].pc # "decided"
      BY <1>0, <2>1, <2>2 DEF Newborn
    <2>4. QED
      BY <2>3 DEF ChosenInv
  <1>6. ASSUME NEW r \in Requests, Call(r[1], r[2]), NEW u \in DOMAIN tasks', tasks'[u].pc = "decided"
        PROVE  Chosen(u)'
    <2>1. r[1] \in Operations /\ r[2] \in Steps
      BY FirstIsFirst
    <2>2. PICK v \in Nat : /\ DOMAIN tasks' = DOMAIN tasks \cup {v} /\ tasks'[v].pc = "read"
                           /\ \A t \in DOMAIN tasks : tasks'[t] = tasks[t]
      BY <1>6, <2>1, NewCall
    <2>3. QED
      BY <1>1, <1>6, <2>2
  <1>7. QED
    BY <1>3, <1>4, <1>5, <1>6 DEF Next, ChosenInv

\* Only one run begins, and only when the task that starts it ends.
LEMMA OneSuccessor ==
    ASSUME BaseInv, NEW ids \in Seq(Steps), NEW inst \in Instance, Began(ids, inst),
           Calm', Len(ids) <= 1 \/ \E f \in Forks : ids = f.branches
    PROVE  \A u, v \in DOMAIN tasks' \ DOMAIN tasks :
              tasks'[u].pc # "done" /\ tasks'[v].pc # "done" => u = v
  <1> SUFFICES ASSUME NEW u \in DOMAIN tasks' \ DOMAIN tasks, tasks'[u].pc # "done",
                      NEW v \in DOMAIN tasks' \ DOMAIN tasks, tasks'[v].pc # "done"
               PROVE  u = v
    OBVIOUS
  <1>1. /\ u - Len(tasks) \in 1..Len(ids) /\ ids[u - Len(tasks)] \in Handled \ Waits
        /\ v - Len(tasks) \in 1..Len(ids) /\ ids[v - Len(tasks)] \in Handled \ Waits
    BY Newcomers, DoneIsDone DEF BaseInv
  <1>2. Len(tasks) \in Nat /\ Len(ids) \in Nat /\ u \in Nat /\ v \in Nat
    BY KeptByBegan DEF BaseInv, WorkflowTypeOK
  <1>3. CASE Len(ids) <= 1
    BY <1>1, <1>2, <1>3
  <1>4. CASE \E f \in Forks : ids = f.branches
    <2>1. PICK f \in Forks : ids = f.branches
      BY <1>4
    <2>2. Handled \ Waits # {}
      BY <1>1
    <2>3. InSequence'
      BY <2>1, <2>2 DEF Calm, Sequential
    <2>4. 1 \in 1..Len(ids) /\ Len(steps) \in Nat
      BY <1>1, <1>2 DEF BaseInv, WorkflowTypeOK
    <2>5. ids[1] \in Steps /\ steps'[Len(steps) + 1] = StepInstance(ids[1])
      BY <2>4 DEF Began
    <2>6. Len(steps) + 1 \in DOMAIN steps'
      BY <1>2, <2>4 DEF Began
    <2>7. StepInstance(ids[1]).step = ids[1] /\ Original(StepInstance(ids[1]))
      BY <2>5, NewInstance DEF BaseInv
    <2>8. \E n \in DOMAIN steps' : steps'[n].step = ids[1] /\ steps'[n].compensationOf = NoStep
      BY <2>5, <2>6, <2>7 DEF Original
    <2>9. ids[1] \in ToSet(f.branches)
      BY <2>1, <2>4, BranchesAreFinite
    <2>10. QED
      BY <2>3, <2>8, <2>9 DEF InSequence, FirstMain, Main
  <1>5. QED
    BY <1>3, <1>4

LEMMA SuccessorOfContinue ==
    ASSUME BaseInv, ChosenInv, Calm', NEW t \in DOMAIN tasks, TaskStep(t)
    PROVE  \A u, v \in DOMAIN tasks' \ DOMAIN tasks :
              tasks'[u].pc # "done" /\ tasks'[v].pc # "done" => u = v
  <1>1. CASE DOMAIN tasks' = DOMAIN tasks
    BY <1>1
  <1>2. tasks[t].instance \in Instance /\ tasks[t].record.step \in Steps
    BY TaskParts DEF BaseInv
  <1>3. CASE Continue(t) /\ tasks[t].next[1] = "start"
    <2> DEFINE ids == Tail(tasks[t].next)
    <2>1. tasks[t].pc = "decided" /\ ids \in Seq(Steps) /\ Began(ids, tasks[t].instance)
      BY <1>3, ContinueDoes
    <2>2. Chosen(t)
      BY <2>1 DEF ChosenInv
    <2>3. (\E y \in Steps : ids = <<y>>) \/ \E f \in Forks : ids = f.branches
      BY <1>3, <2>2 DEF Chosen
    <2> HIDE DEF ids
    <2>4. Len(ids) <= 1 \/ \E f \in Forks : ids = f.branches
      <3>1. \A y : Len(<<y>>) = 1
        OBVIOUS
      <3>2. CASE \E y \in Steps : ids = <<y>>
        BY <3>1, <3>2
      <3>3. QED
        BY <2>3, <3>2
    <2>5. QED
      BY <1>2, <2>1, <2>4, OneSuccessor
  <1>4. CASE DispatchStart(t)
    <2> DEFINE ids == <<tasks[t].record.step>>
    <2>1. ids \in Seq(Steps) /\ Len(ids) <= 1
      BY <1>2
    <2>2. Began(ids, tasks[t].instance)
      BY <1>4, DispatchStartDoes
    <2> HIDE DEF ids
    <2>3. QED
      BY <1>2, <2>1, <2>2, OneSuccessor
  <1>5. CASE ~ DispatchStart(t) /\ ~ (Continue(t) /\ tasks[t].next[1] = "start")
    <2>1. ~ Continue(t) => Turns(t)
      BY <1>5, HandlerSucceedsDoes, HandlerRetriesDoes, HandlerFailsDoes, CallAdvanceDoes,
         EnterLockDoes, MergeOutputDoes, DecideDoes, ScanCompletedDoes, StartCompensationDoes,
         EndCompensationDoes, FailInstanceDoes, ChangeInstanceDoes, DispatchVariablesDoes,
         ChangeStepDoes, Zenon DEF TaskStep
    <2>2. Continue(t) => Turns(t)
      BY <1>5, ContinueDoes
    <2>3. DOMAIN tasks' = DOMAIN tasks
      BY <2>1, <2>2 DEF Turns
    <2>4. QED
      BY <2>3
  <1>6. QED
    BY <1>3, <1>4, <1>5

LEMMA CalmByAll ==
    ASSUME SoloClient, BaseInv, ChosenInv, CalmInv, [Next]_vars
    PROVE  CalmInv'
  <1> SUFFICES ASSUME Calm'
               PROVE  /\ \A u, v \in DOMAIN tasks' : tasks'[u].pc # "done" /\ tasks'[v].pc # "done" => u = v
                      /\ \A u \in DOMAIN tasks' : tasks'[u].pc # "done" => tasks'[u].instance = instance'
    BY DEF CalmInv, OneAtATime, Active
  <1>1. Kept
    BY BaseByAll
  <1>2. /\ \A u, v \in DOMAIN tasks : tasks[u].pc # "done" /\ tasks[v].pc # "done" => u = v
        /\ \A u \in DOMAIN tasks : tasks[u].pc # "done" => tasks[u].instance = instance
    BY <1>1, StaysInSequence DEF CalmInv, OneAtATime, Active
  <1>3. Done.pc = "done"
    BY DoneIsDone DEF BaseInv
  <1>4. CASE UNCHANGED vars \/ Tick
    BY <1>2, <1>4 DEF vars, Tick
  <1>5. CASE StartWorkflow
    <2>1. /\ tasks = <<>> /\ <<FirstStep>> \in Seq(Steps) /\ instance' \in Instance
          /\ Began(<<FirstStep>>, instance')
      BY <1>5, StartWorkflowDoes
    <2>2. PICK inst \in Instance : inst = instance'
      BY <2>1
    <2>3. PICK ids \in Seq(Steps) : ids = <<FirstStep>>
      BY <2>1
    <2>4. Began(ids, inst) /\ Len(ids) <= 1
      BY <2>1, <2>2, <2>3
    <2>5. \A u \in DOMAIN tasks' : Newborn(u, inst)
      BY <2>1, <2>4, NewbornTasks
    <2>6. \A u, v \in DOMAIN tasks' \ DOMAIN tasks :
              tasks'[u].pc # "done" /\ tasks'[v].pc # "done" => u = v
      BY <2>4, OneSuccessor
    <2>7. QED
      BY <1>3, <2>1, <2>2, <2>5, <2>6 DEF Newborn
  <1>6. ASSUME NEW r \in Requests, Call(r[1], r[2])
        PROVE  /\ \A u, v \in DOMAIN tasks' : tasks'[u].pc # "done" /\ tasks'[v].pc # "done" => u = v
               /\ \A u \in DOMAIN tasks' : tasks'[u].pc # "done" => tasks'[u].instance = instance'
    <2>1. r[1] \in Operations /\ r[2] \in Steps /\ SerialClient
      BY FirstIsFirst DEF SoloClient
    <2>2. PICK v \in Nat : /\ DOMAIN tasks' = DOMAIN tasks \cup {v} /\ tasks'[v].instance = instance
                           /\ \A t \in DOMAIN tasks : tasks'[t] = tasks[t]
                           /\ SerialClient => \A t \in DOMAIN tasks : tasks[t].pc = "done"
                           /\ UNCHANGED <<instance, steps, waiters, holder, clock>>
      BY <1>6, <2>1, NewCall
    <2>3. QED
      BY <2>1, <2>2
  <1>7. ASSUME NEW t \in DOMAIN tasks, TaskStep(t)
        PROVE  /\ \A u, v \in DOMAIN tasks' : tasks'[u].pc # "done" /\ tasks'[v].pc # "done" => u = v
               /\ \A u \in DOMAIN tasks' : tasks'[u].pc # "done" => tasks'[u].instance = instance'
    <2>1. /\ tasks[t].pc # "done" /\ tasks[t].instance = instance
          /\ \A u \in DOMAIN tasks \ {t} : tasks'[u].pc = "done"
          /\ \A u \in DOMAIN tasks' \ DOMAIN tasks : Newborn(u, tasks[t].instance)
          /\ DOMAIN tasks' # DOMAIN tasks => tasks'[t] = Done /\ instance' = instance
      BY <1>2, <1>7, LeavesAlone DEF Alone
    <2>2. tasks'[t].pc = "done" \/ tasks'[t].instance = instance'
      BY <1>3, <1>7, <2>1, LeavesAlone DEF Alone
    <2>3. \A u \in DOMAIN tasks' \ DOMAIN tasks : tasks'[u].pc # "done" => tasks'[u].instance = instance'
      BY <1>3, <2>1 DEF Newborn
    <2>4. \A u, v \in DOMAIN tasks' \ DOMAIN tasks :
              tasks'[u].pc # "done" /\ tasks'[v].pc # "done" => u = v
      BY <1>7, SuccessorOfContinue
    <2>5. (\E u \in DOMAIN tasks' : u \notin DOMAIN tasks) => tasks'[t].pc = "done"
      BY <1>3, <2>1
    <2>6. QED
      BY <2>1, <2>2, <2>3, <2>4, <2>5
  <1>8. QED
    BY <1>4, <1>5, <1>6, <1>7 DEF Next

LEMMA CalmAlways ==
    ASSUME SoloClient
    PROVE  Spec => [](BaseInv /\ ChosenInv /\ CalmInv)
  <1>1. Init => BaseInv /\ ChosenInv /\ CalmInv
    <2>1. Init => ChosenInv /\ CalmInv
      BY DEF Init, ChosenInv, CalmInv, OneAtATime, Active
    <2>2. QED
      BY <2>1, BaseAtFirst
  <1>2. BaseInv /\ ChosenInv /\ CalmInv /\ [Next]_vars => (BaseInv /\ ChosenInv /\ CalmInv)'
    BY BaseByAll, ChosenByAll, CalmByAll
  <1>3. QED
    BY <1>1, <1>2, PTL DEF Spec

\* Callers that await each call, in a workflow that runs no two handlers beside each
\* other: a completed, failed or cancelled instance is never changed to anything else.
THEOREM TerminalStays ==
    ASSUME SoloClient, Sequential
    PROVE  Spec => TerminalIsFinal
  <1>1. BaseInv /\ CalmInv /\ [Next]_vars =>
           (instance.status \in Terminal => instance'.status = instance.status)
    <2> SUFFICES ASSUME BaseInv, CalmInv, [Next]_vars, instance.status \in Terminal
                 PROVE  instance'.status = instance.status
      OBVIOUS
    <2>1. ASSUME NEW t \in DOMAIN tasks, TaskStep(t)
          PROVE  instance'.status = instance.status
      <3>1. Alone(t)
        BY <2>1, LeavesAlone
      <3>2. tasks[t].instance = instance
        BY <3>1 DEF Alone, CalmInv, Calm, Active
      <3>3. QED
        BY <3>1, <3>2 DEF Alone
    <2>2. CASE UNCHANGED vars \/ Tick
      BY <2>2 DEF vars, Tick
    <2>3. CASE StartWorkflow
      BY <2>3 DEF StartWorkflow, Terminal
    <2>4. ASSUME NEW r \in Requests, Call(r[1], r[2])
          PROVE  instance'.status = instance.status
      BY <2>4 DEF Call
    <2>5. QED
      BY <2>1, <2>2, <2>3, <2>4 DEF Next
  <1>2. BaseInv /\ CalmInv /\ [Next]_vars =>
           [instance.status \in Terminal => instance'.status = instance.status]_vars
    BY <1>1
  <1>3. QED
    BY <1>2, CalmAlways, PTL DEF Spec, TerminalIsFinal

-----------------------------------------------------------------------------
(* No two activities change the same step instance.                        *)

LEMMA Marks ==
    ASSUME NEW r \in StepRecord, NEW q \in {r, [r EXCEPT !.compensated = TRUE]}
    PROVE  /\ q.status = r.status /\ q.step = r.step /\ q.compensationOf = r.compensationOf
           /\ q.attempt = r.attempt /\ q.completedAt = r.completedAt
           /\ [q EXCEPT !.compensated = TRUE] = [r EXCEPT !.compensated = TRUE]
           /\ [r EXCEPT !.compensated = TRUE].compensated
  BY DEF StepRecord

\* How the step of a task changes a stored step instance.
Settles(t, n) ==
    /\ tasks[t].pc = "handler" /\ n = tasks[t].at /\ steps[n].status = "active" /\ Main(n)
    /\ steps'[n].compensated = steps[n].compensated
    /\ \/ HandlerSucceeds(t) /\ steps'[n].status = "completed"
       \/ HandlerFails(t) /\ steps'[n].status = "failed"
          /\ ~ CanRetry(steps'[n].step, steps'[n].attempt)

Compensates(t, n) ==
    /\ EndCompensation(t) /\ tasks[t].pc = "undoing" /\ n = tasks[t].at
    /\ steps[n].status = "active" /\ ~ Main(n) /\ steps'[n].status \in {"completed", "failed"}

Obeys(t, n) ==
    /\ ChangeStep(t) /\ tasks[t].pc = "read" /\ n = tasks[t].at /\ steps[n] = tasks[t].record /\ Main(n)
    /\ tasks[t].op \in DOMAIN StepTarget
    /\ CanTransitionStep(steps[n].status, StepTarget[tasks[t].op])
    /\ steps'[n] = Changed(t) /\ steps'[n].status = StepTarget[tasks[t].op]

Marked1(t, n) ==
    /\ tasks[t].pc \in {"compensating", "undoing"} /\ tasks[t].next # <<>> /\ n = tasks[t].next[1].at
    /\ steps[n].status = "completed" /\ Main(n)
    /\ steps'[n] = [steps[n] EXCEPT !.compensated = TRUE]

LEMMA Changes ==
    ASSUME BaseInv, OwnInv, NEW t \in DOMAIN tasks, TaskStep(t), NEW n \in DOMAIN steps
    PROVE  steps'[n] = steps[n] \/ Settles(t, n) \/ Compensates(t, n) \/ Obeys(t, n) \/ Marked1(t, n)
  <1> SUFFICES ASSUME steps'[n] # steps[n]
               PROVE  Settles(t, n) \/ Compensates(t, n) \/ Obeys(t, n) \/ Marked1(t, n)
    OBVIOUS
  <1>1. /\ Placed(t) /\ Recorded(t) /\ Owned(t) /\ tasks[t].record \in StepRecord
        /\ steps[n] \in StepRecord /\ 0 \notin DOMAIN steps
    BY TaskParts, StepsInPlace DEF BaseInv, PlaceInv, RecordInv, OwnInv
  <1>2. ASSUME Writes(t), Original(tasks[t].record)
        PROVE  /\ Main(tasks[t].at) /\ steps[tasks[t].at].status = tasks[t].record.status
               /\ steps[tasks[t].at].compensated = tasks[t].record.compensated
    BY <1>1, <1>2 DEF Placed, Owned, Same, Original, Main
  <1>3. ASSUME tasks[t].pc \in {"compensating", "undoing"}, tasks[t].next # <<>>
        PROVE  LET m == tasks[t].next[1].at
               IN  /\ m \in DOMAIN steps /\ steps[m].status = "completed" /\ Main(m)
                   /\ Marked(t) = [steps[m] EXCEPT !.compensated = TRUE]
    <2> DEFINE u == tasks[t].next[1]
    <2>1. 1 \in DOMAIN tasks[t].next /\ u.record \in StepRecord
      BY <1>3, NextToUndo
    <2>2. /\ u.at \in DOMAIN steps /\ Same(steps[u.at], u.record)
          /\ Original(u.record) /\ u.record.status = "completed"
      BY <1>1, <1>3, <2>1 DEF Placed
    <2>3. steps[u.at] \in {u.record, [u.record EXCEPT !.compensated = TRUE]}
      BY <1>1, <1>3, <2>1 DEF Owned
    <2>4. Marked(t) = [u.record EXCEPT !.compensated = TRUE]
      BY DEF Marked
    <2> HIDE DEF u
    <2>5. /\ steps[u.at].status = "completed" /\ Main(u.at)
          /\ [steps[u.at] EXCEPT !.compensated = TRUE] = Marked(t)
      BY <2>1, <2>2, <2>3, <2>4, Marks, Zenon DEF Main, Same, Original
    <2>6. QED
      BY <2>2, <2>5 DEF u
  <1>4. CASE HandlerSucceeds(t)
    <2>1. tasks[t].pc = "handler" /\ n = tasks[t].at /\ steps'[n] = tasks'[t].record
      BY <1>4, HandlerSucceedsDoes, Zenon
    <2>2. tasks'[t].record = [tasks[t].record EXCEPT !.status = "completed", !.completedAt = clock]
      BY <1>4, HandlerSucceedsDoes, Zenon
    <2>3. steps'[n].status = "completed" /\ steps'[n].compensated = tasks[t].record.compensated
      BY <1>1, <2>1, <2>2 DEF StepRecord
    <2>4. steps[n].status = "active" /\ Main(n) /\ steps[n].compensated = tasks[t].record.compensated
      BY <1>1, <1>2, <2>1 DEF Writes, Placed, Recorded
    <2>5. QED
      BY <1>4, <2>1, <2>3, <2>4 DEF Settles
  <1>5. CASE HandlerFails(t)
    <2>1. tasks[t].pc = "handler" /\ n = tasks[t].at
          /\ steps'[n] = [tasks[t].record EXCEPT !.status = "failed"]
          /\ ~ CanRetry(tasks[t].record.step, tasks[t].record.attempt)
      BY <1>5, HandlerFailsDoes
    <2>2. steps'[n].status = "failed" /\ steps'[n].step = tasks[t].record.step
          /\ steps'[n].attempt = tasks[t].record.attempt
          /\ steps'[n].compensated = tasks[t].record.compensated
      BY <1>1, <2>1 DEF StepRecord
    <2>3. steps[n].status = "active" /\ Main(n) /\ steps[n].compensated = tasks[t].record.compensated
      BY <1>1, <1>2, <2>1 DEF Writes, Placed, Recorded
    <2>4. QED
      BY <1>5, <2>1, <2>2, <2>3 DEF Settles
  <1>6. CASE StartCompensation(t)
    <2>1. tasks[t].pc = "compensating" /\ tasks[t].next # <<>>
          /\ n = tasks[t].next[1].at /\ steps'[n] = Marked(t)
      BY <1>6, StartCompensationDoes, Zenon
    <2>2. QED
      BY <1>3, <2>1 DEF Marked1
  <1>7. CASE EndCompensation(t)
    <2>1. tasks[t].pc = "undoing" /\ tasks[t].next # <<>>
          /\ n \in {tasks[t].at, tasks[t].next[1].at}
          /\ steps'[tasks[t].next[1].at] = Marked(t)
      BY <1>7, EndCompensationDoes, Zenon
    <2>2. PICK o \in {"completed", "failed"} : steps'[tasks[t].at] = [tasks[t].record EXCEPT !.status = o]
      BY <1>7, EndCompensationDoes, Zenon
    <2>3. steps'[tasks[t].at].status \in {"completed", "failed"}
      BY <1>1, <2>2 DEF StepRecord
    <2>4. CASE n = tasks[t].next[1].at
      BY <1>3, <2>1, <2>4 DEF Marked1
    <2>5. CASE n = tasks[t].at
      <3>1. steps[n].status = "active" /\ ~ Main(n)
        BY <1>1, <2>1, <2>5 DEF Placed, Owned, Recorded, Writes, Same, Original, Main
      <3>2. QED
        BY <1>7, <2>1, <2>3, <2>5, <3>1 DEF Compensates
    <2>6. QED
      BY <2>1, <2>4, <2>5
  <1>8. CASE ChangeStep(t)
    <2>1. /\ tasks[t].pc = "read" /\ tasks[t].op \in DOMAIN StepTarget
          /\ CanTransitionStep(tasks[t].record.status, StepTarget[tasks[t].op])
          /\ Changed(t).status = StepTarget[tasks[t].op]
          /\ n = tasks[t].at /\ steps'[Place(tasks[t].at)] = Changed(t)
      BY <1>8, ChangeStepDoes, Zenon
    <2>2. tasks[t].at # 0 /\ Place(tasks[t].at) = n
      BY <1>1, <2>1 DEF Place
    <2>3. steps[n] = tasks[t].record /\ Main(n)
      BY <1>1, <1>2, <2>1, <2>2 DEF Owned, Writes, Placed
    <2>4. QED
      BY <1>8, <2>1, <2>2, <2>3 DEF Obeys
  <1>9. CASE Continue(t) \/ DispatchStart(t)
    BY <1>9, ContinueDoes, DispatchStartDoes DEF Began
  <1>10. CASE HandlerRetries(t) \/ CallAdvance(t) \/ EnterLock(t) \/ MergeOutput(t) \/ Decide(t)
              \/ ScanCompleted(t) \/ FailInstance(t) \/ ChangeInstance(t) \/ DispatchVariables(t)
    BY <1>10, Zenon DEF HandlerRetries, CallAdvance, EnterLock, MergeOutput, Decide, ScanCompleted,
                 FailInstance, ChangeInstance, DispatchVariables
  <1>11. QED
    BY <1>4, <1>5, <1>6, <1>7, <1>8, <1>9, <1>10 DEF TaskStep

LEMMA OwnedInPlace ==
    ASSUME Undisturbed, BaseInv, CalmInv, OwnInv, NEW t \in DOMAIN tasks, TaskStep(t),
           NEW w \in DOMAIN tasks \ {t}
    PROVE  Owned(w)'
  <1>1. tasks'[w] = tasks[w] /\ tasks[t].pc # "done" /\ Owned(w) /\ Placed(w) /\ Recorded(w)
    BY LeavesAlone DEF Alone, OwnInv, BaseInv, PlaceInv, RecordInv
  <1>2. CASE tasks[w].pc = "done"
    BY <1>1, <1>2 DEF Owned, Writes
  <1>3. CASE tasks[w].pc # "done"
    <2>1. Requests = {}
      BY <1>1, <1>3 DEF Undisturbed, CalmInv, Calm, OneAtATime, Active
    <2>2. tasks[w].pc # "read" /\ tasks[t].pc # "read"
      BY <1>1, <2>1 DEF Owned, OwnInv
    <2>3. ASSUME Writes(w)
          PROVE  steps'[tasks[w].at] = steps[tasks[w].at]
      <3>1. steps[tasks[w].at].status = "active" /\ tasks[w].at \in DOMAIN steps
        BY <1>1, <2>2, <2>3 DEF Owned, Placed, Writes, Recorded
      <3>2. Writes(t) => tasks[t].at # tasks[w].at
        BY <2>3 DEF OwnInv
      <3>3. tasks[t].pc \in {"handler", "undoing"} => Writes(t)
        BY DEF Writes
      <3>4. QED
        BY <2>2, <3>1, <3>2, <3>3, Changes DEF Settles, Compensates, Obeys, Marked1
    <2>4. ASSUME tasks[w].pc \in {"compensating", "undoing"}, NEW i \in DOMAIN tasks[w].next
          PROVE  LET u == tasks[w].next[i]
                 IN  steps'[u.at] \in {u.record, [u.record EXCEPT !.compensated = TRUE]}
      <3> DEFINE u == tasks[w].next[i]
                 q == [u.record EXCEPT !.compensated = TRUE]
      <3>1. /\ u \in Undo /\ u.at \in DOMAIN steps /\ Same(steps[u.at], u.record)
            /\ Original(u.record) /\ u.record.status = "completed"
            /\ steps[u.at] \in {u.record, q}
        BY <1>1, <2>4 DEF Placed, Owned
      <3> HIDE DEF u
      <3>2. u.record \in StepRecord
        BY <3>1 DEF Undo
      <3>3. /\ steps[u.at].status = "completed" /\ Main(u.at)
            /\ [steps[u.at] EXCEPT !.compensated = TRUE] = q
        BY <3>1, <3>2, Marks, Zenon DEF Same, Original, Main
      <3> HIDE DEF q
      <3>4. steps'[u.at] = steps[u.at] \/ steps'[u.at] = q
        BY <2>2, <3>1, <3>3, Changes DEF Settles, Compensates, Obeys, Marked1
      <3>5. QED
        BY <3>1, <3>4 DEF u, q
    <2>5. QED
      BY <1>1, <2>2, <2>3, <2>4 DEF Owned, Writes
  <1>4. QED
    BY <1>2, <1>3

LEMMA OwnedByTask ==
    ASSUME Undisturbed, BaseInv, CalmInv, OwnInv, NEW t \in DOMAIN tasks, TaskStep(t)
    PROVE  /\ Owned(t)'
           /\ Writes(t)' => \/ tasks'[t].at = tasks[t].at /\ Writes(t)
                            \/ tasks'[t].at \notin DOMAIN steps
  <1>1. /\ DOMAIN tasks[t] = {"op", "pc", "at", "record", "instance", "output", "next"}
        /\ Placed(t) /\ Owned(t) /\ Recorded(t) /\ tasks[t].record \in StepRecord
    BY TaskFields, TaskParts DEF BaseInv, PlaceInv, RecordInv, OwnInv
  <1>2. CASE tasks'[t].pc \notin {"handler", "read", "given", "compensating", "undoing"}
    BY <1>2 DEF Owned, Writes
  <1>3. CASE tasks'[t].pc = "handler"
    <2>1. HandlerRetries(t)
      BY <1>3, Arrives
    <2>2. /\ tasks[t].pc = "handler" /\ steps' = steps
          /\ tasks'[t] = [tasks[t] EXCEPT !.record = tasks'[t].record]
          /\ tasks'[t].record = [tasks[t].record EXCEPT !.attempt = tasks[t].record.attempt + 1]
      BY <2>1, HandlerRetriesDoes
    <2>3. tasks'[t].record.status = tasks[t].record.status
          /\ tasks'[t].record.compensated = tasks[t].record.compensated
      BY <1>1, <2>2 DEF StepRecord
    <2>4. tasks'[t].at = tasks[t].at
      BY <1>1, <2>2
    <2>5. QED
      BY <1>1, <1>3, <2>2, <2>3, <2>4 DEF Owned, Writes
  <1>4. CASE tasks'[t].pc \in {"read", "given"}
    <2>1. DispatchVariables(t)
      BY <1>4, Arrives
    <2>2. tasks[t].pc = "read" /\ tasks'[t].pc = "given"
      BY <1>4, <2>1, Arrives, Zenon DEF DispatchVariables
    <2>3. QED
      BY <1>1, <2>2 DEF Owned, Writes
  \* What is left to undo is as it was found, or marked.
  <1>5. ASSUME tasks[t].pc \in {"compensating", "undoing"}, NEW i \in DOMAIN tasks[t].next
        PROVE  LET u == tasks[t].next[i]
               IN  steps'[u.at] \in {u.record, [u.record EXCEPT !.compensated = TRUE]}
    <2> DEFINE u == tasks[t].next[i]
               q == [u.record EXCEPT !.compensated = TRUE]
    <2>1. /\ u \in Undo /\ u.at \in DOMAIN steps /\ Same(steps[u.at], u.record)
          /\ Original(u.record) /\ u.record.status = "completed"
          /\ steps[u.at] \in {u.record, q}
      BY <1>1, <1>5 DEF Placed, Owned
    <2> HIDE DEF u
    <2>2. u.record \in StepRecord
      BY <2>1 DEF Undo
    <2>3. /\ steps[u.at].status = "completed" /\ Main(u.at)
          /\ [steps[u.at] EXCEPT !.compensated = TRUE] = q
      BY <2>1, <2>2, Marks, Zenon DEF Same, Original, Main
    <2> HIDE DEF q
    <2>4. steps'[u.at] = steps[u.at] \/ steps'[u.at] = q
      BY <1>5, <2>1, <2>3, Changes DEF Settles, Compensates, Obeys, Marked1
    <2>5. QED
      BY <2>1, <2>4 DEF u, q
  <1>6. CASE tasks'[t].pc = "undoing"
    <2>1. StartCompensation(t)
      BY <1>6, Arrives
    <2>2. /\ tasks[t].pc = "compensating" /\ tasks[t].next # <<>>
          /\ steps'[Len(steps) + 1] = Compensation(t)
          /\ \/ tasks'[t] = [tasks[t] EXCEPT !.pc = "undoing", !.record = Compensation(t),
                                               !.at = Len(steps) + 1]
             \/ tasks'[t] = [tasks[t] EXCEPT !.next = Tail(tasks[t].next)]
      BY <2>1, StartCompensationDoes, Zenon
    <2>3. tasks'[t] = [tasks[t] EXCEPT !.pc = "undoing", !.record = Compensation(t),
                                       !.at = Len(steps) + 1]
      BY <1>1, <1>6, <2>2
    <2>4. /\ tasks'[t].record = Compensation(t) /\ tasks'[t].at = Len(steps) + 1
          /\ tasks'[t].next = tasks[t].next
      BY <1>1, <2>3
    <2>5. Len(steps) + 1 \notin DOMAIN steps
      BY StepsInPlace DEF BaseInv
    <2>6. QED
      BY <1>5, <1>6, <2>2, <2>4, <2>5 DEF Owned, Writes
  <1>7. CASE tasks'[t].pc = "compensating"
    <2>1. \A i \in DOMAIN tasks'[t].next :
             LET u == tasks'[t].next[i]
             IN  steps'[u.at] \in {u.record, [u.record EXCEPT !.compensated = TRUE]}
      <3>1. CASE ScanCompleted(t)
        <4>1. steps' = steps
          BY <3>1, ScanCompletedDoes, Zenon
        <4>2. \A i \in DOMAIN tasks'[t].next :
                 LET u == tasks'[t].next[i]
                 IN  u.record = steps[u.at]
          BY <3>1, ScanCompletedDoes, ZenonT(30)
        <4>3. QED
          BY <4>1, <4>2
      <3>2. CASE StartCompensation(t) \/ EndCompensation(t)
        <4>1. tasks[t].pc \in {"compensating", "undoing"} /\ tasks[t].next # <<>>
          BY <3>2, StartCompensationDoes, EndCompensationDoes, Zenon
        <4>2. tasks'[t].next = Tail(tasks[t].next)
          <5>1. CASE StartCompensation(t)
            <6>1. \/ tasks'[t] = [tasks[t] EXCEPT !.pc = "undoing", !.record = Compensation(t),
                                                 !.at = Len(steps) + 1]
                  \/ tasks'[t] = [tasks[t] EXCEPT !.next = Tail(tasks[t].next)]
              BY <5>1, StartCompensationDoes, Zenon
            <6>2. QED
              BY <1>1, <1>7, <6>1
          <5>2. CASE EndCompensation(t)
            <6>1. tasks'[t] = [tasks[t] EXCEPT !.pc = "compensating", !.next = Tail(tasks[t].next)]
              BY <5>2, EndCompensationDoes, Zenon
            <6>2. QED
              BY <1>1, <6>1
          <5>3. QED
            BY <3>2, <5>1, <5>2
        <4>3. \A i \in DOMAIN tasks'[t].next :
                 i + 1 \in DOMAIN tasks[t].next /\ tasks'[t].next[i] = tasks[t].next[i + 1]
          BY <4>1, <4>2, NextToUndo
        <4>4. QED
          BY <1>5, <4>1, <4>3
      <3>3. QED
        BY <1>7, <3>1, <3>2, Arrives
    <2>2. QED
      BY <1>7, <2>1 DEF Owned, Writes
  <1>8. QED
    BY <1>2, <1>3, <1>4, <1>6, <1>7

LEMMA NewbornOwned ==
    ASSUME BaseInv, NEW u, NEW inst, Newborn(u, inst)
    PROVE  /\ Owned(u)'
           /\ Writes(u)' => /\ tasks'[u].at \in DOMAIN steps' \ DOMAIN steps
                            /\ tasks'[u].at = Len(steps) + (u - Len(tasks))
  <1>1. Done.pc = "done"
    BY DoneIsDone DEF BaseInv
  <1>2. QED
    BY <1>1 DEF Newborn, Owned, Writes

LEMMA OwnedDistinctByTask ==
    ASSUME Undisturbed, BaseInv, CalmInv, OwnInv, NEW t \in DOMAIN tasks, TaskStep(t)
    PROVE  \A u, v \in DOMAIN tasks' : Writes(u)' /\ Writes(v)' /\ u # v => tasks'[u].at # tasks'[v].at
  <1>1. /\ \A u \in DOMAIN tasks \ {t} : tasks'[u] = tasks[u]
        /\ \A u \in DOMAIN tasks' \ DOMAIN tasks : Newborn(u, tasks[t].instance)
        /\ DOMAIN tasks' # DOMAIN tasks => tasks'[t] = Done
    BY LeavesAlone DEF Alone
  <1>2. \A u \in DOMAIN tasks' \ DOMAIN tasks : Writes(u)' =>
            tasks'[u].at \notin DOMAIN steps /\ tasks'[u].at = Len(steps) + (u - Len(tasks))
    BY <1>1, NewbornOwned
  <1>3. \A u \in DOMAIN tasks \ {t} : Writes(u)' => Writes(u) /\ tasks'[u].at = tasks[u].at
                                                     /\ tasks[u].at \in DOMAIN steps
    BY <1>1 DEF Writes, BaseInv, PlaceInv, Placed
  <1>4. Writes(t)' => \/ tasks'[t].at = tasks[t].at /\ Writes(t)
                      \/ tasks'[t].at \notin DOMAIN steps
    BY OwnedByTask
  <1>5. Done.pc = "done"
    BY DoneIsDone DEF BaseInv
  <1>6. (\E u \in DOMAIN tasks' : u \notin DOMAIN tasks) => ~ Writes(t)'
    BY <1>1, <1>5 DEF Writes
  <1>7. \A u, v \in DOMAIN tasks : Writes(u) /\ Writes(v) /\ u # v => tasks[u].at # tasks[v].at
    BY DEF OwnInv
  <1>8. DOMAIN tasks' \subseteq Nat /\ Len(steps) \in Nat /\ Len(tasks) \in Nat
    <2>1. WorkflowTypeOK'
      BY KeptByTask
    <2>2. QED
      BY <2>1 DEF BaseInv, WorkflowTypeOK
  <1>9. \A u, v \in DOMAIN tasks' \ DOMAIN tasks :
            Writes(u)' /\ Writes(v)' /\ u # v => tasks'[u].at # tasks'[v].at
    BY <1>2, <1>8
  <1>10. \A u \in DOMAIN tasks' : u \in DOMAIN tasks' \ DOMAIN tasks \/ u \in DOMAIN tasks \ {t} \/ u = t
    OBVIOUS
  <1>11. \A u, v \in DOMAIN tasks \ {t} :
            Writes(u)' /\ Writes(v)' /\ u # v => tasks'[u].at # tasks'[v].at
    BY <1>3, <1>7
  <1>12. \A u \in DOMAIN tasks \ {t} : Writes(u)' /\ Writes(t)' => tasks'[u].at # tasks'[t].at
    BY <1>3, <1>4, <1>7
  <1>13. \A u \in DOMAIN tasks \ {t}, v \in DOMAIN tasks' \ DOMAIN tasks :
            Writes(u)' /\ Writes(v)' => tasks'[u].at # tasks'[v].at
    BY <1>2, <1>3
  <1>14. QED
    BY <1>6, <1>9, <1>10, <1>11, <1>12, <1>13

LEMMA OwnByTask ==
    ASSUME Undisturbed, BaseInv, CalmInv, OwnInv, NEW t \in DOMAIN tasks, TaskStep(t)
    PROVE  OwnInv'
  <1>1. ASSUME NEW u \in DOMAIN tasks'
        PROVE  Owned(u)'
    <2>1. CASE u = t
      BY <2>1, OwnedByTask
    <2>2. CASE u \in DOMAIN tasks \ {t}
      BY <2>2, OwnedInPlace
    <2>3. CASE u \notin DOMAIN tasks
      BY <2>3, LeavesAlone, NewbornOwned DEF Alone
    <2>4. QED
      BY <2>1, <2>2, <2>3
  <1>2. QED
    BY <1>1, OwnedDistinctByTask DEF OwnInv

LEMMA OwnByCall ==
    ASSUME Undisturbed, BaseInv, NEW r \in Requests, Call(r[1], r[2])
    PROVE  OwnInv'
  <1>1. r[1] \in Operations /\ r[2] \in Steps /\ SerialClient /\ Requests # {}
    BY FirstIsFirst DEF Undisturbed
  <1>2. PICK u \in Nat :
        /\ DOMAIN tasks' = DOMAIN tasks \cup {u}
        /\ \A t \in DOMAIN tasks : tasks'[t] = tasks[t] /\ tasks[t].pc = "done"
        /\ tasks'[u].pc = "read" /\ steps' = steps
        /\ tasks'[u].at \in {0} \cup DOMAIN steps
        /\ tasks'[u].at # 0 => tasks'[u].record = steps[tasks'[u].at]
    <2>1. PICK u \in Nat :
          /\ DOMAIN tasks' = DOMAIN tasks \cup {u}
          /\ \A t \in DOMAIN tasks : tasks'[t] = tasks[t]
          /\ SerialClient => \A t \in DOMAIN tasks : tasks[t].pc = "done"
          /\ Asked(r[1], r[2], tasks'[u].at, tasks'[u].record)
          /\ tasks'[u].pc = "read"
          /\ UNCHANGED <<instance, steps, waiters, holder, clock>>
      BY <1>1, NewCall, Zenon
    <2>2. QED
      BY <1>1, <2>1 DEF Asked
  <1>3. \A t \in DOMAIN tasks' : t # u => tasks'[t].pc = "done"
    BY <1>2
  <1>4. \A t \in DOMAIN tasks' : t # u => ~ Writes(t)' /\ Owned(t)'
    BY <1>3 DEF Writes, Owned
  <1>5. Owned(u)'
    BY <1>1, <1>2 DEF Writes, Owned
  <1>6. QED
    BY <1>4, <1>5 DEF OwnInv

LEMMA OwnByStart ==
    ASSUME BaseInv, StartWorkflow
    PROVE  OwnInv'
  <1> DEFINE ids == <<FirstStep>>
  <1>1. /\ steps = <<>> /\ tasks = <<>> /\ ids \in Seq(Steps) /\ Began(ids, instance')
        /\ instance' \in Instance
    BY StartWorkflowDoes
  <1>2. PICK inst \in Instance : inst = instance'
    BY <1>1
  <1> HIDE DEF ids
  <1>3. \A u \in DOMAIN tasks' : Newborn(u, inst)
    BY <1>1, <1>2, NewbornTasks
  <1>4. DOMAIN tasks' \subseteq Nat /\ Len(steps) = 0 /\ Len(tasks) = 0
    <2>1. WorkflowTypeOK'
      BY KeptByAll DEF Next
    <2>2. QED
      BY <1>1, <2>1 DEF WorkflowTypeOK
  <1>5. \A u \in DOMAIN tasks' : Owned(u)' /\ (Writes(u)' => tasks'[u].at = u)
    BY <1>3, <1>4, NewbornOwned
  <1>6. QED
    BY <1>5 DEF OwnInv

LEMMA OwnByAll ==
    ASSUME Undisturbed, BaseInv, CalmInv, OwnInv, [Next]_vars
    PROVE  OwnInv'
  <1>1. CASE UNCHANGED vars \/ Tick
    BY <1>1 DEF vars, Tick, OwnInv, Owned, Writes
  <1>2. QED
    BY <1>1, OwnByStart, OwnByCall, OwnByTask DEF Next

LEMMA OwnAlways ==
    ASSUME Undisturbed
    PROVE  Spec => [](BaseInv /\ ChosenInv /\ CalmInv /\ OwnInv)
  <1>1. SoloClient
    BY DEF Undisturbed, SoloClient
  <1>2. Init => OwnInv
    BY DEF Init, OwnInv
  <1>3. BaseInv /\ CalmInv /\ OwnInv /\ [Next]_vars => OwnInv'
    BY OwnByAll
  <1>4. QED
    BY <1>1, <1>2, <1>3, CalmAlways, PTL DEF Spec

LEMMA StatusOfChange ==
    ASSUME BaseInv, OwnInv, NEW t \in DOMAIN tasks, TaskStep(t), NEW n \in DOMAIN steps
    PROVE  /\ steps[n].status \in {"completed", "skipped", "cancelled"} =>
                 steps'[n].status = steps[n].status
           /\ steps[n].status = "failed" =>
                 \/ steps'[n] = steps[n]
                 \/ /\ steps'[n].status = "active" /\ CanRetry(steps[n].step, steps[n].attempt)
  <1>1. steps[n] \in StepRecord /\ Recorded(t)
    BY StepsInPlace DEF BaseInv, RecordInv
  <1>2. CASE Obeys(t, n)
    <2>1. /\ tasks[t].pc = "read" /\ steps[n] = tasks[t].record /\ tasks[t].op \in DOMAIN StepTarget
          /\ CanTransitionStep(steps[n].status, StepTarget[tasks[t].op])
          /\ steps'[n].status = StepTarget[tasks[t].op] /\ steps[n].status \in DOMAIN StepTransitions
      BY <1>1, <1>2 DEF Obeys, StepRecord
    <2>2. /\ steps[n].status \notin {"completed", "skipped", "cancelled"}
          /\ steps[n].status = "failed" => tasks[t].op = "retry"
      BY <2>1, StepMoves
    <2>3. QED
      BY <1>1, <2>1, <2>2, StepTargets DEF Recorded
  <1>3. CASE Marked1(t, n)
    <2>1. steps[n].status = "completed" /\ steps'[n] = [steps[n] EXCEPT !.compensated = TRUE]
      BY <1>3 DEF Marked1
    <2>2. QED
      BY <1>1, <2>1 DEF StepRecord
  <1>4. CASE Settles(t, n) \/ Compensates(t, n)
    BY <1>4 DEF Settles, Compensates
  <1>5. QED
    BY <1>2, <1>3, <1>4, Changes

\* Callers that await each call, in a workflow that runs no two handlers beside each
\* other (or no calls at all, whatever the graph): a completed, skipped or cancelled
\* step instance is never changed to anything else, and a failed one only to active.
THEOREM ResolvedStepsStay ==
    ASSUME Undisturbed
    PROVE  Spec => ResolvedStepsAreFinal
  <1> DEFINE Resolved == \A n \in DOMAIN steps :
               /\ steps[n].status \in {"completed", "skipped", "cancelled"} =>
                     steps'[n].status = steps[n].status
               /\ steps[n].status = "failed" =>
                     steps'[n].status \in {"failed", "active"}
  <1>1. BaseInv /\ OwnInv /\ [Next]_vars => Resolved
    <2> SUFFICES ASSUME BaseInv, OwnInv, [Next]_vars
                 PROVE  Resolved
      OBVIOUS
    <2>1. ASSUME NEW t \in DOMAIN tasks, TaskStep(t)
          PROVE  Resolved
      BY <2>1, StatusOfChange
    <2>2. CASE UNCHANGED vars \/ Tick
      BY <2>2 DEF vars, Tick
    <2>3. CASE StartWorkflow
      BY <2>3, StartWorkflowDoes
    <2>4. ASSUME NEW r \in Requests, Call(r[1], r[2])
          PROVE  Resolved
      BY <2>4 DEF Call
    <2>5. QED
      BY <2>1, <2>2, <2>3, <2>4 DEF Next
  <1>2. BaseInv /\ OwnInv /\ [Next]_vars => [Resolved]_vars
    BY <1>1
  <1>3. QED
    BY <1>2, OwnAlways, PTL DEF Spec, ResolvedStepsAreFinal

-----------------------------------------------------------------------------
(* What makes an instance fail.                                            *)

LEMMA StepsAdded ==
    ASSUME BaseInv, NEW t \in DOMAIN tasks, TaskStep(t), ~ StartCompensation(t),
           NEW n \in DOMAIN steps' \ DOMAIN steps
    PROVE  Original(steps'[n])
  <1>1. tasks[t].record.step \in Steps /\ tasks[t].instance \in Instance
    BY TaskParts DEF BaseInv
  <1>2. CASE Continue(t)
    <2> DEFINE ids == Tail(tasks[t].next)
    <2>1. Began(ids, tasks[t].instance) /\ ids \in Seq(Steps)
      BY <1>2, ContinueDoes
    <2> HIDE DEF ids
    <2>2. QED
      BY <1>1, <2>1, Newcomers, NewInstance DEF BaseInv
  <1>3. CASE DispatchStart(t)
    <2> DEFINE ids == <<tasks[t].record.step>>
    <2>1. Began(ids, tasks[t].instance) /\ ids \in Seq(Steps)
      BY <1>1, <1>3, DispatchStartDoes
    <2> HIDE DEF ids
    <2>2. QED
      BY <1>1, <2>1, Newcomers, NewInstance DEF BaseInv
  <1>4. CASE ChangeStep(t)
    <2>1. /\ tasks[t].pc = "read" /\ steps' # steps
          /\ Changed(t).compensationOf = tasks[t].record.compensationOf
          /\ steps' \in Seq(StepRecord)
          /\ Len(steps') = IF tasks[t].at = 0 THEN Len(steps) + 1 ELSE Len(steps)
          /\ steps'[Place(tasks[t].at)] = Changed(t)
      BY <1>4, ChangeStepDoes, Zenon
    <2>2. Original(tasks[t].record)
      BY <2>1 DEF BaseInv, PlaceInv, Placed
    <2>3. DOMAIN steps = 1..Len(steps) /\ Len(steps) \in Nat /\ DOMAIN steps' = 1..Len(steps')
      BY <2>1, StepsInPlace DEF BaseInv
    <2>4. n = Place(tasks[t].at)
      BY <2>1, <2>3 DEF Place
    <2>5. QED
      BY <2>1, <2>2, <2>4 DEF Original
  <1>5. CASE HandlerSucceeds(t) \/ HandlerFails(t) \/ EndCompensation(t)
    <2>1. steps' \in Seq(StepRecord) /\ Len(steps') = Len(steps)
      BY <1>5, HandlerSucceedsDoes, HandlerFailsDoes, EndCompensationDoes, Zenon
    <2>2. QED
      BY <2>1, StepsInPlace DEF BaseInv
  <1>6. CASE HandlerRetries(t) \/ CallAdvance(t) \/ EnterLock(t) \/ MergeOutput(t) \/ Decide(t)
              \/ ScanCompleted(t) \/ FailInstance(t) \/ ChangeInstance(t) \/ DispatchVariables(t)
    BY <1>6, Zenon DEF HandlerRetries, CallAdvance, EnterLock, MergeOutput, Decide, ScanCompleted,
                FailInstance, ChangeInstance, DispatchVariables
  <1>7. QED
    BY <1>2, <1>3, <1>4, <1>5, <1>6 DEF TaskStep

LEMMA InstanceFailsBy ==
    ASSUME BaseInv, NEW t \in DOMAIN tasks, TaskStep(t), instance'.status = "failed"
    PROVE  \/ instance.status = "failed"
           \/ tasks[t].instance.status = "failed"
           \/ FailInstance(t)
  <1>1. tasks[t].instance \in Instance /\ instance \in Instance
    BY TaskParts DEF BaseInv, WorkflowTypeOK
  <1>2. CASE instance' = instance \/ FailInstance(t)
    BY <1>2
  <1>3. CASE MergeOutput(t)
    <2>1. instance' = instance \/ instance' = Merged(t)
      BY <1>3, MergeOutputDoes, Zenon
    <2>2. Merged(t).status = tasks[t].instance.status
      BY <1>1 DEF Merged, Instance
    <2>3. QED
      BY <2>1, <2>2
  <1>4. CASE Continue(t) /\ instance' # instance
    <2>1. instance' = [tasks[t].instance EXCEPT !.status = "completed"]
      BY <1>4, ContinueDoes
    <2>2. QED
      BY <1>1, <2>1 DEF Instance
  <1>5. CASE ChangeInstance(t) /\ instance' # instance
    <2>1. /\ instance' = [tasks[t].instance EXCEPT !.status = InstanceTarget[tasks[t].op]]
          /\ InstanceTarget[tasks[t].op] \in {"suspended", "running", "cancelled"}
      BY <1>5, ChangeInstanceDoes
    <2>2. QED
      BY <1>1, <2>1 DEF Instance
  <1>6. CASE DispatchVariables(t)
    <2>1. instance' = [tasks[t].instance EXCEPT
                        !.variables = tasks[t].instance.variables \cup {tasks[t].record.step}]
      BY <1>6, DispatchVariablesDoes, Zenon
    <2>2. QED
      BY <1>1, <2>1 DEF Instance
  <1>7. CASE HandlerSucceeds(t) \/ HandlerRetries(t) \/ HandlerFails(t) \/ CallAdvance(t)
              \/ EnterLock(t) \/ Decide(t) \/ ScanCompleted(t) \/ StartCompensation(t)
              \/ EndCompensation(t) \/ DispatchStart(t) \/ ChangeStep(t)
    BY <1>7, <1>2, Zenon DEF HandlerSucceeds, HandlerRetries, HandlerFails, CallAdvance, EnterLock, Decide,
                ScanCompleted, StartCompensation, EndCompensation, DispatchStart, ChangeStep
  <1>8. QED
    BY <1>2, <1>3, <1>4, <1>5, <1>6, <1>7 DEF TaskStep

LEMMA FailingBy ==
    ASSUME BaseInv, NEW t \in DOMAIN tasks, TaskStep(t),
           tasks'[t].pc \in Failing, tasks[t].pc \notin Failing
    PROVE  GaveUp'
  <1>1. Placed(t) /\ Recorded(t) /\ tasks[t].record \in StepRecord
    BY TaskParts DEF BaseInv, PlaceInv, RecordInv
  <1>2. HandlerFails(t) \/ (ChangeStep(t) /\ tasks'[t].pc = "failed")
    BY Arrives, ScanCompletedDoes, StartCompensationDoes, EndCompensationDoes, Zenon DEF Failing
  <1>3. CASE HandlerFails(t)
    <2>1. /\ tasks[t].pc = "handler" /\ tasks[t].at \in DOMAIN steps
          /\ ~ CanRetry(tasks[t].record.step, tasks[t].record.attempt)
          /\ steps' \in Seq(StepRecord) /\ Len(steps') = Len(steps)
          /\ steps'[tasks[t].at] = [tasks[t].record EXCEPT !.status = "failed"]
      BY <1>3, HandlerFailsDoes
    <2>2. tasks[t].at \in DOMAIN steps' /\ Original(tasks[t].record)
      BY <1>1, <2>1 DEF Placed, BaseInv, WorkflowTypeOK
    <2>3. /\ steps'[tasks[t].at].status = "failed"
          /\ steps'[tasks[t].at].compensationOf = tasks[t].record.compensationOf
          /\ steps'[tasks[t].at].step = tasks[t].record.step
          /\ steps'[tasks[t].at].attempt = tasks[t].record.attempt
      BY <1>1, <2>1 DEF StepRecord
    <2>4. QED
      BY <2>1, <2>2, <2>3 DEF GaveUp, Main, Original, CanRetry
  <1>4. CASE ChangeStep(t) /\ tasks'[t].pc = "failed"
    <2> DEFINE n == Place(tasks[t].at)
    <2>1. tasks'[t] # Done
      BY <1>4, DoneIsDone DEF BaseInv
    <2>2. /\ tasks[t].pc = "read" /\ tasks[t].at \in {0} \cup DOMAIN steps
          /\ Changed(t).step = tasks[t].record.step
          /\ Changed(t).compensationOf = tasks[t].record.compensationOf
          /\ Changed(t).status = StepTarget[tasks[t].op]
          /\ Changed(t).attempt = IF tasks[t].op = "retry" THEN tasks[t].record.attempt + 1
                                                           ELSE tasks[t].record.attempt
          /\ steps' \in Seq(StepRecord)
          /\ Len(steps') = IF tasks[t].at = 0 THEN Len(steps) + 1 ELSE Len(steps)
          /\ steps'[n] = Changed(t)
          /\ ~ CallOver(t)
      BY <1>4, <2>1, ChangeStepDoes, Zenon
    <2>3. tasks'[t] = [tasks[t] EXCEPT
                             !.pc = IF tasks[t].op = "fail" THEN "failed" ELSE "completed",
                             !.record = Changed(t),
                             !.output = IF tasks[t].op = "complete"
                                          THEN WithOutput \cap {tasks[t].record.step} ELSE {}]
      BY <1>4, <2>1, ChangeStepDoes, Zenon
    <2>4. tasks[t].op = "fail"
      <3>1. DOMAIN tasks[t] = {"op", "pc", "at", "record", "instance", "output", "next"}
        BY TaskFields DEF BaseInv
      <3> DEFINE pc == IF tasks[t].op = "fail" THEN "failed" ELSE "completed"
                 out == IF tasks[t].op = "complete"
                          THEN WithOutput \cap {tasks[t].record.step} ELSE {}
      <3>2. tasks'[t] = [tasks[t] EXCEPT !.pc = pc, !.record = Changed(t), !.output = out]
        BY <2>3
      <3> HIDE DEF pc, out
      <3>3. tasks'[t].pc = pc
        BY <3>1, <3>2
      <3>4. QED
        BY <1>4, <3>3 DEF pc
    <2>5. ~ CanRetry(tasks[t].record.step, tasks[t].record.attempt)
      BY <2>2, <2>4 DEF CallOver
    <2>6. n \in DOMAIN steps'
      BY <2>2, StepsInPlace DEF BaseInv, Place
    <2>7. Original(tasks[t].record)
      BY <1>1, <2>2 DEF Placed
    <2> HIDE DEF n
    <2>8. QED
      BY <2>2, <2>4, <2>5, <2>6, <2>7, StepTargets DEF GaveUp, Main, Original, CanRetry
  <1>5. QED
    BY <1>2, <1>3, <1>4

LEMMA GaveUpByTask ==
    ASSUME BaseInv, OwnInv, GaveUpInv, NEW t \in DOMAIN tasks, TaskStep(t)
    PROVE  GaveUpInv'
  <1> SUFFICES ASSUME ~ GaveUp'
               PROVE  GaveUpInv'
    BY DEF GaveUpInv
  <1>1. Kept /\ Alone(t)
    BY KeptByTask, LeavesAlone
  <1>2. ~ GaveUp
    <2>1. ASSUME NEW n \in DOMAIN steps, Main(n), steps[n].status = "failed",
                 ~ CanRetry(steps[n].step, steps[n].attempt)
          PROVE  GaveUp'
      <3>1. steps'[n] = steps[n] /\ n \in DOMAIN steps'
        BY <1>1, <2>1, StatusOfChange DEF Kept
      <3>2. QED
        BY <2>1, <3>1 DEF GaveUp, Main, CanRetry
    <2>2. QED
      BY <2>1 DEF GaveUp
  <1>3. /\ \A u \in DOMAIN tasks : tasks[u].pc \notin Failing
        /\ instance.status # "failed"
        /\ \A u \in DOMAIN tasks : tasks[u].pc # "done" => tasks[u].instance.status # "failed"
        /\ \A n \in DOMAIN steps : Main(n)
    BY <1>2 DEF GaveUpInv, Active
  <1>4. ~ FailInstance(t) /\ ~ StartCompensation(t)
    BY <1>3, FailInstanceDoes, StartCompensationDoes, Zenon DEF Failing
  <1>5. instance'.status # "failed"
    BY <1>1, <1>3, <1>4, InstanceFailsBy DEF Alone
  <1>6. Done.pc = "done" /\ "done" \notin Failing /\ "handler" \notin Failing
    BY DoneIsDone DEF BaseInv, Failing
  <1>7. ASSUME NEW u \in DOMAIN tasks'
        PROVE  /\ tasks'[u].pc \notin Failing
               /\ tasks'[u].pc # "done" => tasks'[u].instance.status # "failed"
    <2>1. CASE u = t
      BY <1>1, <1>3, <1>5, <1>6, <2>1, FailingBy DEF Alone
    <2>2. CASE u \in DOMAIN tasks \ {t}
      BY <1>1, <1>3, <2>2 DEF Alone
    <2>3. CASE u \notin DOMAIN tasks
      BY <1>1, <1>3, <1>6, <2>3 DEF Alone, Newborn
    <2>4. QED
      BY <2>1, <2>2, <2>3
  <1>8. \A n \in DOMAIN steps' : Main(n)'
    <2>1. TAKE n \in DOMAIN steps'
    <2>2. CASE n \in DOMAIN steps
      BY <1>1, <1>3, <2>2 DEF Kept, Same, Main
    <2>3. CASE n \notin DOMAIN steps
      BY <1>4, <2>3, StepsAdded DEF Original, Main
    <2>4. QED
      BY <2>2, <2>3
  <1>9. QED
    BY <1>5, <1>7, <1>8 DEF GaveUpInv, Active

LEMMA GaveUpByStart ==
    ASSUME BaseInv, StartWorkflow
    PROVE  GaveUpInv'
  <1> DEFINE ids == <<FirstStep>>
  <1>1. /\ steps = <<>> /\ tasks = <<>> /\ ids \in Seq(Steps) /\ Began(ids, instance')
        /\ instance' \in Instance /\ instance' = [instance EXCEPT !.status = "running"]
    BY StartWorkflowDoes
  <1>2. PICK inst \in Instance : inst = instance'
    BY <1>1
  <1>3. inst.status = "running"
    BY <1>1, <1>2 DEF BaseInv, WorkflowTypeOK, Instance
  <1> HIDE DEF ids
  <1>4. \A u \in DOMAIN tasks' : Newborn(u, inst)
    BY <1>1, <1>2, NewbornTasks
  <1>5. Done.pc = "done" /\ "done" \notin Failing /\ "handler" \notin Failing
    BY DoneIsDone DEF BaseInv, Failing
  <1>6. \A n \in DOMAIN steps' : Main(n)'
    <2>1. \A n \in DOMAIN steps' \ DOMAIN steps : Original(steps'[n])
      BY <1>1, <1>2, Newcomers, NewInstance DEF BaseInv
    <2>2. QED
      BY <1>1, <2>1 DEF Main, Original
  <1>7. QED
    BY <1>2, <1>3, <1>4, <1>5, <1>6 DEF GaveUpInv, Newborn, Active

LEMMA GaveUpByAll ==
    ASSUME BaseInv, OwnInv, GaveUpInv, [Next]_vars
    PROVE  GaveUpInv'
  <1>1. CASE UNCHANGED vars \/ Tick
    BY <1>1 DEF vars, Tick, GaveUpInv, GaveUp, Active, Main, CanRetry
  <1>2. ASSUME NEW r \in Requests, Call(r[1], r[2])
        PROVE  GaveUpInv'
    <2>1. r[1] \in Operations /\ r[2] \in Steps
      BY FirstIsFirst
    <2>2. PICK u \in Nat :
          /\ DOMAIN tasks' = DOMAIN tasks \cup {u}
          /\ \A t \in DOMAIN tasks : tasks'[t] = tasks[t]
          /\ tasks'[u].pc = "read" /\ tasks'[u].instance = instance
          /\ UNCHANGED <<instance, steps>>
      BY <1>2, <2>1, NewCall
    <2>3. "read" \notin Failing
      BY DEF Failing
    <2>4. QED
      BY <2>2, <2>3 DEF GaveUpInv, GaveUp, Active, Main, CanRetry
  <1>3. QED
    BY <1>1, <1>2, GaveUpByStart, GaveUpByTask DEF Next

\* Callers that await each call, in a workflow that runs no two handlers beside each
\* other (or no calls at all, whatever the graph): an instance is failed only when a
\* step is failed with its last attempt used, and no attempt exceeds the policy.
THEOREM FailureTakesEveryAttempt ==
    ASSUME Undisturbed
    PROVE  Spec => []FailedOnLastAttempt
  <1>1. Init => GaveUpInv
    BY DEF Init, GaveUpInv, Active
  <1>2. BaseInv /\ OwnInv /\ GaveUpInv /\ [Next]_vars => GaveUpInv'
    BY GaveUpByAll
  <1>3. BaseInv /\ GaveUpInv => FailedOnLastAttempt
    BY DEF BaseInv, RecordInv, Allowed, WithinPolicy, GaveUpInv, GaveUp, FailedOnLastAttempt
  <1>4. QED
    BY <1>1, <1>2, <1>3, OwnAlways, PTL DEF Spec

-----------------------------------------------------------------------------
(* Joins.                                                                  *)

LEMMA BranchesStayCompleted ==
    ASSUME BaseInv, OwnInv, NEW t \in DOMAIN tasks, TaskStep(t), NEW f \in Forks, Quorum(f)
    PROVE  Quorum(f)'
  <1>1. CompletedBranches(f) \subseteq CompletedBranches(f)'
    <2>1. ASSUME NEW n \in DOMAIN steps, steps[n].status = "completed"
          PROVE  n \in DOMAIN steps' /\ steps'[n].status = "completed" /\ steps'[n].step = steps[n].step
      BY <2>1, StatusOfChange, KeptByTask DEF Kept, Same
    <2>2. QED
      BY <2>1 DEF CompletedBranches
  <1>2. IsFiniteSet(CompletedBranches(f)')
    <2>1. IsFiniteSet(ToSet(f.branches))
      BY FirstIsFirst, BranchesAreFinite
    <2>2. CompletedBranches(f)' \subseteq ToSet(f.branches)
      BY DEF CompletedBranches
    <2>3. QED
      BY <2>1, <2>2, FS_Subset
  <1>3. /\ Cardinality(CompletedBranches(f)) <= Cardinality(CompletedBranches(f)')
        /\ Cardinality(CompletedBranches(f)) \in Nat /\ Cardinality(CompletedBranches(f)') \in Nat
    BY <1>1, <1>2, FS_Subset, FS_CardinalityType
  <1>4. f.required \in Nat
    BY FirstIsFirst
  <1>5. QED
    BY <1>3, <1>4 DEF Quorum

LEMMA OneIsItself ==
    ASSUME NEW s \in Steps
    PROVE  ToSet(<<s>>) = {s}
  <1> DEFINE q == <<s>>
  <1>1. q \in Seq(Steps) /\ Len(q) = 1 /\ q[1] = s
    OBVIOUS
  <1> HIDE DEF q
  <1>2. \A x : x \in ToSet(q) <=> \E i \in 1..1 : q[i] = x
    BY <1>1, BranchesAreFinite
  <1>3. ToSet(q) = {s}
    BY <1>1, <1>2
  <1>4. QED
    BY <1>3 DEF q

LEMMA DecidesJoinAtQuorum ==
    ASSUME OnlyJoined, NEW s \in Steps, NEW d \in Decisions(s), NEW f \in Forks,
           d[1] = "start", f.to \in ToSet(Tail(d))
    PROVE  Quorum(f)
  <1>1. /\ f \in Transitions /\ f.to \in Steps
        /\ \A x \in Transitions \ {f} : x.to # f.to
        /\ \A g \in Forks : f.to \notin ToSet(g.branches)
        /\ \A x \in Transitions : x.to \in Steps
    BY FirstIsFirst, WorkflowAssumption DEF OnlyJoined
  <1>2. CASE \E g \in Forks : Quorum(g) /\ Tail(d) = <<g.to>>
    <2>1. PICK g \in Forks : Quorum(g) /\ Tail(d) = <<g.to>>
      BY <1>2
    <2>2. g \in Transitions /\ g.to \in Steps
      BY FirstIsFirst
    <2>3. f.to = g.to
      BY <2>1, <2>2, OneIsItself
    <2>4. g = f
      BY <1>1, <2>2, <2>3
    <2>5. QED
      BY <2>1, <2>4
  <1>3. CASE \E x \in Transitions : x \notin Forks /\ Tail(d) = <<x.to>>
    BY <1>1, <1>3, OneIsItself
  <1>4. CASE \E g \in Forks : Tail(d) = g.branches
    BY <1>1, <1>4
  <1>5. QED
    BY <1>2, <1>3, <1>4, DecisionParts

\* Without calls, step instances are added by Continue, but for compensations.
LEMMA StartsSteps ==
    ASSUME Requests = {}, BaseInv, OwnInv, NEW t \in DOMAIN tasks, TaskStep(t),
           ~ StartCompensation(t), NEW n \in DOMAIN steps' \ DOMAIN steps
    PROVE  /\ Continue(t) /\ tasks[t].pc = "decided" /\ tasks[t].next[1] = "start"
           /\ \E y \in ToSet(Tail(tasks[t].next)) : y \in Steps /\ steps'[n] = StepInstance(y)
           /\ \A m \in DOMAIN steps' \ DOMAIN steps : Len(Tail(tasks[t].next)) = 1 => m = n
  <1>1. Owned(t) /\ tasks[t].instance \in Instance
    BY TaskParts DEF OwnInv, BaseInv
  <1>2. tasks[t].pc \notin {"read", "given"}
    BY <1>1 DEF Owned
  <1>3. CASE Continue(t)
    <2> DEFINE ids == Tail(tasks[t].next)
    <2>1. /\ tasks[t].pc = "decided" /\ ids \in Seq(Steps) /\ tasks[t].next[1] = "start"
          /\ Began(ids, tasks[t].instance)
      BY <1>3, ContinueDoes
    <2> HIDE DEF ids
    <2>2. \A m \in DOMAIN steps' \ DOMAIN steps :
            m - Len(steps) \in 1..Len(ids) /\ steps'[m] = StepInstance(ids[m - Len(steps)])
            /\ ids[m - Len(steps)] \in Steps
      BY <1>1, <2>1, Newcomers
    <2>3. ids[n - Len(steps)] \in ToSet(ids)
      BY <2>1, <2>2, BranchesAreFinite
    <2>4. DOMAIN steps' \subseteq Nat /\ Len(steps) \in Nat
      BY <2>1, StepsInPlace DEF Began, BaseInv
    <2>5. \A m \in DOMAIN steps' \ DOMAIN steps : Len(ids) = 1 => m = n
      BY <2>2, <2>4
    <2>6. QED
      BY <1>3, <2>1, <2>2, <2>3, <2>5 DEF ids
  <1>4. CASE HandlerSucceeds(t) \/ HandlerFails(t) \/ EndCompensation(t)
    <2>1. steps' \in Seq(StepRecord) /\ Len(steps') = Len(steps)
      BY <1>4, HandlerSucceedsDoes, HandlerFailsDoes, EndCompensationDoes, Zenon
    <2>2. QED
      BY <2>1, StepsInPlace DEF BaseInv
  <1>5. CASE HandlerRetries(t) \/ CallAdvance(t) \/ EnterLock(t) \/ MergeOutput(t) \/ Decide(t)
              \/ ScanCompleted(t) \/ FailInstance(t) \/ ChangeInstance(t) \/ DispatchVariables(t)
    BY <1>5, Zenon DEF HandlerRetries, CallAdvance, EnterLock, MergeOutput, Decide, ScanCompleted,
                FailInstance, ChangeInstance, DispatchVariables
  <1>6. CASE DispatchStart(t) \/ ChangeStep(t)
    BY <1>2, <1>6 DEF DispatchStart, ChangeStep
  <1>7. QED
    BY <1>3, <1>4, <1>5, <1>6 DEF TaskStep

LEMMA JoinStarts ==
    ASSUME Requests = {}, BaseInv, OwnInv, JoinInv, NEW t \in DOMAIN tasks, TaskStep(t),
           NEW f \in Forks, NEW n \in DOMAIN steps' \ DOMAIN steps,
           steps'[n].step = f.to, Original(steps'[n])
    PROVE  Quorum(f)
  <1>1. CASE StartCompensation(t)
    <2>1. /\ steps' \in Seq(StepRecord) /\ Len(steps') = Len(steps) + 1
          /\ steps'[Len(steps) + 1] = Compensation(t)
          /\ tasks[t].pc = "compensating" /\ tasks[t].next # <<>>
      BY <1>1, StartCompensationDoes, Zenon
    <2>2. n = Len(steps) + 1
      BY <2>1, StepsInPlace DEF BaseInv
    <2>3. ~ Original(Compensation(t))
      BY <2>1, NextToUndo
    <2>4. QED
      BY <2>1, <2>2, <2>3
  <1>2. CASE ~ StartCompensation(t)
    <2>1. PICK y \in ToSet(Tail(tasks[t].next)) : y \in Steps /\ steps'[n] = StepInstance(y)
      BY <1>2, StartsSteps
    <2>2. y = f.to
      BY <2>1, NewInstance DEF BaseInv
    <2>3. QED
      BY <1>2, <2>1, <2>2, StartsSteps DEF JoinInv
  <1>3. QED
    BY <1>1, <1>2

LEMMA JoinByTask ==
    ASSUME Requests = {}, OnlyJoined, BaseInv, OwnInv, JoinInv, NEW t \in DOMAIN tasks, TaskStep(t)
    PROVE  JoinInv'
  <1> SUFFICES ASSUME NEW f \in Forks
               PROVE  /\ FirstMain(f.to)' # {} => Quorum(f)'
                      /\ \A u \in DOMAIN tasks' :
                            (/\ tasks'[u].pc = "decided" /\ tasks'[u].next[1] = "start"
                             /\ f.to \in ToSet(Tail(tasks'[u].next))) => Quorum(f)'
    BY DEF JoinInv
  <1>2. Kept /\ Alone(t)
    BY KeptByTask, LeavesAlone
  <1>3. Quorum(f) => Quorum(f)'
    BY BranchesStayCompleted
  <1>4. ASSUME NEW n \in DOMAIN steps', steps'[n].step = f.to, Main(n)'
        PROVE  Quorum(f)'
    <2>1. CASE n \in DOMAIN steps
      <3>1. n \in FirstMain(f.to)
        BY <1>2, <1>4, <2>1 DEF Kept, Same, FirstMain, Main
      <3>2. QED
        BY <1>3, <3>1 DEF JoinInv
    <2>2. CASE n \notin DOMAIN steps
      BY <1>3, <1>4, <2>2, JoinStarts DEF Main, Original
    <2>3. QED
      BY <2>1, <2>2
  <1>5. ASSUME NEW u \in DOMAIN tasks', tasks'[u].pc = "decided", tasks'[u].next[1] = "start",
               f.to \in ToSet(Tail(tasks'[u].next))
        PROVE  Quorum(f)'
    <2>1. Done.pc = "done"
      BY DoneIsDone DEF BaseInv
    <2>2. CASE u = t
      <3>1. Decide(t)
        BY <1>5, <2>2, Arrives
      <3>2. tasks'[t].next \in Decisions(tasks[t].record.step) /\ tasks[t].record.step \in Steps
        BY <3>1, DecideDoes, TaskParts, Zenon DEF BaseInv
      <3>3. PICK d \in Decisions(tasks[t].record.step) : d = tasks'[t].next
        BY <3>2
      <3>4. d[1] = "start" /\ f.to \in ToSet(Tail(d))
        BY <1>5, <2>2, <3>3
      <3>5. Quorum(f)
        BY <3>2, <3>4, DecidesJoinAtQuorum
      <3>6. QED
        BY <1>3, <3>5
    <2>3. CASE u \in DOMAIN tasks \ {t}
      BY <1>2, <1>3, <1>5, <2>3 DEF Alone, JoinInv
    <2>4. CASE u \notin DOMAIN tasks
      BY <1>2, <1>5, <2>1, <2>4 DEF Alone, Newborn
    <2>5. QED
      BY <2>2, <2>3, <2>4
  <1>6. QED
    BY <1>4, <1>5 DEF FirstMain

LEMMA JoinByStart ==
    ASSUME OnlyJoined, BaseInv, StartWorkflow
    PROVE  JoinInv'
  <1> DEFINE ids == <<FirstStep>>
  <1>1. /\ steps = <<>> /\ tasks = <<>> /\ ids \in Seq(Steps) /\ Began(ids, instance')
        /\ instance' \in Instance
    BY StartWorkflowDoes
  <1>2. PICK inst \in Instance : inst = instance'
    BY <1>1
  <1>3. Len(ids) = 1 /\ ids[1] = FirstStep
    OBVIOUS
  <1> HIDE DEF ids
  <1>4. \A u \in DOMAIN tasks' : tasks'[u].pc # "decided"
    <2>1. Done.pc = "done"
      BY DoneIsDone DEF BaseInv
    <2>2. QED
      BY <1>1, <1>2, <2>1, NewbornTasks DEF Newborn
  <1>5. \A n \in DOMAIN steps' : steps'[n].step = FirstStep
    <2>1. \A n \in DOMAIN steps' \ DOMAIN steps :
             n - Len(steps) \in 1..1 /\ steps'[n] = StepInstance(ids[n - Len(steps)])
      BY <1>1, <1>2, <1>3, Newcomers
    <2>2. \A n \in DOMAIN steps' \ DOMAIN steps : steps'[n] = StepInstance(FirstStep)
      BY <1>3, <2>1
    <2>3. QED
      BY <1>1, <2>2, NewInstance, FirstIsFirst DEF BaseInv
  <1>6. \A f \in Forks : FirstMain(f.to)' = {}
    BY <1>5 DEF FirstMain, OnlyJoined
  <1>7. QED
    BY <1>4, <1>6 DEF JoinInv

LEMMA JoinByAll ==
    ASSUME Requests = {}, OnlyJoined, BaseInv, OwnInv, JoinInv, [Next]_vars
    PROVE  JoinInv'
  <1>1. CASE UNCHANGED vars \/ Tick
    BY <1>1 DEF vars, Tick, JoinInv, FirstMain, Main, Quorum, CompletedBranches
  <1>2. QED
    BY <1>1, JoinByStart, JoinByTask DEF Next

\* Without calls, in a workflow whose joins are reached from their forks only: the step
\* after a join is started only once as many branches as it requires have completed.
THEOREM JoinsWaitForBranches ==
    ASSUME Requests = {}, OnlyJoined
    PROVE  Spec => []JoinQuorum
  <1>1. Undisturbed
    BY DEF Undisturbed
  <1>2. Init => JoinInv
    BY DEF Init, JoinInv, FirstMain
  <1>3. BaseInv /\ OwnInv /\ JoinInv /\ [Next]_vars => JoinInv'
    BY JoinByAll
  <1>4. JoinInv => JoinQuorum
    BY DEF JoinInv, JoinQuorum, Quorum
  <1>5. QED
    BY <1>1, <1>2, <1>3, <1>4, OwnAlways, PTL DEF Spec

-----------------------------------------------------------------------------
(* The last record.                                                        *)

LEMMA RecordStays ==
    ASSUME BaseInv, NEW t \in DOMAIN tasks, TaskStep(t), tasks'[t].pc \notin {"done"} \cup Failing
    PROVE  /\ tasks'[t].record.step = tasks[t].record.step /\ tasks'[t].at = tasks[t].at
           /\ tasks[t].pc \notin Failing
  <1>1. DOMAIN tasks[t] = {"op", "pc", "at", "record", "instance", "output", "next"}
        /\ tasks[t].record \in StepRecord
    BY TaskFields, TaskParts DEF BaseInv
  <1>2. CASE HandlerSucceeds(t)
    <2>1. tasks'[t] = [tasks[t] EXCEPT !.pc = "completed", !.record = tasks'[t].record,
                                       !.output = WithOutput \cap {tasks[t].record.step}]
          /\ tasks'[t].record = [tasks[t].record EXCEPT !.status = "completed", !.completedAt = clock]
          /\ tasks[t].pc = "handler"
      BY <1>2, HandlerSucceedsDoes, Zenon
    <2>2. QED
      BY <1>1, <2>1 DEF StepRecord, Failing
  <1>3. CASE HandlerRetries(t)
    <2>1. tasks'[t].record = [tasks[t].record EXCEPT !.attempt = tasks[t].record.attempt + 1]
          /\ tasks'[t] = [tasks[t] EXCEPT !.record = tasks'[t].record]
          /\ tasks[t].pc = "handler"
      BY <1>3, HandlerRetriesDoes
    <2>2. QED
      BY <1>1, <2>1 DEF StepRecord, Failing
  <1>4. CASE CallAdvance(t) \/ EnterLock(t)
    <2>1. /\ \/ tasks'[t] = [tasks[t] EXCEPT !.pc = "entered", !.instance = instance]
             \/ tasks'[t] = [tasks[t] EXCEPT !.pc = "chained"]
          /\ tasks[t].pc \in {"completed", "chained"}
      BY <1>4, CallAdvanceDoes, EnterLockDoes, Zenon
    <2>2. QED
      BY <1>1, <2>1 DEF Failing
  <1>5. CASE MergeOutput(t)
    <2>1. tasks'[t] = [tasks[t] EXCEPT !.pc = "merged", !.instance = Merged(t)]
          /\ tasks[t].pc = "entered"
      BY <1>5, MergeOutputDoes, Zenon
    <2>2. QED
      BY <1>1, <2>1 DEF Failing
  <1>6. CASE Decide(t)
    <2>1. tasks'[t] = [tasks[t] EXCEPT !.pc = "decided", !.next = tasks'[t].next]
          /\ tasks[t].pc = "merged"
      BY <1>6, DecideDoes, Zenon
    <2>2. QED
      BY <1>1, <2>1 DEF Failing
  <1>7. CASE DispatchVariables(t)
    <2>1. tasks'[t] = [tasks[t] EXCEPT !.pc = "given", !.instance = instance']
          /\ tasks[t].pc = "read"
      BY <1>7, DispatchVariablesDoes, Zenon
    <2>2. QED
      BY <1>1, <2>1 DEF Failing
  <1>8. CASE ChangeStep(t)
    <2> DEFINE pc == IF tasks[t].op = "fail" THEN "failed" ELSE "completed"
               out == IF tasks[t].op = "complete" THEN WithOutput \cap {tasks[t].record.step} ELSE {}
    <2>1. /\ tasks[t].pc = "read"
          /\ \/ tasks'[t] = Done
             \/ /\ tasks'[t] = [tasks[t] EXCEPT !.pc = pc, !.record = Changed(t), !.output = out]
                /\ Changed(t).step = tasks[t].record.step
      BY <1>8, ChangeStepDoes, Zenon
    <2> HIDE DEF pc, out
    <2>2. QED
      BY <1>1, <2>1, DoneIsDone DEF Failing, BaseInv
  <1>9. CASE \/ HandlerFails(t) \/ ScanCompleted(t) \/ StartCompensation(t) \/ EndCompensation(t)
             \/ FailInstance(t) \/ ChangeInstance(t) \/ Continue(t) \/ DispatchStart(t)
    BY <1>9, Lands DEF Failing
  <1>10. QED
    BY <1>2, <1>3, <1>4, <1>5, <1>6, <1>7, <1>8, <1>9 DEF TaskStep

LEMMA NewcomersOfContinue ==
    ASSUME Requests = {}, BaseInv, OwnInv, NEW t \in DOMAIN tasks, TaskStep(t),
           NEW u \in DOMAIN tasks' \ DOMAIN tasks
    PROVE  Continue(t) /\ tasks'[t].pc = "done"
  <1>1. tasks[t].pc \notin {"read", "given"}
    BY DEF OwnInv, Owned
  <1>2. ~ DispatchStart(t)
    BY <1>1 DEF DispatchStart
  <1>3. ASSUME ~ Continue(t)
        PROVE  FALSE
    <2>1. Turns(t)
      BY <1>2, <1>3, HandlerSucceedsDoes, HandlerRetriesDoes, HandlerFailsDoes, CallAdvanceDoes,
         EnterLockDoes, MergeOutputDoes, DecideDoes, ScanCompletedDoes, StartCompensationDoes,
         EndCompensationDoes, FailInstanceDoes, ChangeInstanceDoes, DispatchVariablesDoes,
         ChangeStepDoes, Zenon DEF TaskStep
    <2>2. QED
      BY <2>1 DEF Turns
  <1>4. QED
    BY <1>3, Lands

\* In sequence, one step instance is begun at a time.
LEMMA SequenceStarts ==
    ASSUME BaseInv, ChosenInv, NEW t \in DOMAIN tasks, Continue(t), tasks[t].next[1] = "start",
           InSequence'
    PROVE  /\ Len(steps') = Len(steps) + 1
           /\ \A u \in DOMAIN tasks' \ DOMAIN tasks :
                 tasks'[u].pc # "done" => tasks'[u].at = Len(steps) + 1 /\ tasks'[u].pc = "handler"
  <1> DEFINE ids == Tail(tasks[t].next)
  <1>1. tasks[t].pc = "decided" /\ ids \in Seq(Steps) /\ Began(ids, tasks[t].instance)
        /\ tasks[t].instance \in Instance /\ Done.pc = "done"
    BY ContinueDoes, TaskParts, DoneIsDone DEF BaseInv
  <1>2. (\E y \in Steps : ids = <<y>>) \/ \E f \in Forks : ids = f.branches
    BY <1>1 DEF ChosenInv, Chosen
  <1> HIDE DEF ids
  <1>3. ASSUME NEW f \in Forks, ids = f.branches
        PROVE  FALSE
    <2>1. 1 \in 1..Len(ids) /\ Len(steps) \in Nat /\ Len(ids) \in Nat
      <3>1. f.branches \in Seq(Steps) /\ f.required \in 1..Len(f.branches)
        BY <1>3, FirstIsFirst
      <3>2. Len(f.branches) \in Nat /\ 1 \in 1..Len(f.branches)
        BY <3>1
      <3>3. Len(steps) \in Nat
        BY DEF BaseInv, WorkflowTypeOK
      <3>4. QED
        BY <1>3, <3>2, <3>3
    <2>2. ids[1] \in Steps /\ steps'[Len(steps) + 1] = StepInstance(ids[1])
          /\ Len(steps) + 1 \in DOMAIN steps'
      BY <1>1, <2>1 DEF Began
    <2>3. StepInstance(ids[1]).step = ids[1] /\ Original(StepInstance(ids[1]))
      BY <2>2, NewInstance DEF BaseInv
    <2>4. ids[1] \in ToSet(f.branches)
      BY <1>1, <1>3, <2>1, BranchesAreFinite
    <2>5. QED
      BY <2>2, <2>3, <2>4 DEF InSequence, FirstMain, Main, Original
  <1>4. Len(ids) = 1
    <2>1. \A y : Len(<<y>>) = 1
      OBVIOUS
    <2>2. QED
      BY <1>2, <1>3, <2>1
  <1>5. Len(steps') = Len(steps) + 1
    BY <1>1, <1>4 DEF Began
  <1>6. \A u \in DOMAIN tasks' \ DOMAIN tasks : tasks'[u].pc # "done" =>
           /\ u - Len(tasks) \in 1..Len(ids) /\ tasks'[u].at = Len(steps) + (u - Len(tasks))
           /\ tasks'[u].pc = "handler"
    BY <1>1, Newcomers
  <1>7. QED
    BY <1>4, <1>5, <1>6

LEMMA LastByTask ==
    ASSUME Requests = {}, BaseInv, ChosenInv, CalmInv, OwnInv, LastInv,
           NEW t \in DOMAIN tasks, TaskStep(t)
    PROVE  LastInv'
  <1> SUFFICES ASSUME InSequence', NEW u \in DOMAIN tasks', tasks'[u].pc # "done"
               PROVE  AtLast(u)'
    BY DEF LastInv, Active
  <1>1. InSequence /\ Kept /\ Alone(t) /\ Done.pc = "done"
    BY KeptByTask, LeavesAlone, StaysInSequence, DoneIsDone DEF BaseInv
  <1>2. /\ tasks[t].pc \notin {"done", "read", "given"} /\ AtLast(t)
        /\ \A v \in DOMAIN tasks \ {t} : tasks'[v].pc = "done"
    BY <1>1 DEF Alone, OwnInv, Owned, LastInv, Active, CalmInv, Calm, OneAtATime
  <1>3. CASE u \notin DOMAIN tasks
    <2>1. Continue(t)
      BY <1>3, NewcomersOfContinue
    <2>2. tasks[t].next[1] = "start"
      BY <1>3, <2>1, ContinueDoes DEF Turns
    <2>3. tasks'[u].at = Len(steps') /\ tasks'[u].pc = "handler"
      BY <1>3, <2>1, <2>2, SequenceStarts
    <2>4. QED
      BY <2>3 DEF AtLast, Advancing
  <1>4. CASE u = t /\ tasks'[t].pc \in {"handler"} \cup Advancing
    <2>1. /\ tasks'[t].record.step = tasks[t].record.step /\ tasks'[t].at = tasks[t].at
          /\ tasks[t].pc \in {"handler"} \cup Advancing
      <3>1. tasks'[t].pc \notin {"done"} \cup Failing
        BY <1>4 DEF Advancing, Failing
      <3>2. tasks[t].pc \in {"handler", "read", "given", "done"} \cup Advancing \cup Failing
        BY TaskParts DEF BaseInv, TaskRecord
      <3>3. QED
        BY <1>2, <3>1, <3>2, RecordStays
    <2>2. CASE HandlerSucceeds(t)
      <3>1. /\ tasks[t].pc = "handler" /\ tasks[t].at \in DOMAIN steps
            /\ tasks'[t].record = [tasks[t].record EXCEPT !.status = "completed", !.completedAt = clock]
            /\ steps' \in Seq(StepRecord) /\ Len(steps') = Len(steps)
            /\ steps'[tasks[t].at] = tasks'[t].record
        BY <2>2, HandlerSucceedsDoes, Zenon
      <3>2. tasks[t].record \in StepRecord /\ Original(tasks[t].record)
        BY <3>1, TaskParts DEF BaseInv, PlaceInv, Placed
      <3>3. steps'[tasks[t].at].status = "completed" /\ Original(steps'[tasks[t].at])
            /\ steps'[tasks[t].at].step = tasks[t].record.step
        BY <3>1, <3>2 DEF StepRecord, Original
      <3>4. tasks[t].at = Len(steps') /\ tasks[t].at \in DOMAIN steps'
        BY <1>1, <1>2, <3>1 DEF AtLast, Kept
      <3>5. QED
        BY <1>4, <2>1, <3>3, <3>4 DEF AtLast, Main, Original
    <2>3. CASE ~ HandlerSucceeds(t)
      <3>1. /\ UNCHANGED steps
            /\ tasks'[t].pc \in Advancing => tasks[t].pc \in Advancing
        <4>1. CASE HandlerRetries(t)
          BY <4>1, HandlerRetriesDoes, Lands DEF Advancing
        <4>2. CASE CallAdvance(t) \/ EnterLock(t) \/ MergeOutput(t) \/ Decide(t)
          BY <4>2, CallAdvanceDoes, EnterLockDoes, MergeOutputDoes, DecideDoes, Zenon DEF Advancing
        <4>3. CASE ChangeStep(t)
          BY <1>2, <4>3 DEF ChangeStep
        <4>4. QED
          BY <1>4, <2>3, <4>1, <4>2, <4>3, Arrives DEF Advancing
      <3>2. QED
        BY <1>2, <1>4, <2>1, <3>1 DEF AtLast, Main
    <2>4. QED
      BY <2>2, <2>3
  <1>5. QED
    BY <1>2, <1>3, <1>4 DEF AtLast

LEMMA LastByStart ==
    ASSUME BaseInv, StartWorkflow
    PROVE  LastInv'
  <1> DEFINE ids == <<FirstStep>>
  <1>1. /\ steps = <<>> /\ tasks = <<>> /\ ids \in Seq(Steps) /\ Began(ids, instance')
        /\ instance' \in Instance /\ Done.pc = "done"
    BY StartWorkflowDoes, DoneIsDone DEF BaseInv
  <1>2. PICK inst \in Instance : inst = instance'
    BY <1>1
  <1>3. Len(ids) = 1
    OBVIOUS
  <1> HIDE DEF ids
  <1>4. Len(steps') = Len(steps) + 1 /\ Len(steps) = 0 /\ Len(tasks) = 0
    BY <1>1, <1>3 DEF Began
  <1>5. \A u \in DOMAIN tasks' : tasks'[u].pc # "done" =>
           /\ u - Len(tasks) \in 1..Len(ids) /\ tasks'[u].at = Len(steps) + (u - Len(tasks))
           /\ tasks'[u].pc = "handler"
    BY <1>1, <1>2, Newcomers
  <1>6. QED
    BY <1>3, <1>4, <1>5 DEF LastInv, AtLast, Active, Advancing

LEMMA LastAlways ==
    ASSUME Requests = {}
    PROVE  Spec => []LastInv
  <1>1. SoloClient /\ Undisturbed
    BY DEF SoloClient, Undisturbed
  <1>2. Init => LastInv
    BY DEF Init, LastInv, Active
  <1>3. BaseInv /\ ChosenInv /\ CalmInv /\ OwnInv /\ LastInv /\ [Next]_vars => LastInv'
    <2> SUFFICES ASSUME BaseInv, ChosenInv, CalmInv, OwnInv, LastInv, [Next]_vars
                 PROVE  LastInv'
      OBVIOUS
    <2>1. CASE UNCHANGED vars \/ Tick
      BY <2>1 DEF vars, Tick, LastInv, AtLast, InSequence, FirstMain, Main, Active
    <2>2. QED
      BY <2>1, LastByStart, LastByTask DEF Next
  <1>4. QED
    BY <1>1, <1>2, <1>3, OwnAlways, PTL DEF Spec

-----------------------------------------------------------------------------
(* Work left.                                                              *)

LEMMA DecidesToGoOn ==
    ASSUME NEW s \in Steps, \A f \in Forks : s \notin ToSet(f.branches), NEW d \in Decisions(s)
    PROVE  /\ d[1] \in {"start", "complete"} \/ <<"error">> \in Resolutions(s)
           /\ d[1] = "start" => Tail(d) # <<>>
  <1>1. d[1] \in {"start", "complete"} \/ <<"error">> \in Resolutions(s)
    <2> DEFINE out == {x \in Transitions : x.from = s}
               forks == {x \in out : x.type = "fork"}
               conditionals == {x \in out : x.type = "conditional"}
               fallback == {x \in out : x.type \in {"sequential", "default"}}
    <2>1. Resolutions(s) =
            IF forks # {} THEN {<<"start">> \o f.branches : f \in forks}
            ELSE IF conditionals \cup fallback = {} THEN {<<"complete">>}
            ELSE {<<"start", x.to>> : x \in conditionals \cup fallback}
                 \cup {<<"error">> : x \in conditionals}
      BY DEF Resolutions
    <2>2. Decisions(s) = Resolutions(s)
      BY DEF Decisions
    <2>3. CASE forks # {}
      <3>1. PICK f \in forks : d = <<"start">> \o f.branches
        BY <2>1, <2>2, <2>3
      <3>2. f \in Forks /\ f.branches \in Seq(Steps)
        BY FirstIsFirst DEF Forks
      <3>3. (<<"start">> \o f.branches)[1] = "start"
        BY <3>2
      <3>4. QED
        BY <3>1, <3>3
    <2>4. CASE forks = {} /\ conditionals \cup fallback = {}
      BY <2>1, <2>2, <2>4
    <2>5. CASE forks = {} /\ conditionals \cup fallback # {}
      <3>1. d \in {<<"start", x.to>> : x \in conditionals \cup fallback}
            \/ (d = <<"error">> /\ d \in Resolutions(s))
        BY <2>1, <2>2, <2>5
      <3>2. QED
        BY <3>1
    <2>6. QED
      BY <2>3, <2>4, <2>5
  <1>2. ASSUME d[1] = "start"
        PROVE  Tail(d) # <<>>
    <2>1. \A y : <<y>> # <<>>
      OBVIOUS
    <2>2. \A f \in Forks : f.branches # <<>>
      <3>1. \A f \in Forks : f.required \in 1..Len(f.branches)
        BY FirstIsFirst
      <3>2. QED
        BY <3>1
    <2>3. QED
      BY <1>2, <2>1, <2>2, DecisionParts
  <1>3. QED
    BY <1>1, <1>2

LEMMA NothingThrows ==
    ASSUME Unconditional, NEW s
    PROVE  <<"error">> \notin Resolutions(s)
  <1>1. ASSUME NEW f \in Forks, <<"error">> = <<"start">> \o f.branches
        PROVE  FALSE
    <2>1. (<<"start">> \o f.branches)[1] = "start" /\ <<"error">>[1] = "error"
      BY FirstIsFirst
    <2>2. QED
      BY <1>1, <2>1
  <1>2. \A y : <<"error">> # <<"start", y>> /\ <<"error">> # <<"complete">>
    OBVIOUS
  <1>3. {x \in {z \in Transitions : z.from = s} : x.type = "conditional"} = {}
    BY DEF Unconditional
  <1>4. QED
    BY <1>1, <1>2, <1>3 DEF Resolutions, Forks

LEMMA NewWork ==
    ASSUME BaseInv, NEW ids \in Seq(Steps), NEW inst \in Instance, Began(ids, inst), ids # <<>>
    PROVE  HasWork'
  <1>1. 1 \in 1..Len(ids) /\ ids[1] \in Steps /\ Len(steps) + 1 \in DOMAIN steps'
    BY StepsInPlace DEF Began, BaseInv
  <1>2. steps'[Len(steps) + 1] = StepInstance(ids[1])
    BY <1>1 DEF Began
  <1>3. Original(StepInstance(ids[1])) /\ StepInstance(ids[1]).status \in {"active", "waiting"}
    BY <1>1, NewInstance DEF BaseInv
  <1>4. QED
    BY <1>1, <1>2, <1>3 DEF HasWork, Main, Original

LEMMA WorkAfterCall ==
    ASSUME BaseInv, NEW t \in DOMAIN tasks, ChangeStep(t), tasks'[t].pc = "done",
           tasks[t].op # "cancel", HasWork
    PROVE  HasWork'
  <1>1. CASE steps' = steps
    BY <1>1 DEF HasWork, Main, CanRetry
  <1>2. CASE steps' # steps
    <2> DEFINE n == Place(tasks[t].at)
    <2>1. Placed(t) /\ Recorded(t) /\ tasks[t].record \in StepRecord
      BY TaskParts DEF BaseInv, PlaceInv, RecordInv
    <2>2. /\ tasks[t].pc = "read" /\ tasks[t].at \in {0} \cup DOMAIN steps
          /\ Changed(t).step = tasks[t].record.step
          /\ Changed(t).compensationOf = tasks[t].record.compensationOf
          /\ Changed(t).status = StepTarget[tasks[t].op]
          /\ Changed(t).attempt = IF tasks[t].op = "retry" THEN tasks[t].record.attempt + 1
                                                           ELSE tasks[t].record.attempt
          /\ steps' \in Seq(StepRecord)
          /\ Len(steps') = IF tasks[t].at = 0 THEN Len(steps) + 1 ELSE Len(steps)
          /\ steps'[n] = Changed(t)
      BY <1>2, ChangeStepDoes, Zenon
    <2>3. CallOver(t)
      <3>1. ASSUME ~ CallOver(t)
            PROVE  FALSE
        <4>1. tasks'[t] = [tasks[t] EXCEPT
                             !.pc = IF tasks[t].op = "fail" THEN "failed" ELSE "completed",
                             !.record = Changed(t),
                             !.output = IF tasks[t].op = "complete"
                                          THEN WithOutput \cap {tasks[t].record.step} ELSE {}]
          BY <1>2, <3>1, ChangeStepDoes, Zenon
        <4>2. DOMAIN tasks[t] = {"op", "pc", "at", "record", "instance", "output", "next"}
          BY TaskFields DEF BaseInv
        <4> DEFINE pc == IF tasks[t].op = "fail" THEN "failed" ELSE "completed"
                   out == IF tasks[t].op = "complete"
                            THEN WithOutput \cap {tasks[t].record.step} ELSE {}
        <4>3. tasks'[t] = [tasks[t] EXCEPT !.pc = pc, !.record = Changed(t), !.output = out]
          BY <4>1
        <4>4. pc # "done"
          OBVIOUS
        <4> HIDE DEF pc, out
        <4>5. tasks'[t].pc = pc
          BY <4>2, <4>3
        <4>6. QED
          BY <4>4, <4>5
      <3>2. QED
        BY <3>1
    <2>4. n \in DOMAIN steps'
      BY <2>2, StepsInPlace DEF BaseInv, Place
    <2>5. Original(tasks[t].record)
      BY <2>1, <2>2 DEF Placed
    <2> HIDE DEF n
    <2>6. CASE tasks[t].op = "retry"
      BY <2>2, <2>4, <2>5, <2>6, StepTargets DEF HasWork, Main, Original
    <2>7. CASE tasks[t].op = "fail" /\ CanRetry(tasks[t].record.step, tasks[t].record.attempt)
      BY <2>2, <2>4, <2>5, <2>7, StepTargets DEF HasWork, Main, Original, CanRetry
    <2>8. QED
      BY <2>3, <2>6, <2>7 DEF CallOver
  <1>3. QED
    BY <1>1, <1>2

\* The step of the only activity, in parts.
LEMMA StatusWhileWorking ==
    ASSUME BaseInv, CalmInv, WorkInv, InSequence, NEW t \in DOMAIN tasks, TaskStep(t)
    PROVE  instance'.status \notin {"suspended", "waiting"}
  <1>1. Alone(t) /\ instance.status \notin {"suspended", "waiting"} /\ tasks[t].instance = instance
    BY LeavesAlone DEF WorkInv, CalmInv, Calm, Active, Alone
  <1>2. CASE ChangeInstance(t) /\ instance' # instance
    <2>1. /\ tasks[t].pc = "read"
          /\ instance' = [tasks[t].instance EXCEPT !.status = InstanceTarget[tasks[t].op]]
          /\ InstanceTarget[tasks[t].op] \in {"suspended", "running", "cancelled"}
          /\ InstanceTarget[tasks[t].op] = "suspended" => tasks[t].op = "suspend"
      BY <1>2, ChangeInstanceDoes
    <2>2. instance'.status = InstanceTarget[tasks[t].op]
      BY <2>1, TaskParts DEF BaseInv, Instance
    <2>3. QED
      BY <2>1, <2>2 DEF WorkInv
  <1>3. CASE ~ ChangeInstance(t)
    <2>1. instance'.status # "suspended" \/ instance'.status = instance.status
      <3>1. CASE Continue(t) /\ instance' # instance
        <4>1. instance' = [tasks[t].instance EXCEPT !.status = "completed"]
          BY <3>1, ContinueDoes
        <4>2. QED
          BY <4>1, TaskParts DEF BaseInv, Instance
      <3>2. CASE FailInstance(t) /\ instance' # instance
        <4>1. instance' = [tasks[t].instance EXCEPT !.status = "failed"]
          BY <3>2, FailInstanceDoes
        <4>2. QED
          BY <4>1, TaskParts DEF BaseInv, Instance
      <3>3. CASE MergeOutput(t)
        <4>1. instance' = instance \/ instance' = Merged(t)
          BY <3>3, MergeOutputDoes, Zenon
        <4>2. Merged(t).status = tasks[t].instance.status
          BY TaskParts DEF BaseInv, Merged, Instance
        <4>3. QED
          BY <1>1, <4>1, <4>2
      <3>4. CASE DispatchVariables(t)
        <4>1. instance' = [tasks[t].instance EXCEPT
                             !.variables = tasks[t].instance.variables \cup {tasks[t].record.step}]
          BY <3>4, DispatchVariablesDoes, Zenon
        <4>2. QED
          BY <1>1, <4>1, TaskParts DEF BaseInv, Instance
      <3>5. CASE HandlerSucceeds(t) \/ HandlerRetries(t) \/ HandlerFails(t) \/ CallAdvance(t)
              \/ EnterLock(t) \/ Decide(t) \/ ScanCompleted(t) \/ StartCompensation(t)
              \/ EndCompensation(t) \/ DispatchStart(t) \/ ChangeStep(t)
        BY <3>5, Zenon DEF HandlerSucceeds, HandlerRetries, HandlerFails, CallAdvance, EnterLock, Decide,
                    ScanCompleted, StartCompensation, EndCompensation, DispatchStart, ChangeStep
      <3>6. QED
        BY <1>3, <3>1, <3>2, <3>3, <3>4, <3>5 DEF TaskStep
    <2>2. instance'.status # "waiting"
      BY <1>1 DEF Alone
    <2>3. QED
      BY <1>1, <2>1, <2>2
  <1>4. QED
    BY <1>1, <1>2, <1>3

LEMMA DecidedWhileWorking ==
    ASSUME Unconditional \/ Requests = {}, BaseInv, NoCallInv, InSequence,
           NEW t \in DOMAIN tasks, TaskStep(t), tasks'[t].pc = "decided"
    PROVE  /\ tasks'[t].next[1] \in {"start", "complete"} \/ Lost'
           /\ tasks'[t].next[1] = "start" => Tail(tasks'[t].next) # <<>>
  <1>1. Decide(t)
    BY Arrives
  <1>2. /\ tasks[t].pc = "merged" /\ tasks'[t].next \in Decisions(tasks[t].record.step)
        /\ tasks[t].record.step \in Steps /\ UNCHANGED steps
    BY <1>1, DecideDoes, TaskParts, Zenon DEF BaseInv
  <1>3. FirstMain(tasks[t].record.step) # {}
    BY <1>2 DEF BaseInv, PlaceInv, Placed, Advancing
  <1>4. \A f \in Forks : tasks[t].record.step \notin ToSet(f.branches)
    BY <1>3 DEF InSequence
  <1>5. PICK d \in Decisions(tasks[t].record.step) : d = tasks'[t].next
    BY <1>2
  <1>6. ASSUME <<"error">> \in Resolutions(tasks[t].record.step)
        PROVE  Lost'
    <2>1. Requests = {} /\ AtLast(t)
      BY <1>2, <1>6, NothingThrows DEF NoCallInv, LastInv, Active
    <2>2. Lost
      BY <1>2, <1>6, <2>1 DEF AtLast, Lost, Advancing
    <2>3. QED
      BY <1>2, <2>2 DEF Lost, Main
  <1>7. QED
    BY <1>2, <1>4, <1>5, <1>6, DecidesToGoOn

LEMMA WorkWhileWorking ==
    ASSUME Unconditional \/ Requests = {}, BaseInv, CalmInv, NoCallInv, WorkInv, InSequence, NEW t \in DOMAIN tasks, TaskStep(t),
           instance'.status = "running", tasks'[t].pc \notin Advancing \cup Failing
    PROVE  HasWork' \/ Lost'
  <1>1. /\ Alone(t) /\ tasks[t].instance = instance /\ tasks[t].instance \in Instance
        /\ \A u \in DOMAIN tasks \ {t} : tasks[u].pc = "done"
        /\ tasks[t].record.step \in Steps
    BY LeavesAlone, TaskParts DEF CalmInv, Calm, Active, Alone, OneAtATime, BaseInv
  <1>2. "done" \notin Advancing \cup Failing
    BY DEF Advancing, Failing
  <1>3. instance.status = "running" /\ ~ Busy(t) => HasWork \/ Lost
    BY <1>1, <1>2 DEF WorkInv, Busy
  <1>4. steps' = steps => (HasWork => HasWork') /\ (Lost => Lost')
    BY DEF HasWork, Lost, Main, CanRetry
  <1>5. CASE HandlerRetries(t)
    <2>1. tasks[t].pc = "handler" /\ steps' = steps /\ instance' = instance
      BY <1>5, HandlerRetriesDoes
    <2>2. ~ Busy(t)
      BY <2>1 DEF Busy, Advancing, Failing
    <2>3. QED
      BY <1>3, <1>4, <2>1, <2>2
  <1>6. CASE DispatchVariables(t)
    <2>1. tasks[t].pc = "read" /\ steps' = steps
          /\ instance' = [tasks[t].instance EXCEPT
                            !.variables = tasks[t].instance.variables \cup {tasks[t].record.step}]
      BY <1>6, DispatchVariablesDoes, Zenon
    <2>2. ~ Busy(t) /\ instance.status = "running"
      BY <1>1, <2>1 DEF Busy, Advancing, Failing, Instance
    <2>3. QED
      BY <1>3, <1>4, <2>1, <2>2
  <1>7. CASE Continue(t)
    <2>1. tasks[t].pc = "decided"
      BY <1>7, ContinueDoes
    <2>2. /\ tasks[t].next[1] \in {"start", "complete"} \/ Lost
          /\ tasks[t].next[1] = "start" => Tail(tasks[t].next) # <<>>
      BY <2>1 DEF WorkInv
    <2>3. CASE tasks[t].next[1] = "start"
      <3> DEFINE ids == Tail(tasks[t].next)
      <3>1. ids \in Seq(Steps) /\ ids # <<>> /\ Began(ids, tasks[t].instance)
        BY <1>7, <2>2, <2>3, ContinueDoes
      <3> HIDE DEF ids
      <3>2. QED
        BY <1>1, <3>1, NewWork
    <2>4. CASE tasks[t].next[1] # "start"
      <3>1. instance.status = "running" /\ tasks[t].next[1] = "complete" =>
              instance' = [tasks[t].instance EXCEPT !.status = "completed"]
        BY <1>1, <1>7, <2>2, <2>4, ContinueDoes
      <3>2. instance.status # "running" => instance' = instance
        BY <1>1, <1>7, <2>4, ContinueDoes
      <3>3. QED
        BY <1>1, <1>4, <1>7, <2>2, <2>4, <3>1, <3>2, ContinueDoes DEF Instance
    <2>5. QED
      BY <2>3, <2>4
  <1>8. CASE DispatchStart(t)
    <2> DEFINE ids == <<tasks[t].record.step>>
    <2>1. ids \in Seq(Steps) /\ ids # <<>>
      BY <1>1
    <2>2. Began(ids, tasks[t].instance)
      BY <1>8, DispatchStartDoes
    <2> HIDE DEF ids
    <2>3. QED
      BY <1>1, <2>1, <2>2, NewWork
  <1>9. CASE FailInstance(t)
    <2>1. \/ instance' = [tasks[t].instance EXCEPT !.status = "failed"]
          \/ tasks[t].instance.status \notin {"running", "waiting"} /\ instance' = instance
      BY <1>9, FailInstanceDoes
    <2>2. QED
      BY <1>1, <2>1 DEF Instance
  <1>10. CASE ChangeInstance(t)
    <2>1. tasks[t].pc = "read" /\ steps' = steps
      BY <1>10, ChangeInstanceDoes
    <2>2. instance' = instance
      <3>1. ASSUME instance' # instance
            PROVE  FALSE
        <4>1. /\ instance' = [tasks[t].instance EXCEPT !.status = InstanceTarget[tasks[t].op]]
              /\ InstanceTarget[tasks[t].op] = "running" =>
                    tasks[t].instance.status \in {"pending", "waiting", "suspended"}
          BY <1>10, <3>1, ChangeInstanceDoes
        <4>2. instance'.status = InstanceTarget[tasks[t].op]
          BY <1>1, <4>1 DEF Instance
        <4>3. instance.status # "pending"
          BY <1>1 DEF Alone, BaseInv, StartedInv, Active
        <4>4. QED
          BY <1>1, <4>1, <4>2, <4>3 DEF WorkInv
      <3>2. QED
        BY <3>1
    <2>3. ~ Busy(t)
      BY <2>1 DEF Busy, Advancing, Failing
    <2>4. QED
      BY <1>3, <1>4, <2>1, <2>2, <2>3
  <1>11. CASE ChangeStep(t)
    <2>1. tasks[t].pc = "read" /\ tasks[t].op # "cancel" /\ instance' = instance
      BY <1>11, ChangeStepDoes, Zenon DEF WorkInv
    <2>2. ~ Busy(t)
      BY <2>1 DEF Busy, Advancing, Failing
    <2>3. tasks'[t].pc = "done"
      BY <1>11, Lands DEF Advancing, Failing
    <2>4. ~ Lost
      <3>1. Requests # {}
        BY <2>1 DEF NoCallInv, OwnInv, Owned
      <3>2. QED
        BY <3>1, NothingThrows DEF Lost
    <2>5. QED
      BY <1>3, <1>11, <2>1, <2>2, <2>3, <2>4, WorkAfterCall
  <1>12. CASE \/ HandlerSucceeds(t) \/ HandlerFails(t) \/ CallAdvance(t) \/ EnterLock(t)
              \/ MergeOutput(t) \/ Decide(t) \/ ScanCompleted(t) \/ StartCompensation(t)
              \/ EndCompensation(t)
    <2>1. tasks[t].pc = "handler" \/ Busy(t)
      BY <1>12, HandlerSucceedsDoes, HandlerFailsDoes, CallAdvanceDoes, EnterLockDoes, MergeOutputDoes,
         DecideDoes, ScanCompletedDoes, StartCompensationDoes, EndCompensationDoes, ZenonT(30)
         DEF Busy, Advancing, Failing
    <2>2. QED
      BY <1>12, Lands DEF Advancing, Failing
  <1>13. QED
    BY <1>5, <1>6, <1>7, <1>8, <1>9, <1>10, <1>11, <1>12 DEF TaskStep

LEMMA WorkByTask ==
    ASSUME Unconditional \/ Requests = {}, BaseInv, CalmInv, NoCallInv, WorkInv,
           NEW t \in DOMAIN tasks, TaskStep(t)
    PROVE  WorkInv'
  <1> SUFFICES ASSUME InSequence'
               PROVE  /\ instance'.status \notin {"suspended", "waiting"}
                      /\ \A u \in DOMAIN tasks' :
                            tasks'[u].pc = "read" => tasks'[u].op \notin {"suspend", "cancel"}
                      /\ \A u \in DOMAIN tasks' : tasks'[u].pc = "decided" =>
                            /\ tasks'[u].next[1] \in {"start", "complete"} \/ Lost'
                            /\ tasks'[u].next[1] = "start" => Tail(tasks'[u].next) # <<>>
                      /\ instance'.status = "running" => HasWork' \/ Lost' \/ \E u \in DOMAIN tasks' : Busy(u)'
    BY DEF WorkInv
  <1>1. InSequence /\ Kept /\ Alone(t)
    BY KeptByTask, LeavesAlone, StaysInSequence
  <1>2. Done.pc = "done"
    BY DoneIsDone DEF BaseInv
  <1>3. ASSUME NEW u \in DOMAIN tasks'
        PROVE  /\ tasks'[u].pc = "read" => tasks'[u].op \notin {"suspend", "cancel"}
               /\ tasks'[u].pc = "decided" =>
                     /\ tasks'[u].next[1] \in {"start", "complete"} \/ Lost'
                     /\ tasks'[u].next[1] = "start" => Tail(tasks'[u].next) # <<>>
    <2>1. CASE u = t
      BY <1>1, <2>1, Arrives, DecidedWhileWorking
    <2>2. CASE u \in DOMAIN tasks \ {t}
      BY <1>1, <1>2, <2>2 DEF Alone, CalmInv, Calm, OneAtATime, Active
    <2>3. CASE u \notin DOMAIN tasks
      BY <1>1, <1>2, <2>3 DEF Alone, Newborn
    <2>4. QED
      BY <2>1, <2>2, <2>3
  <1>4. ASSUME instance'.status = "running"
        PROVE  HasWork' \/ Lost' \/ \E u \in DOMAIN tasks' : Busy(u)'
    <2>1. CASE tasks'[t].pc \in Advancing \cup Failing
      BY <1>1, <2>1 DEF Busy, Kept
    <2>2. CASE tasks'[t].pc \notin Advancing \cup Failing
      BY <1>1, <1>4, <2>2, WorkWhileWorking
    <2>3. QED
      BY <2>1, <2>2
  <1>5. QED
    BY <1>1, <1>3, <1>4, StatusWhileWorking

LEMMA WorkByCall ==
    ASSUME Uninterrupted, BaseInv, WorkInv, NEW r \in Requests, Call(r[1], r[2])
    PROVE  WorkInv'
  <1>1. r[1] \in Operations /\ r[2] \in Steps /\ r[1] \notin {"suspend", "cancel"}
    BY FirstIsFirst DEF Uninterrupted
  <1>2. PICK u \in Nat :
        /\ DOMAIN tasks' = DOMAIN tasks \cup {u}
        /\ \A t \in DOMAIN tasks : tasks'[t] = tasks[t]
        /\ tasks'[u].pc = "read" /\ tasks'[u].op = r[1]
        /\ UNCHANGED <<instance, steps>>
    BY <1>1, NewCall
  <1>3. /\ InSequence' => InSequence
        /\ HasWork => HasWork'
        /\ Lost => Lost'
        /\ \A t \in DOMAIN tasks : Busy(t) => Busy(t)'
    BY <1>2 DEF InSequence, FirstMain, HasWork, Lost, Main, CanRetry, Busy
  <1>4. QED
    BY <1>1, <1>2, <1>3 DEF WorkInv

LEMMA WorkByStart ==
    ASSUME BaseInv, StartWorkflow
    PROVE  WorkInv'
  <1> DEFINE ids == <<FirstStep>>
  <1>1. /\ steps = <<>> /\ tasks = <<>> /\ ids \in Seq(Steps) /\ Began(ids, instance')
        /\ instance' \in Instance /\ instance' = [instance EXCEPT !.status = "running"]
        /\ ids # <<>>
    BY StartWorkflowDoes
  <1>2. PICK inst \in Instance : inst = instance'
    BY <1>1
  <1>3. inst.status = "running"
    BY <1>1, <1>2 DEF BaseInv, WorkflowTypeOK, Instance
  <1> HIDE DEF ids
  <1>4. \A u \in DOMAIN tasks' : tasks'[u].pc \in {"done", "handler"}
    <2>1. Done.pc = "done"
      BY DoneIsDone DEF BaseInv
    <2>2. QED
      BY <1>1, <1>2, <2>1, NewbornTasks DEF Newborn
  <1>5. HasWork'
    BY <1>1, <1>2, NewWork
  <1>6. QED
    BY <1>2, <1>3, <1>4, <1>5 DEF WorkInv

LEMMA WorkByAll ==
    ASSUME Unconditional \/ Requests = {}, Uninterrupted, BaseInv, CalmInv, NoCallInv, WorkInv,
           [Next]_vars
    PROVE  WorkInv'
  <1>1. CASE UNCHANGED vars \/ Tick
    <2>1. UNCHANGED <<instance, steps, tasks>>
      BY <1>1 DEF vars, Tick
    <2>2. QED
      BY <2>1 DEF WorkInv, InSequence, FirstMain, HasWork, Lost, Main, CanRetry, Busy
  <1>2. QED
    BY <1>1, WorkByStart, WorkByCall, WorkByTask DEF Next

\* Callers that await each call and neither suspend the instance nor cancel a step, in
\* a workflow without conditions, or no calls at all, whatever the graph: as long as no
\* branches were started, an instance shown as running has an activity, or a step that
\* is active, waiting, or failed with attempts left, or else a condition has thrown
\* behind the step completed last.
THEOREM RunningIsNeverStranded ==
    ASSUME SoloClient, Unconditional \/ Requests = {}, Uninterrupted
    PROVE  Spec => []RunningHasWork
  <1>1. Init => WorkInv
    BY DEF Init, WorkInv
  <1>2. BaseInv /\ CalmInv /\ NoCallInv /\ WorkInv /\ [Next]_vars => WorkInv'
    BY WorkByAll
  <1>3. WorkInv => RunningHasWork
    BY DEF WorkInv, RunningHasWork, Stranded, Lost, Quiet, Busy, Advancing, Failing
  <1>4. Spec => []NoCallInv
    <2>1. CASE Requests = {}
      <3>1. OwnInv /\ LastInv => NoCallInv
        BY DEF NoCallInv
      <3>2. Undisturbed
        BY <2>1 DEF Undisturbed
      <3>3. QED
        BY <2>1, <3>1, <3>2, OwnAlways, LastAlways, PTL
    <2>2. CASE Requests # {}
      <3>1. NoCallInv
        BY <2>2 DEF NoCallInv
      <3>2. QED
        BY <3>1, PTL
    <2>3. QED
      BY <2>1, <2>2
  <1>5. QED
    BY <1>1, <1>2, <1>3, <1>4, CalmAlways, PTL DEF Spec

-----------------------------------------------------------------------------
(* Outputs.                                                                *)

LEMMA VariablesBy ==
    ASSUME BaseInv, NEW t \in DOMAIN tasks, TaskStep(t)
    PROVE  \/ instance' = instance
           \/ instance'.variables = tasks[t].instance.variables
           \/ /\ MergeOutput(t) /\ tasks[t].pc = "entered" /\ tasks[t].output # {}
              /\ instance'.variables = tasks[t].instance.variables \cup tasks[t].output
           \/ /\ DispatchVariables(t) /\ tasks[t].pc = "read"
              /\ tasks[t].instance.variables \subseteq instance'.variables
  <1>1. tasks[t].instance \in Instance
    BY TaskParts DEF BaseInv
  <1>2. CASE MergeOutput(t)
    <2>1. /\ tasks[t].pc = "entered"
          /\ instance' = IF tasks[t].output # {} THEN Merged(t) ELSE instance
      BY <1>2, MergeOutputDoes, Zenon
    <2>2. Merged(t).variables = tasks[t].instance.variables \cup tasks[t].output
      BY <1>1 DEF Merged, Instance
    <2>3. QED
      BY <1>2, <2>1, <2>2
  <1>3. CASE DispatchVariables(t)
    <2>1. /\ tasks[t].pc = "read"
          /\ instance' = [tasks[t].instance EXCEPT
                             !.variables = tasks[t].instance.variables \cup {tasks[t].record.step}]
      BY <1>3, DispatchVariablesDoes, Zenon
    <2>2. instance'.variables = tasks[t].instance.variables \cup {tasks[t].record.step}
      BY <1>1, <2>1 DEF Instance
    <2>3. QED
      BY <1>3, <2>1, <2>2
  <1>4. CASE Continue(t)
    <2>1. instance' = instance \/ instance' = [tasks[t].instance EXCEPT !.status = "completed"]
      BY <1>4, ContinueDoes
    <2>2. QED
      BY <1>1, <2>1 DEF Instance
  <1>5. CASE FailInstance(t)
    <2>1. instance' = instance \/ instance' = [tasks[t].instance EXCEPT !.status = "failed"]
      BY <1>5, FailInstanceDoes
    <2>2. QED
      BY <1>1, <2>1 DEF Instance
  <1>6. CASE ChangeInstance(t)
    <2>1. instance' = instance \/
          instance' = [tasks[t].instance EXCEPT !.status = InstanceTarget[tasks[t].op]]
      BY <1>6, ChangeInstanceDoes
    <2>2. QED
      BY <1>1, <2>1 DEF Instance
  <1>7. CASE HandlerSucceeds(t) \/ HandlerRetries(t) \/ HandlerFails(t) \/ CallAdvance(t)
              \/ EnterLock(t) \/ Decide(t) \/ ScanCompleted(t) \/ StartCompensation(t)
              \/ EndCompensation(t) \/ DispatchStart(t) \/ ChangeStep(t)
    BY <1>7, Zenon DEF HandlerSucceeds, HandlerRetries, HandlerFails, CallAdvance, EnterLock, Decide,
                ScanCompleted, StartCompensation, EndCompensation, DispatchStart, ChangeStep
  <1>8. QED
    BY <1>2, <1>3, <1>4, <1>5, <1>6, <1>7 DEF TaskStep

\* What a task whose step has just been completed is left with.
LEMMA CompletionLeaves ==
    ASSUME BaseInv, NEW t \in DOMAIN tasks, TaskStep(t), tasks'[t].pc = "completed"
    PROVE  /\ tasks[t].pc \in {"handler", "read"}
           /\ \/ HandlerSucceeds(t) \/ (ChangeStep(t) /\ tasks[t].op = "complete")
              \/ ChangeStep(t) /\ tasks[t].op # "complete" /\ tasks'[t].output = {}
           /\ HandlerSucceeds(t) \/ tasks[t].op = "complete" =>
                 tasks'[t].output = WithOutput \cap {tasks[t].record.step}
  <1>1. DOMAIN tasks[t] = {"op", "pc", "at", "record", "instance", "output", "next"}
    BY TaskFields DEF BaseInv
  <1>2. CASE HandlerSucceeds(t)
    <2>1. /\ tasks'[t] = [tasks[t] EXCEPT !.pc = "completed", !.record = tasks'[t].record,
                                          !.output = WithOutput \cap {tasks[t].record.step}]
          /\ tasks[t].pc = "handler"
      BY <1>2, HandlerSucceedsDoes, Zenon
    <2>2. QED
      BY <1>1, <1>2, <2>1
  <1>3. CASE ChangeStep(t)
    <2> DEFINE pc == IF tasks[t].op = "fail" THEN "failed" ELSE "completed"
               out == IF tasks[t].op = "complete" THEN WithOutput \cap {tasks[t].record.step} ELSE {}
    <2>1. /\ tasks[t].pc = "read"
          /\ \/ tasks'[t] = Done
             \/ tasks'[t] = [tasks[t] EXCEPT !.pc = pc, !.record = Changed(t), !.output = out]
      BY <1>3, ChangeStepDoes, Zenon
    <2> HIDE DEF out, pc
    <2>2. tasks'[t].output = out
      BY <1>1, <2>1, DoneIsDone DEF BaseInv
    <2>3. ~ HandlerSucceeds(t)
      BY <2>1 DEF HandlerSucceeds
    <2>4. QED
      BY <1>3, <2>1, <2>2, <2>3 DEF out
  <1>4. QED
    BY <1>2, <1>3, Arrives

\* How a main step instance comes to be completed.
LEMMA CompletedBy ==
    ASSUME BaseInv, OwnInv, NEW t \in DOMAIN tasks, TaskStep(t),
           NEW n \in DOMAIN steps', Main(n)', steps'[n].status = "completed"
    PROVE  \/ n \in DOMAIN steps /\ steps[n].status = "completed" /\ Main(n)
              /\ steps'[n].step = steps[n].step /\ steps'[n].completedAt = steps[n].completedAt
           \/ /\ tasks'[t].pc = "completed" /\ n = tasks[t].at /\ n \in DOMAIN steps
              /\ steps'[n].step = tasks[t].record.step
              /\ HandlerSucceeds(t) \/ (ChangeStep(t) /\ tasks[t].op \in {"complete", "advance"})
  <1>1. Placed(t) /\ Recorded(t) /\ tasks[t].record \in StepRecord /\ Kept
    BY TaskParts, KeptByTask DEF BaseInv, PlaceInv, RecordInv
  <1>2. CASE n \in DOMAIN steps
    <2>1. steps[n] \in StepRecord /\ Main(n) /\ steps'[n].step = steps[n].step
      BY <1>1, <1>2, StepsInPlace DEF BaseInv, Kept, Same, Main
    <2>2. CASE steps'[n] = steps[n]
      BY <1>2, <2>1, <2>2
    <2>3. CASE Settles(t, n)
      <3>1. HandlerSucceeds(t) /\ n = tasks[t].at /\ tasks[t].pc = "handler"
        BY <2>3 DEF Settles
      <3>2. steps[n].step = tasks[t].record.step
        BY <1>1, <3>1 DEF Placed, Writes, Same
      <3>3. QED
        BY <1>2, <2>1, <3>1, <3>2, Lands
    <2>4. CASE Compensates(t, n)
      BY <2>1, <2>4 DEF Compensates
    <2>5. CASE Obeys(t, n)
      <3>1. /\ ChangeStep(t) /\ tasks[t].pc = "read" /\ n = tasks[t].at /\ steps[n] = tasks[t].record
            /\ tasks[t].op \in DOMAIN StepTarget /\ steps'[n].status = StepTarget[tasks[t].op]
        BY <2>5 DEF Obeys
      <3>2. tasks[t].op \in {"complete", "advance"}
        BY <3>1, StepTargets, Tables
      <3>3. steps[n].status # "completed"
        <4>1. steps[n].status \in DOMAIN StepTransitions
          BY <2>1 DEF StepRecord
        <4>2. CanTransitionStep(steps[n].status, StepTarget[tasks[t].op])
          BY <2>5 DEF Obeys
        <4>3. QED
          BY <3>1, <4>1, <4>2, StepMoves
      <3>4. tasks'[t].pc = "completed"
        <4> DEFINE out == IF tasks[t].op = "complete" THEN WithOutput \cap {tasks[t].record.step} ELSE {}
                   pc == IF tasks[t].op = "fail" THEN "failed" ELSE "completed"
        <4>1. ~ CallOver(t) /\ pc = "completed"
          BY <3>2 DEF CallOver
        <4>2. tasks'[t] = [tasks[t] EXCEPT !.pc = pc, !.record = Changed(t), !.output = out]
          BY <3>1, <3>3, <4>1, ChangeStepDoes, Zenon
        <4>3. DOMAIN tasks[t] = {"op", "pc", "at", "record", "instance", "output", "next"}
          BY TaskFields DEF BaseInv
        <4> HIDE DEF out, pc
        <4>4. QED
          BY <4>1, <4>2, <4>3
      <3>5. QED
        BY <1>2, <2>1, <3>1, <3>2, <3>4
    <2>6. CASE Marked1(t, n)
      BY <1>2, <2>1, <2>6 DEF Marked1, StepRecord
    <2>7. QED
      BY <1>2, <2>2, <2>3, <2>4, <2>5, <2>6, Changes
  <1>3. CASE n \notin DOMAIN steps
    <2>1. CASE Continue(t) \/ DispatchStart(t)
      <3>1. PICK ids \in Seq(Steps) : Began(ids, tasks[t].instance)
        <4>1. tasks[t].record.step \in Steps
          BY TaskParts DEF BaseInv
        <4>2. <<tasks[t].record.step>> \in Seq(Steps)
          BY <4>1
        <4>3. Continue(t) => steps' # steps
          BY <1>3
        <4>4. QED
          BY <2>1, <4>2, <4>3, ContinueDoes, DispatchStartDoes
      <3>2. tasks[t].instance \in Instance
        BY TaskParts DEF BaseInv
      <3>3. ids[n - Len(steps)] \in Steps /\ steps'[n] = StepInstance(ids[n - Len(steps)])
        BY <1>3, <3>1, <3>2, Newcomers
      <3>4. StepInstance(ids[n - Len(steps)]).status # "completed"
        BY <3>3, NewInstance DEF BaseInv
      <3>5. QED
        BY <3>3, <3>4
    <2>2. CASE ChangeStep(t)
      <3>1. /\ tasks[t].pc = "read" /\ tasks[t].op \in DOMAIN StepTarget
            /\ Changed(t).status = StepTarget[tasks[t].op]
            /\ steps' \in Seq(StepRecord)
            /\ Len(steps') = IF tasks[t].at = 0 THEN Len(steps) + 1 ELSE Len(steps)
            /\ steps'[Place(tasks[t].at)] = Changed(t)
        <4>1. steps' # steps
          BY <1>3
        <4>2. QED
          BY <2>2, <4>1, ChangeStepDoes, Zenon
      <3>2. tasks[t].at = 0 /\ n = Place(tasks[t].at)
        BY <1>3, <3>1, StepsInPlace DEF BaseInv, Place
      <3>3. tasks[t].op = "skip"
        BY <1>1, <3>1, <3>2 DEF Recorded
      <3>4. QED
        BY <3>1, <3>2, <3>3, StepTargets
    <2>3. CASE StartCompensation(t)
      <3>1. /\ steps' \in Seq(StepRecord) /\ Len(steps') = Len(steps) + 1
            /\ steps'[Len(steps) + 1] = Compensation(t)
            /\ tasks[t].pc = "compensating" /\ tasks[t].next # <<>>
        BY <2>3, StartCompensationDoes, Zenon
      <3>2. n = Len(steps) + 1
        BY <1>3, <3>1, StepsInPlace DEF BaseInv
      <3>3. ~ Original(Compensation(t))
        BY <3>1, NextToUndo
      <3>4. QED
        BY <3>1, <3>2, <3>3 DEF Original, Main
    <2>4. CASE HandlerSucceeds(t) \/ HandlerFails(t) \/ EndCompensation(t)
      <3>1. steps' \in Seq(StepRecord) /\ Len(steps') = Len(steps)
        BY <2>4, HandlerSucceedsDoes, HandlerFailsDoes, EndCompensationDoes, Zenon
      <3>2. QED
        BY <1>3, <3>1, StepsInPlace DEF BaseInv
    <2>5. CASE HandlerRetries(t) \/ CallAdvance(t) \/ EnterLock(t) \/ MergeOutput(t) \/ Decide(t)
              \/ ScanCompleted(t) \/ FailInstance(t) \/ ChangeInstance(t) \/ DispatchVariables(t)
      BY <1>3, <2>5, Zenon DEF HandlerRetries, CallAdvance, EnterLock, MergeOutput, Decide, ScanCompleted,
                FailInstance, ChangeInstance, DispatchVariables
    <2>6. QED
      BY <2>1, <2>2, <2>3, <2>4, <2>5 DEF TaskStep
  <1>4. QED
    BY <1>2, <1>3

LEMMA PendingBy ==
    ASSUME BaseInv, NEW t \in DOMAIN tasks, TaskStep(t)
    PROVE  /\ Pending(t) # {} =>
                 \/ MergeOutput(t) /\ instance'.variables = tasks[t].instance.variables \cup Pending(t)
                 \/ Pending(t)' = Pending(t) /\ instance' = instance
           /\ Pending(t)' # {} => tasks'[t].pc = "completed" \/ Pending(t) # {}
  <1>1. DOMAIN tasks[t] = {"op", "pc", "at", "record", "instance", "output", "next"}
        /\ tasks[t].instance \in Instance
    BY TaskFields, TaskParts DEF BaseInv
  <1>2. CASE CallAdvance(t) \/ EnterLock(t)
    <2>1. /\ \/ tasks'[t] = [tasks[t] EXCEPT !.pc = "entered", !.instance = instance]
             \/ tasks'[t] = [tasks[t] EXCEPT !.pc = "chained"]
          /\ tasks[t].pc \in {"completed", "chained"} /\ instance' = instance
      BY <1>2, CallAdvanceDoes, EnterLockDoes, Zenon
    <2>2. tasks'[t].pc \in {"chained", "entered"} /\ tasks'[t].output = tasks[t].output
      BY <1>1, <2>1
    <2>3. QED
      BY <2>1, <2>2 DEF Pending
  <1>3. CASE MergeOutput(t)
    <2>1. /\ tasks[t].pc = "entered"
          /\ instance' = IF tasks[t].output # {} THEN Merged(t) ELSE instance
      BY <1>3, MergeOutputDoes, Zenon
    <2>2. Merged(t).variables = tasks[t].instance.variables \cup tasks[t].output
      BY <1>1 DEF Merged, Instance
    <2>3. tasks'[t].pc = "merged"
      BY <1>3, Lands
    <2>4. QED
      BY <1>3, <2>1, <2>2, <2>3 DEF Pending
  <1>4. CASE ~ (CallAdvance(t) \/ EnterLock(t) \/ MergeOutput(t))
    <2>1. tasks[t].pc \notin {"completed", "chained", "entered"}
      BY <1>4, Zenon DEF TaskStep, HandlerSucceeds, HandlerRetries, HandlerFails, Decide, Continue,
         ScanCompleted, StartCompensation, EndCompensation, FailInstance, ChangeInstance,
         DispatchVariables, DispatchStart, ChangeStep
    <2>2. QED
      BY <1>4, <2>1, Arrives DEF Pending
  <1>5. QED
    BY <1>2, <1>3, <1>4

LEMMA OutputByTask ==
    ASSUME Orderly, BaseInv, CalmInv, OwnInv, OutputInv, NEW t \in DOMAIN tasks, TaskStep(t)
    PROVE  OutputInv'
  <1> SUFFICES ASSUME Calm', NEW n \in DOMAIN steps', Main(n)', steps'[n].status = "completed",
                      steps'[n].step \in WithOutput
               PROVE  \/ steps'[n].step \in instance'.variables
                      \/ \E u \in DOMAIN tasks' : steps'[n].step \in Pending(u)'
    BY DEF OutputInv
  <1>1. Alone(t) /\ Kept /\ Calm
    BY LeavesAlone, KeptByTask, StaysInSequence
  <1>2. /\ t \in Active /\ tasks[t].instance = instance
        /\ \A u \in DOMAIN tasks \ {t} : tasks[u].pc = "done"
    BY <1>1 DEF CalmInv, OneAtATime, Active, Alone
  <1>3. instance.variables \subseteq instance'.variables
    BY <1>2, VariablesBy
  <1>4. t \in DOMAIN tasks'
    BY <1>1 DEF Kept
  <1>5. CASE n \in DOMAIN steps /\ steps[n].status = "completed" /\ Main(n)
             /\ steps'[n].step = steps[n].step
    <2>1. CASE steps[n].step \in instance.variables
      BY <1>3, <1>5, <2>1
    <2>2. CASE steps[n].step \notin instance.variables
      <3>1. PICK u \in DOMAIN tasks : steps[n].step \in Pending(u)
        BY <1>1, <1>5, <2>2 DEF OutputInv
      <3>2. u = t
        BY <1>2, <3>1 DEF Pending
      <3>3. steps[n].step \in Pending(t)
        BY <3>1, <3>2
      <3>4. QED
        BY <1>4, <1>5, <3>3, PendingBy
    <2>3. QED
      BY <2>1, <2>2
  <1>6. CASE /\ tasks'[t].pc = "completed" /\ n = tasks[t].at /\ n \in DOMAIN steps
             /\ steps'[n].step = tasks[t].record.step
             /\ HandlerSucceeds(t) \/ (ChangeStep(t) /\ tasks[t].op \in {"complete", "advance"})
    <2>1. HandlerSucceeds(t) \/ tasks[t].op = "complete"
      <3>1. ASSUME ChangeStep(t), tasks[t].op = "advance"
            PROVE  FALSE
        <4>1. tasks[t].pc = "read" /\ tasks[t].record.step \in Waits
          BY <3>1, ChangeStepDoes, Zenon DEF BaseInv, RecordInv, Recorded
        <4>2. Requests # {}
          BY <4>1 DEF OwnInv, Owned
        <4>3. QED
          BY <1>6, <4>1, <4>2 DEF Orderly
      <3>2. QED
        BY <1>6, <3>1
    <2>2. tasks'[t].output = WithOutput \cap {tasks[t].record.step}
      BY <1>6, <2>1, CompletionLeaves
    <2>3. steps'[n].step \in Pending(t)'
      BY <1>6, <2>2 DEF Pending
    <2>4. QED
      BY <1>4, <2>3
  <1>7. QED
    BY <1>5, <1>6, CompletedBy

LEMMA OutputByStart ==
    ASSUME BaseInv, StartWorkflow
    PROVE  \A n \in DOMAIN steps' : steps'[n].status # "completed"
  <1> DEFINE ids == <<FirstStep>>
  <1>1. /\ steps = <<>> /\ ids \in Seq(Steps) /\ Began(ids, instance') /\ instance' \in Instance
    BY StartWorkflowDoes
  <1>2. PICK inst \in Instance : inst = instance'
    BY <1>1
  <1> HIDE DEF ids
  <1>3. \A n \in DOMAIN steps' \ DOMAIN steps :
             ids[n - Len(steps)] \in Steps /\ steps'[n] = StepInstance(ids[n - Len(steps)])
    BY <1>1, <1>2, Newcomers
  <1>4. QED
    BY <1>1, <1>3, NewInstance DEF BaseInv

LEMMA OutputByCall ==
    ASSUME BaseInv, OutputInv, NEW r \in Requests, Call(r[1], r[2])
    PROVE  OutputInv'
  <1>1. r[1] \in Operations /\ r[2] \in Steps
    BY FirstIsFirst
  <1>2. PICK u \in Nat :
        /\ DOMAIN tasks' = DOMAIN tasks \cup {u}
        /\ \A t \in DOMAIN tasks : tasks'[t] = tasks[t]
        /\ UNCHANGED <<instance, steps>>
    BY <1>1, NewCall
  <1>3. Calm' => Calm
    BY <1>2 DEF Calm, Sequential, InSequence, FirstMain, Main
  <1>4. \A t \in DOMAIN tasks : Pending(t)' = Pending(t) /\ t \in DOMAIN tasks'
    BY <1>2 DEF Pending
  <1>5. QED
    BY <1>2, <1>3, <1>4 DEF OutputInv, Main

LEMMA OutputByAll ==
    ASSUME Orderly, BaseInv, CalmInv, OwnInv, OutputInv, [Next]_vars
    PROVE  OutputInv'
  <1>1. CASE UNCHANGED vars \/ Tick
    BY <1>1 DEF vars, Tick, OutputInv, Calm, Sequential, InSequence, FirstMain, Pending, Main
  <1>2. CASE StartWorkflow
    BY <1>2, OutputByStart DEF OutputInv
  <1>3. QED
    BY <1>1, <1>2, OutputByCall, OutputByTask DEF Next

-----------------------------------------------------------------------------
(* Outputs from before the branches.                                       *)

\* A record is early or not whatever is added behind it.
LEMMA EarlyStays ==
    ASSUME BaseInv, Kept, steps' \in Seq(StepRecord), NEW n \in DOMAIN steps
    PROVE  Early(n)' <=> Early(n)
  <1>1. DOMAIN steps = 1..Len(steps) /\ Len(steps) \in Nat
    BY StepsInPlace DEF BaseInv
  <1>2. \A k \in 1..n : k \in DOMAIN steps /\ steps'[k].step = steps[k].step
    BY <1>1 DEF Kept, Same
  <1>3. QED
    BY <1>2 DEF Early

\* Nothing added behind a branch is early.
LEMMA LateRecords ==
    ASSUME BaseInv, Kept, ~ InSequence, WorkflowTypeOK', NEW n \in DOMAIN steps' \ DOMAIN steps
    PROVE  ~ Early(n)'
  <1>1. PICK f \in Forks, k \in DOMAIN steps : steps[k].step \in ToSet(f.branches)
    BY DEF InSequence, FirstMain
  <1>2. /\ DOMAIN steps = 1..Len(steps) /\ Len(steps) \in Nat
        /\ DOMAIN steps' = 1..Len(steps') /\ Len(steps') \in Nat
    BY DEF BaseInv, WorkflowTypeOK
  <1>3. k \in 1..n /\ steps'[k].step = steps[k].step
    BY <1>1, <1>2 DEF Kept, Same
  <1>4. QED
    BY <1>1, <1>3 DEF Early

LEMMA GivenStays ==
    ASSUME Requests = {}, BaseInv, BaseInv', OwnInv, EarlyInv, ~ InSequence,
           NEW t \in DOMAIN tasks, TaskStep(t)
    PROVE  \A v : Given(v) => Given(v)'
  <1> SUFFICES ASSUME NEW v, Given(v), NEW n \in DOMAIN steps', Main(n)', Early(n)',
                      steps'[n].status = "completed"
               PROVE  WithOutput \cap {steps'[n].step} \subseteq v
    BY DEF Given
  <1>1. Kept /\ WorkflowTypeOK' /\ steps' \in Seq(StepRecord)
    BY KeptByTask DEF BaseInv, WorkflowTypeOK
  <1>2. n \in DOMAIN steps /\ Early(n)
    <2>1. n \in DOMAIN steps
      BY <1>1, LateRecords
    <2>2. QED
      BY <1>1, <2>1, EarlyStays
  <1>3. CASE steps[n].status = "completed" /\ Main(n) /\ steps'[n].step = steps[n].step
    BY <1>2, <1>3 DEF Given
  <1>4. CASE n = tasks[t].at /\ (HandlerSucceeds(t) \/ ChangeStep(t))
    <2>1. tasks[t].pc \notin {"read", "given"}
      BY DEF OwnInv, Owned
    <2>2. tasks[t].pc = "handler"
      BY <1>4, <2>1 DEF HandlerSucceeds, ChangeStep
    <2>3. t \in Active
      BY <2>2 DEF Active
    <2>4. ~ Early(n)
      BY <1>4, <2>2, <2>3 DEF EarlyInv
    <2>5. QED
      BY <1>2, <2>4
  <1>5. QED
    BY <1>3, <1>4, CompletedBy

\* The step that starts the first branches.
LEMMA BranchesStart ==
    ASSUME Requests = {}, BaseInv, ChosenInv, OwnInv, InSequence, ~ InSequence',
           NEW t \in DOMAIN tasks, TaskStep(t)
    PROVE  /\ Continue(t) /\ tasks[t].pc = "decided" /\ tasks[t].next[1] = "start"
           /\ \A n \in DOMAIN steps' \ DOMAIN steps :
                 ~ Early(n)' /\ steps'[n].status # "completed"
           /\ \A n \in DOMAIN steps : steps'[n] = steps[n]
  <1>1. PICK g \in Forks, n \in DOMAIN steps' :
           steps'[n].step \in ToSet(g.branches) /\ Main(n)'
    BY DEF InSequence, FirstMain
  <1>2. Kept
    BY KeptByTask
  <1>3. n \notin DOMAIN steps
    BY <1>1, <1>2 DEF Kept, Same, Main, InSequence, FirstMain
  <1>4. ~ StartCompensation(t)
    <2>1. ASSUME StartCompensation(t)
          PROVE  FALSE
      <3>1. /\ steps' \in Seq(StepRecord) /\ Len(steps') = Len(steps) + 1
            /\ steps'[Len(steps) + 1] = Compensation(t) /\ tasks[t].pc = "compensating"
            /\ tasks[t].next # <<>>
        BY <2>1, StartCompensationDoes, Zenon
      <3>2. n = Len(steps) + 1
        BY <1>1, <1>3, <3>1, StepsInPlace DEF BaseInv
      <3>3. QED
        BY <1>1, <3>1, <3>2, NextToUndo DEF Original, Main
    <2>2. QED
      BY <2>1
  <1>5. /\ Continue(t) /\ tasks[t].pc = "decided" /\ tasks[t].next[1] = "start"
        /\ \A m \in DOMAIN steps' \ DOMAIN steps :
              \E y \in ToSet(Tail(tasks[t].next)) : y \in Steps /\ steps'[m] = StepInstance(y)
        /\ \A m, k \in DOMAIN steps' \ DOMAIN steps : Len(Tail(tasks[t].next)) = 1 => m = k
    BY <1>3, <1>4, StartsSteps
  <1>6. Began(Tail(tasks[t].next), tasks[t].instance)
    BY <1>5, ContinueDoes
  <1>7. ASSUME NEW m \in DOMAIN steps' \ DOMAIN steps
        PROVE  ~ Early(m)' /\ steps'[m].status # "completed"
    <2>1. PICK y \in ToSet(Tail(tasks[t].next)) : y \in Steps /\ steps'[m] = StepInstance(y)
      BY <1>5
    <2>2. steps'[m].status # "completed" /\ steps'[m].step = y
      BY <2>1, NewInstance DEF BaseInv
    <2>3. \E f \in Forks : steps'[m].step \in ToSet(f.branches)
      <3>1. CASE \E f \in Forks : Tail(tasks[t].next) = f.branches
        BY <2>1, <2>2, <3>1
      <3>2. CASE \E z \in Steps : Tail(tasks[t].next) = <<z>>
        <4>1. \A z : Len(<<z>>) = 1
          OBVIOUS
        <4>2. m = n
          BY <1>3, <1>5, <3>2, <4>1
        <4>3. QED
          BY <1>1, <4>2
      <3>3. QED
        BY <1>5, <3>1, <3>2 DEF ChosenInv, Chosen
    <2>4. m \in 1..m
      <3>1. DOMAIN steps' = 1..Len(steps') /\ Len(steps') \in Nat
        BY <1>6 DEF Began
      <3>2. QED
        BY <3>1
    <2>5. QED
      BY <2>2, <2>3, <2>4 DEF Early
  <1>8. QED
    BY <1>5, <1>6, <1>7 DEF Began

LEMMA EarlyAtFork ==
    ASSUME Requests = {}, BaseInv, ChosenInv, CalmInv, OwnInv, OutputInv, InSequence, ~ InSequence',
           NEW t \in DOMAIN tasks, TaskStep(t)
    PROVE  EarlyInv'
  <1>1. Alone(t) /\ Kept /\ Done.pc = "done"
    BY LeavesAlone, KeptByTask, DoneIsDone DEF BaseInv
  <1>2. /\ tasks[t].instance = instance
        /\ \A u \in DOMAIN tasks \ {t} : tasks[u].pc = "done" /\ tasks'[u].pc = "done"
    BY <1>1 DEF CalmInv, Calm, OneAtATime, Active, Alone
  <1>3. /\ Continue(t) /\ tasks[t].pc = "decided" /\ tasks[t].next[1] = "start"
        /\ \A n \in DOMAIN steps' \ DOMAIN steps :
                 ~ Early(n)' /\ steps'[n].status # "completed"
        /\ \A n \in DOMAIN steps : steps'[n] = steps[n]
    BY BranchesStart
  <1>4. instance' = instance /\ tasks'[t] = Done
    BY <1>3, ContinueDoes
  <1>5. \A u \in DOMAIN tasks : Pending(u) = {}
    BY <1>2, <1>3 DEF Pending
  <1>6. ASSUME NEW v, v = instance.variables
        PROVE  Given(v)'
    <2>1. \A n \in DOMAIN steps : Main(n) /\ steps[n].status = "completed" =>
              WithOutput \cap {steps[n].step} \subseteq v
      BY <1>5, <1>6 DEF OutputInv, Calm
    <2>2. QED
      BY <1>3, <2>1 DEF Given, Main
  <1>7. Given(instance.variables)'
    BY <1>4, <1>6 DEF Given
  <1>8. ASSUME NEW u \in DOMAIN tasks', tasks'[u].pc # "done"
        PROVE  /\ tasks'[u].instance = instance' /\ tasks'[u].at \in DOMAIN steps' \ DOMAIN steps
    BY <1>1, <1>2, <1>4, <1>8 DEF Alone, Newborn
  <1>9. ASSUME NEW u \in DOMAIN tasks', tasks'[u].pc # "done"
        PROVE  Given(tasks[u].instance.variables)' /\ ~ Early(tasks[u].at)'
    <2>1. Given(tasks[u].instance.variables)'
      BY <1>7, <1>8, <1>9 DEF Given
    <2>2. ~ Early(tasks[u].at)'
      BY <1>3, <1>8, <1>9 DEF Early
    <2>3. QED
      BY <2>1, <2>2
  <1>10. QED
    BY <1>7, <1>9 DEF EarlyInv, Active

LEMMA EarlyByTask ==
    ASSUME Requests = {}, BaseInv, BaseInv', ChosenInv, CalmInv, OwnInv, OutputInv, EarlyInv,
           NEW t \in DOMAIN tasks, TaskStep(t)
    PROVE  EarlyInv'
  <1>1. CASE InSequence'
    BY <1>1 DEF EarlyInv
  <1>2. CASE InSequence /\ ~ InSequence'
    BY <1>2, EarlyAtFork
  <1>3. CASE ~ InSequence
    <2>1. Alone(t) /\ Kept /\ Done.pc = "done" /\ steps' \in Seq(StepRecord) /\ WorkflowTypeOK'
      BY LeavesAlone, KeptByTask, DoneIsDone DEF BaseInv, WorkflowTypeOK
    <2>2. \A v : Given(v) => Given(v)'
      BY <1>3, GivenStays
    <2>3. /\ Given(instance.variables)
          /\ \A u \in DOMAIN tasks : tasks[u].pc # "done" =>
                /\ Given(tasks[u].instance.variables)
                /\ tasks[u].pc = "handler" => ~ Early(tasks[u].at)
      BY <1>3 DEF EarlyInv, Active
    <2>4. \A v, w : Given(v) /\ v \subseteq w => Given(w)
      BY DEF Given
    <2>5. tasks[t].pc # "done"
      BY <2>1 DEF Alone
    <2>6. \E v : Given(v) /\ v \subseteq instance'.variables
      BY <2>3, <2>5, VariablesBy
    <2>7. Given(instance.variables)'
      <3>1. PICK w : w = instance'.variables
        OBVIOUS
      <3>2. Given(w)'
        BY <2>2, <2>4, <2>6, <3>1
      <3>3. QED
        BY <3>1, <3>2 DEF Given
    <2>8. ASSUME NEW u \in DOMAIN tasks', tasks'[u].pc # "done"
          PROVE  Given(tasks[u].instance.variables)'
      <3>1. CASE tasks'[u].instance = instance'
        BY <2>7, <3>1 DEF Given
      <3>2. CASE \E w \in DOMAIN tasks : tasks'[u].instance = tasks[w].instance /\ tasks[w].pc # "done"
        <4>1. PICK w \in DOMAIN tasks : tasks'[u].instance = tasks[w].instance /\ tasks[w].pc # "done"
          BY <3>2
        <4>2. PICK v : v = tasks[w].instance.variables
          OBVIOUS
        <4>3. Given(v)'
          BY <2>2, <2>3, <4>1, <4>2
        <4>4. QED
          BY <4>1, <4>2, <4>3 DEF Given
      <3>3. QED
        BY <2>1, <2>5, <2>8, <3>1, <3>2 DEF Alone, Newborn
    <2>9. ASSUME NEW u \in DOMAIN tasks', tasks'[u].pc = "handler"
          PROVE  ~ Early(tasks[u].at)'
      <3>1. CASE u \in DOMAIN tasks
        <4>1. tasks'[u].at = tasks[u].at /\ tasks[u].pc = "handler"
          <5>1. CASE u = t
            <6>1. HandlerRetries(t)
              BY <2>9, <5>1, Arrives
            <6>2. QED
              BY <2>9, <5>1, <6>1, HandlerRetriesDoes, RecordStays DEF Failing
          <5>2. QED
            BY <2>1, <2>9, <3>1, <5>1 DEF Alone
        <4>2. tasks[u].at \in DOMAIN steps
          BY <3>1, <4>1 DEF BaseInv, PlaceInv, Placed, Writes
        <4>3. PICK n \in DOMAIN steps : n = tasks[u].at
          BY <4>2
        <4>4. ~ Early(n)
          BY <2>3, <3>1, <4>1, <4>3
        <4>5. ~ Early(n)'
          BY <2>1, <4>4, EarlyStays
        <4>6. QED
          BY <4>1, <4>3, <4>5 DEF Early
      <3>2. CASE u \notin DOMAIN tasks
        <4>1. PICK n \in DOMAIN steps' \ DOMAIN steps : n = tasks'[u].at
          BY <2>1, <2>9, <3>2 DEF Alone, Newborn
        <4>2. ~ Early(n)'
          BY <1>3, <2>1, LateRecords
        <4>3. QED
          BY <4>1, <4>2 DEF Early
      <3>3. QED
        BY <3>1, <3>2
    <2>10. QED
      BY <2>7, <2>8, <2>9 DEF EarlyInv, Active
  <1>4. QED
    BY <1>1, <1>2, <1>3

LEMMA EarlyByAll ==
    ASSUME Requests = {}, BaseInv, BaseInv', ChosenInv, CalmInv, OwnInv, OutputInv, EarlyInv,
           [Next]_vars
    PROVE  EarlyInv'
  <1>1. CASE UNCHANGED vars \/ Tick
    BY <1>1 DEF vars, Tick, EarlyInv, Given, Early, InSequence, FirstMain, Active, Main
  <1>2. CASE StartWorkflow
    <2>1. \A u \in DOMAIN tasks' : Newborn(u, instance') /\ u \notin DOMAIN tasks
      <3>1. tasks = <<>> /\ instance' \in Instance /\ Began(<<FirstStep>>, instance')
            /\ <<FirstStep>> \in Seq(Steps)
        BY <1>2, StartWorkflowDoes
      <3>2. PICK inst \in Instance : inst = instance'
        BY <3>1
      <3>3. \A u \in DOMAIN tasks' \ DOMAIN tasks : Newborn(u, inst)
        BY <3>1, <3>2, NewbornTasks
      <3>4. QED
        BY <3>1, <3>2, <3>3
    <2>2. Given(instance.variables)' /\ \A u \in DOMAIN tasks' : Given(tasks[u].instance.variables)'
      BY <1>2, OutputByStart DEF Given
    <2>3. ~ InSequence' => \A u \in DOMAIN tasks' : tasks'[u].pc = "handler" => ~ Early(tasks[u].at)'
      <3>1. SUFFICES ASSUME ~ InSequence', NEW u \in DOMAIN tasks', tasks'[u].pc = "handler"
                     PROVE  ~ Early(tasks[u].at)'
        OBVIOUS
      <3>2. Len(steps') = 1 /\ steps' \in Seq(StepRecord)
        <4>1. /\ steps = <<>> /\ Began(<<FirstStep>>, instance') /\ <<FirstStep>> \in Seq(Steps)
          BY <1>2, StartWorkflowDoes
        <4>2. Len(<<FirstStep>>) = 1 /\ Len(steps) = 0
          BY <4>1
        <4>3. QED
          BY <4>1, <4>2 DEF Began
      <3>3. PICK f \in Forks, k \in DOMAIN steps' : steps'[k].step \in ToSet(f.branches)
        BY <3>1 DEF InSequence, FirstMain
      <3>4. Done.pc = "done"
        BY DoneIsDone DEF BaseInv
      <3>5. tasks'[u].at \in DOMAIN steps'
        BY <2>1, <3>1, <3>4 DEF Newborn
      <3>6. k \in 1..tasks'[u].at
        BY <3>2, <3>3, <3>5
      <3>7. QED
        BY <3>3, <3>6 DEF Early
    <2>4. QED
      BY <2>2, <2>3 DEF EarlyInv, Active
  <1>3. QED
    BY <1>1, <1>2, EarlyByTask DEF Next

\* Where calls are awaited and no two handlers run beside each other, or there are no
\* calls, whatever the graph and its outputs: a handler is given the outputs of all the
\* steps completed before it began and before any branch.
THEOREM HandlersAreGivenOutputs ==
    ASSUME Orderly
    PROVE  Spec => []HandlersSeeOutputs
  <1>1. Undisturbed
    BY DEF Orderly, Undisturbed
  <1>2. Init => OutputInv /\ EarlyInv
    BY DEF Init, OutputInv, EarlyInv, InSequence, FirstMain
  <1>3. BaseInv /\ BaseInv' /\ ChosenInv /\ CalmInv /\ OwnInv /\ OutputInv /\ EarlyInv
        /\ [Next]_vars => OutputInv' /\ EarlyInv'
    BY OutputByAll, EarlyByAll DEF EarlyInv
  <1>4. BaseInv /\ CalmInv /\ OutputInv /\ EarlyInv => HandlersSeeOutputs
    <2> SUFFICES ASSUME BaseInv, CalmInv, OutputInv, EarlyInv,
                        NEW t \in DOMAIN tasks, tasks[t].pc = "handler",
                        NEW n \in 1..(tasks[t].at - 1), Main(n), Early(n),
                        steps[n].status = "completed", steps[n].step \in WithOutput
                 PROVE  steps[n].step \in tasks[t].instance.variables
      BY DEF HandlersSeeOutputs
    <2>1. tasks[t].at \in DOMAIN steps /\ t \in Active
      BY DEF BaseInv, PlaceInv, Placed, Writes, Active
    <2>2. n \in DOMAIN steps
      BY <2>1, StepsInPlace DEF BaseInv
    <2>3. CASE Calm
      <3>1. /\ tasks[t].instance = instance
            /\ \A u \in DOMAIN tasks : tasks[u].pc # "done" => u = t
        BY <2>1, <2>3 DEF CalmInv, OneAtATime, Active
      <3>2. \A u \in DOMAIN tasks : Pending(u) = {}
        BY <3>1 DEF Pending
      <3>3. QED
        BY <2>2, <2>3, <3>1, <3>2 DEF OutputInv
    <2>4. CASE ~ Calm
      <3>1. Requests = {} /\ ~ InSequence
        BY <2>4 DEF Orderly, Calm
      <3>2. QED
        BY <2>1, <2>2, <3>1 DEF EarlyInv, Given
    <2>5. QED
      BY <2>3, <2>4
  <1>5. QED
    BY <1>1, <1>2, <1>3, <1>4, OwnAlways, PTL DEF Spec

-----------------------------------------------------------------------------
(* Compensation, in order.                                                 *)

\* A step that runs or begins a compensation leaves the other step instances alone.
LEMMA MainStays ==
    ASSUME BaseInv, OwnInv, NEW t \in DOMAIN tasks, TaskStep(t),
           tasks[t].pc \in {"compensating", "undoing"}
    PROVE  \A n \in DOMAIN steps : Main(n) =>
              /\ n \in DOMAIN steps' /\ Main(n)' /\ steps'[n].step = steps[n].step
              /\ steps'[n].status = steps[n].status
              /\ steps'[n].completedAt = steps[n].completedAt
              /\ steps'[n] = steps[n] \/ (tasks[t].next # <<>> /\ n = tasks[t].next[1].at)
  <1>1. TAKE n \in DOMAIN steps
  <1>2. HAVE Main(n)
  <1>3. n \in DOMAIN steps' /\ Main(n)' /\ steps'[n].step = steps[n].step /\ steps[n] \in StepRecord
    BY <1>2, KeptByTask, StepsInPlace DEF Kept, Same, Main, BaseInv
  <1>4. CASE steps'[n] = steps[n]
    BY <1>3, <1>4
  <1>5. CASE Marked1(t, n)
    BY <1>3, <1>5 DEF Marked1, StepRecord
  <1>6. QED
    BY <1>2, <1>3, <1>4, <1>5, Changes DEF Settles, Obeys, Compensates

LEMMA DeclaredStays ==
    ASSUME BaseInv, OwnInv, NEW t \in DOMAIN tasks, TaskStep(t),
           tasks[t].pc \in {"compensating", "undoing"}
    PROVE  /\ \A s : FirstMain(s)' = FirstMain(s)
           /\ Declared' = Declared
           /\ \A s : \A i \in FirstMain(s) : steps'[i].completedAt = steps[i].completedAt
           /\ \A s : Undid(s)' = Undid(s)
           /\ \A s : \A i \in Undid(s) : steps'[i].completedAt = steps[i].completedAt
           /\ \A n \in Declared : steps'[n].completedAt = steps[n].completedAt
                                  /\ steps'[n].step = steps[n].step
  <1>1. \A n \in DOMAIN steps' : Main(n)' => n \in DOMAIN steps /\ Main(n)
    <2>1. TAKE n \in DOMAIN steps'
    <2>2. HAVE Main(n)'
    <2>3. CASE n \in DOMAIN steps
      BY <2>2, <2>3, KeptByTask DEF Kept, Same, Main
    <2>4. CASE n \notin DOMAIN steps
      <3>1. CASE StartCompensation(t)
        <4>1. /\ steps' \in Seq(StepRecord) /\ Len(steps') = Len(steps) + 1
              /\ steps'[Len(steps) + 1] = Compensation(t) /\ tasks[t].next # <<>>
          BY <3>1, StartCompensationDoes, Zenon
        <4>2. n = Len(steps) + 1
          BY <2>4, <4>1, StepsInPlace DEF BaseInv
        <4>3. QED
          BY <2>2, <4>1, <4>2, NextToUndo DEF Original, Main
      <3>2. CASE EndCompensation(t)
        <4>1. steps' \in Seq(StepRecord) /\ Len(steps') = Len(steps)
          BY <3>2, EndCompensationDoes, Zenon
        <4>2. QED
          BY <2>4, <4>1, StepsInPlace DEF BaseInv
      <3>3. CASE FailInstance(t)
        BY <2>4, <3>3 DEF FailInstance
      <3>4. QED
        BY <3>1, <3>2, <3>3, EnterLockDoes, Zenon DEF TaskStep, HandlerSucceeds, HandlerRetries, HandlerFails, CallAdvance,
           MergeOutput, Decide, Continue, ScanCompleted, ChangeInstance,
           DispatchVariables, DispatchStart, ChangeStep
    <2>5. QED
      BY <2>3, <2>4
  <1>2. \A n \in DOMAIN steps : Main(n) =>
              /\ n \in DOMAIN steps' /\ Main(n)' /\ steps'[n].step = steps[n].step
              /\ steps'[n].status = steps[n].status
              /\ steps'[n].completedAt = steps[n].completedAt
    BY MainStays
  <1>3. QED
    BY <1>1, <1>2 DEF Undid, FirstMain, Declared

LEMMA OrderedStays ==
    ASSUME BaseInv, OwnInv, NEW t \in DOMAIN tasks, TaskStep(t),
           tasks[t].pc \in {"compensating", "undoing"},
           NEW next, Ordered(next), DOMAIN next \subseteq Nat,
           \A m \in DOMAIN steps' \ DOMAIN steps : \A p \in DOMAIN next :
              \E i \in Undid(steps'[m].compensationOf) :
                 steps[i].completedAt >= steps[next[p].at].completedAt
    PROVE  Ordered(next)'
  <1>1. /\ \A s : Undid(s)' = Undid(s)
        /\ Declared' = Declared
        /\ \A s : \A i \in Undid(s) : steps'[i].completedAt = steps[i].completedAt
        /\ \A n \in Declared : steps'[n].completedAt = steps[n].completedAt
    BY DeclaredStays
  <1>2. \A p \in DOMAIN next : next[p].at \in Declared' /\
            steps'[next[p].at].completedAt = steps[next[p].at].completedAt
    BY <1>1 DEF Ordered
  <1>3. ASSUME NEW m \in DOMAIN steps', ~ Main(m)', NEW p \in DOMAIN next
        PROVE  \E i \in Undid(steps[m].compensationOf)' :
                  steps'[i].completedAt >= steps'[next[p].at].completedAt
    <2>1. \E i \in Undid(steps'[m].compensationOf) :
                  steps[i].completedAt >= steps[next[p].at].completedAt
      <3>1. CASE m \in DOMAIN steps
        <4>1. Same(steps'[m], steps[m])
          BY <3>1, KeptByTask DEF Kept
        <4>2. ~ Main(m) /\ steps'[m].compensationOf = steps[m].compensationOf
          BY <1>3, <4>1 DEF Same, Main
        <4>3. QED
          BY <3>1, <4>2 DEF Ordered
      <3>2. QED
        BY <3>1
    <2>2. PICK s : s = steps'[m].compensationOf
      OBVIOUS
    <2>3. PICK i \in Undid(s) : steps[i].completedAt >= steps[next[p].at].completedAt
      BY <2>1, <2>2
    <2>4. Undid(steps[m].compensationOf)' = Undid(s)'
      BY <2>2 DEF Undid, FirstMain, Declared, Main
    <2>5. steps'[i].completedAt = steps[i].completedAt /\ i \in Undid(s)'
      BY <1>1, <2>3
    <2>6. QED
      BY <1>2, <2>3, <2>4, <2>5
  <1>4. \A p, q \in DOMAIN next : p < q =>
          /\ next[p].at # next[q].at
          /\ steps'[next[p].at].completedAt >= steps'[next[q].at].completedAt
    BY <1>2 DEF Ordered
  <1>5. QED
    BY <1>2, <1>3, <1>4 DEF Ordered

LEMMA OrderedTail ==
    ASSUME NEW next, NEW rest, Ordered(next), DOMAIN next \subseteq Nat, DOMAIN rest \subseteq Nat,
           \A p \in DOMAIN rest : p + 1 \in DOMAIN next /\ rest[p] = next[p + 1]
    PROVE  Ordered(rest)
  BY DEF Ordered

LEMMA OrderedScan ==
    ASSUME BaseInv, NEW t \in DOMAIN tasks, ScanCompleted(t), \A n \in DOMAIN steps : Main(n),
           NEW next, next = tasks'[t].next
    PROVE  Ordered(next)'
  <1>1. /\ \A p \in DOMAIN next : next[p].at \in Undoable
        /\ \A p, q \in DOMAIN next : p < q => Later(next[p].at, next[q].at)
        /\ steps' = steps
    BY ScanCompletedDoes, Zenon
  <1>2. Undoable \subseteq Declared /\ Undoable \subseteq DOMAIN steps
    BY DEF Undoable, Declared
  <1>3. \A m, n \in DOMAIN steps : Later(m, n) =>
            m # n /\ steps[m].completedAt >= steps[n].completedAt
    BY StepsInPlace DEF Later, BaseInv
  <1>4. Ordered(next)
    BY <1>1, <1>2, <1>3 DEF Ordered
  <1>5. QED
    BY <1>1, <1>4 DEF Ordered, Declared, Undid, FirstMain, Main

LEMMA NewCompensation ==
    ASSUME BaseInv, NEW t \in DOMAIN tasks, StartCompensation(t), Ordered(tasks[t].next)
    PROVE  LET a == tasks[t].next[1].at
           IN  /\ tasks[t].pc = "compensating" /\ tasks[t].next # <<>> /\ 1 \in DOMAIN tasks[t].next
               /\ DOMAIN tasks[t].next = 1..Len(tasks[t].next) /\ Len(tasks[t].next) \in Nat
               /\ a \in Declared /\ a \in Undid(steps[a].step)
               /\ DOMAIN steps' = DOMAIN steps \cup {Len(steps) + 1}
               /\ Len(steps) + 1 \notin DOMAIN steps
               /\ \A n \in DOMAIN steps : n < Len(steps) + 1
               /\ steps'[Len(steps) + 1] = Compensation(t)
               /\ steps'[Len(steps) + 1].compensationOf = steps[a].step
               /\ steps[a].step # NoStep
               /\ \A p \in DOMAIN tasks[t].next :
                     steps[a].completedAt >= steps[tasks[t].next[p].at].completedAt
               /\ \A m \in DOMAIN steps : ~ Main(m) =>
                     \E i \in Undid(steps[m].compensationOf) :
                        steps[i].completedAt >= steps[a].completedAt
  <1> DEFINE a == tasks[t].next[1].at
             next == tasks[t].next
  <1>1. /\ tasks[t].pc = "compensating" /\ next # <<>>
        /\ steps' \in Seq(StepRecord) /\ Len(steps') = Len(steps) + 1
        /\ steps'[Len(steps) + 1] = Compensation(t)
    BY StartCompensationDoes, Zenon
  <1>2. /\ 1 \in DOMAIN next /\ DOMAIN next = 1..Len(next) /\ Len(next) \in Nat
        /\ Same(steps[a], next[1].record) /\ Compensation(t).compensationOf = next[1].record.step
    BY <1>1, NextToUndo
  <1>3. a \in Declared
    BY <1>2 DEF Ordered
  <1>4. a \in DOMAIN steps /\ a \in Undid(steps[a].step)
    BY <1>3 DEF Undid, Declared, FirstMain
  <1>5. \A n \in DOMAIN steps : n \in Nat /\ steps[n].completedAt \in Nat /\ steps[n].step \in Steps
    BY StepsInPlace DEF BaseInv
  <1>6. \A p \in DOMAIN next : steps[a].completedAt >= steps[next[p].at].completedAt
    <2>1. TAKE p \in DOMAIN next
    <2>2. CASE p = 1
      BY <1>4, <1>5, <2>2
    <2>3. CASE p # 1
      <3>1. 1 < p
        BY <1>2, <2>3
      <3>2. QED
        BY <1>2, <3>1 DEF Ordered
    <2>4. QED
      BY <2>2, <2>3
  <1>7. /\ DOMAIN steps' = DOMAIN steps \cup {Len(steps) + 1} /\ Len(steps) + 1 \notin DOMAIN steps
        /\ \A n \in DOMAIN steps : n < Len(steps) + 1
    <2>1. DOMAIN steps' = 1..(Len(steps) + 1)
      BY <1>1
    <2>2. DOMAIN steps = 1..Len(steps) /\ Len(steps) \in Nat
      BY StepsInPlace DEF BaseInv
    <2> HIDE DEF a, next
    <2>3. QED
      BY <2>1, <2>2
  <1>8. steps'[Len(steps) + 1].compensationOf = steps[a].step
    BY <1>1, <1>2 DEF Same
  <1>9. steps[a].step # NoStep
    BY <1>4, <1>5, FirstIsFirst
  <1>10. \A m \in DOMAIN steps : ~ Main(m) =>
                     \E i \in Undid(steps[m].compensationOf) :
                        steps[i].completedAt >= steps[a].completedAt
    BY <1>2 DEF Ordered
  <1>11. QED
    BY <1>1, <1>2, <1>3, <1>4, <1>6, <1>7, <1>8, <1>9, <1>10

LEMMA ByTimeStays ==
    ASSUME BaseInv, OwnInv, InSequence, NEW t \in DOMAIN tasks, TaskStep(t),
           tasks[t].pc \in {"compensating", "undoing"},
           ByTime, StartCompensation(t) => Ordered(tasks[t].next)
    PROVE  ByTime'
  <1>1. /\ \A s : Undid(s)' = Undid(s)
        /\ \A s : \A i \in Undid(s) : steps'[i].completedAt = steps[i].completedAt
    BY DeclaredStays
  <1>2. \A n \in DOMAIN steps : Same(steps'[n], steps[n])
    BY KeptByTask DEF Kept
  <1>3. ASSUME NEW m \in DOMAIN steps', NEW n \in DOMAIN steps', ~ Main(m)', ~ Main(n)', m < n
        PROVE  \E i \in Undid(steps[m].compensationOf)', j \in Undid(steps[n].compensationOf)' :
                  steps'[i].completedAt >= steps'[j].completedAt
    <2>1. PICK s, r : s = steps'[m].compensationOf /\ r = steps'[n].compensationOf
      OBVIOUS
    <2>2. \E i \in Undid(s), j \in Undid(r) : steps[i].completedAt >= steps[j].completedAt
      <3>1. CASE n \in DOMAIN steps
        <4>1. m \in DOMAIN steps
          BY <1>3, <3>1, KeptByTask, StepsInPlace DEF BaseInv, WorkflowTypeOK
        <4>2. ~ Main(m) /\ ~ Main(n) /\ s = steps[m].compensationOf /\ r = steps[n].compensationOf
          BY <1>2, <1>3, <2>1, <3>1, <4>1 DEF Main, Same
        <4>3. QED
          BY <1>3, <3>1, <4>1, <4>2 DEF ByTime
      <3>2. CASE n \notin DOMAIN steps
        <4>1. StartCompensation(t)
          <5>1. ~ StartCompensation(t) => Original(steps'[n])
            BY <3>2, StepsAdded
          <5>2. QED
            BY <1>3, <5>1 DEF Main, Original
        <4> DEFINE a == tasks[t].next[1].at
        <4>2. /\ a \in Undid(steps[a].step) /\ steps'[Len(steps) + 1].compensationOf = steps[a].step
              /\ DOMAIN steps' = DOMAIN steps \cup {Len(steps) + 1}
              /\ \A k \in DOMAIN steps : ~ Main(k) =>
                    \E i \in Undid(steps[k].compensationOf) :
                       steps[i].completedAt >= steps[a].completedAt
          BY <4>1, NewCompensation
        <4>3. n = Len(steps) + 1 /\ m \in DOMAIN steps
          BY <1>3, <3>2, <4>2, StepsInPlace DEF BaseInv
        <4>4. ~ Main(m) /\ s = steps[m].compensationOf /\ r = steps[a].step
          BY <1>2, <1>3, <2>1, <4>2, <4>3 DEF Main, Same
        <4> HIDE DEF a
        <4>5. QED
          BY <4>2, <4>3, <4>4
      <3>3. QED
        BY <3>1, <3>2
    <2>3. PICK i \in Undid(s), j \in Undid(r) : steps[i].completedAt >= steps[j].completedAt
      BY <2>2
    <2>4. /\ Undid(steps[m].compensationOf)' = Undid(s)'
          /\ Undid(steps[n].compensationOf)' = Undid(r)'
      BY <2>1 DEF Undid, FirstMain, Declared, Main
    <2>5. /\ steps'[i].completedAt = steps[i].completedAt /\ i \in Undid(s)'
          /\ steps'[j].completedAt = steps[j].completedAt /\ j \in Undid(r)'
      BY <1>1, <2>3
    <2>6. QED
      BY <2>3, <2>4, <2>5
  <1>4. QED
    BY <1>3 DEF ByTime

\* Without calls and branches, the step of the only task of a running instance.
LEMMA SoleTask ==
    ASSUME Requests = {}, BaseInv, CalmInv, OwnInv, OrderInv, NEW t \in DOMAIN tasks, TaskStep(t),
           InSequence'
    PROVE  /\ InSequence /\ instance.status = "running" /\ tasks[t].instance = instance
           /\ tasks[t].pc \notin {"done", "read", "given"}
           /\ \A u \in DOMAIN tasks \ {t} : tasks[u].pc = "done" /\ tasks'[u] = tasks[u]
           /\ \A u \in DOMAIN tasks' \ DOMAIN tasks : tasks'[u].pc \in {"done", "handler"}
           /\ t \in DOMAIN tasks'
  <1>1. Kept /\ Alone(t) /\ Owned(t)
    BY KeptByTask, LeavesAlone DEF OwnInv
  <1>2. InSequence /\ t \in Active /\ OneAtATime
    BY <1>1, StaysInSequence DEF Alone, Active, CalmInv, Calm
  <1>3. instance.status = "running" /\ tasks[t].instance = instance
    BY <1>2 DEF OrderInv, CalmInv, Calm
  <1>4. Done.pc = "done"
    BY DoneIsDone DEF BaseInv
  <1>5. \A u \in DOMAIN tasks \ {t} : tasks[u].pc = "done"
    BY <1>2 DEF OneAtATime, Active
  <1>6. QED
    BY <1>1, <1>2, <1>3, <1>4, <1>5 DEF Alone, Newborn, Owned, Kept

LEMMA RunsByTask ==
    ASSUME Requests = {}, BaseInv, CalmInv, OwnInv, OrderInv, NEW t \in DOMAIN tasks, TaskStep(t),
           InSequence'
    PROVE  Active' # {} => instance'.status = "running"
  <1>1. Alone(t)
    BY LeavesAlone
  <1>2. ASSUME NEW u \in DOMAIN tasks', tasks'[u].pc # "done"
        PROVE  instance'.status = "running"
    <2>1. Done.pc = "done"
      BY DoneIsDone DEF BaseInv
    <2>2. instance.status = "running" /\ tasks[t].instance = instance
          /\ \A v \in DOMAIN tasks \ {t} : tasks[v].pc = "done" /\ tasks'[v] = tasks[v]
      BY SoleTask
    <2>3. CASE u \in DOMAIN tasks
      BY <1>1, <1>2, <2>1, <2>2, <2>3 DEF Alone
    <2>4. CASE u \notin DOMAIN tasks
      BY <1>1, <2>2, <2>4 DEF Alone
    <2>5. QED
      BY <2>3, <2>4
  <1>3. QED
    BY <1>2 DEF Active

\* Before a compensation begins there is nothing compensated, and no compensation.
LEMMA CleanByTask ==
    ASSUME Requests = {}, BaseInv, CalmInv, OwnInv, OrderInv, NEW t \in DOMAIN tasks, TaskStep(t),
           InSequence', tasks[t].pc \notin {"compensating", "undoing"}
    PROVE  /\ \A n \in DOMAIN steps : Main(n) /\ ~ steps[n].compensated
           /\ \A n \in DOMAIN steps' : Main(n)' /\ ~ steps'[n].compensated
  <1>1. /\ InSequence /\ instance.status = "running"
        /\ tasks[t].pc \notin {"done", "read", "given"}
        /\ \A u \in DOMAIN tasks \ {t} : tasks[u].pc = "done"
    BY SoleTask
  <1>2. Compensating = {}
    BY <1>1 DEF Compensating
  <1>3. \A n \in DOMAIN steps : Main(n) /\ ~ steps[n].compensated
    BY <1>1, <1>2 DEF OrderInv
  <1>4. ASSUME NEW n \in DOMAIN steps'
        PROVE  Main(n)' /\ ~ steps'[n].compensated
    <2>1. CASE n \in DOMAIN steps
      <3>1. steps'[n] = steps[n] \/ Settles(t, n)
        BY <1>1, <2>1, Changes DEF Compensates, Obeys, Marked1
      <3>2. Main(n)'
        BY <1>3, <2>1, KeptByTask DEF Kept, Same, Main
      <3>3. QED
        BY <1>3, <2>1, <3>1, <3>2 DEF Settles
    <2>2. CASE n \notin DOMAIN steps
      <3>1. ~ StartCompensation(t)
        BY StartCompensationDoes, Zenon
      <3>2. \E y \in Steps : steps'[n] = StepInstance(y)
        BY <2>2, <3>1, StartsSteps
      <3>3. QED
        BY <3>2, NewInstance DEF BaseInv, Main, Original
    <2>3. QED
      BY <2>1, <2>2
  <1>5. QED
    BY <1>3, <1>4

LEMMA OrderedByTask ==
    ASSUME Requests = {}, BaseInv, CalmInv, OwnInv, OrderInv, NEW t \in DOMAIN tasks, TaskStep(t),
           InSequence', tasks'[t].pc \in {"compensating", "undoing"}
    PROVE  Ordered(tasks[t].next)'
  <1>1. PICK next, old : next = tasks'[t].next /\ old = tasks[t].next
    OBVIOUS
  <1>2. Ordered(next)' => Ordered(tasks[t].next)'
    BY <1>1 DEF Ordered
  <1>3. CASE ScanCompleted(t)
    <2>1. tasks[t].pc = "failed"
      BY <1>3, ScanCompletedDoes, Zenon
    <2>2. \A n \in DOMAIN steps : Main(n)
      BY <2>1, CleanByTask
    <2>3. QED
      BY <1>1, <1>2, <1>3, <2>2, OrderedScan
  <1>4. tasks[t].pc \in {"compensating", "undoing"} => Ordered(old)
    <2>1. InSequence
      BY SoleTask
    <2>2. QED
      BY <1>1, <2>1 DEF OrderInv, Compensating
  <1>5. ASSUME tasks[t].pc \in {"compensating", "undoing"}, old # <<>>
        PROVE  /\ DOMAIN old \subseteq Nat /\ DOMAIN Tail(old) \subseteq Nat
               /\ Ordered(Tail(old))
               /\ DOMAIN Tail(old) \subseteq DOMAIN old
    <2> DEFINE rest == Tail(old)
    <2>1. old \in Seq(Kinds \cup Steps \cup Undo)
      BY <1>1, TaskParts DEF BaseInv
    <2>2. /\ DOMAIN old \subseteq Nat /\ DOMAIN rest \subseteq Nat
          /\ \A p \in DOMAIN rest : p + 1 \in DOMAIN old /\ rest[p] = old[p + 1] /\ p \in DOMAIN old
      BY <1>5, <2>1
    <2> HIDE DEF rest
    <2>3. Ordered(rest)
      BY <1>4, <1>5, <2>2, OrderedTail
    <2>4. QED
      BY <2>2, <2>3 DEF rest
  <1>6. CASE StartCompensation(t)
    <2>1. /\ tasks[t].pc = "compensating" /\ old # <<>>
          /\ \/ next = old
             \/ next = Tail(old)
      <3>1. DOMAIN tasks[t] = {"op", "pc", "at", "record", "instance", "output", "next"}
        BY TaskFields DEF BaseInv
      <3>2. /\ tasks[t].pc = "compensating" /\ tasks[t].next # <<>>
            /\ \/ tasks'[t] = [tasks[t] EXCEPT !.pc = "undoing", !.record = Compensation(t),
                                                 !.at = Len(steps) + 1]
               \/ tasks'[t] = [tasks[t] EXCEPT !.next = Tail(tasks[t].next)]
        BY <1>6, StartCompensationDoes, Zenon
      <3>3. QED
        BY <1>1, <3>1, <3>2
    <2>2. Ordered(old) /\ DOMAIN old \subseteq Nat
      BY <1>4, <1>5, <2>1
    <2>3. /\ Ordered(next) /\ DOMAIN next \subseteq Nat
          /\ \A p \in DOMAIN next : \E q \in DOMAIN old : next[p] = old[q]
      <3>1. \A p \in DOMAIN Tail(old) : \E q \in DOMAIN old : Tail(old)[p] = old[q]
        <4>1. old \in Seq(Kinds \cup Steps \cup Undo)
          BY <1>1, TaskParts DEF BaseInv
        <4>2. \A p \in DOMAIN Tail(old) : p + 1 \in DOMAIN old /\ Tail(old)[p] = old[p + 1]
          BY <2>1, <4>1
        <4>3. QED
          BY <4>2
      <3>2. QED
        BY <1>5, <2>1, <2>2, <3>1
    <2> DEFINE a == old[1].at
               k == Len(steps) + 1
    <2>4. /\ a \in Undid(steps[a].step)
          /\ DOMAIN steps' = DOMAIN steps \cup {k}
          /\ steps'[k].compensationOf = steps[a].step
          /\ \A p \in DOMAIN old : steps[a].completedAt >= steps[old[p].at].completedAt
      BY <1>1, <1>6, <2>2, NewCompensation
    <2> HIDE DEF a, k
    <2>5. \A p \in DOMAIN next : steps[a].completedAt >= steps[next[p].at].completedAt
      BY <2>3, <2>4
    <2>6. \A m \in DOMAIN steps' \ DOMAIN steps : \A p \in DOMAIN next :
              \E i \in Undid(steps'[m].compensationOf) :
                 steps[i].completedAt >= steps[next[p].at].completedAt
      BY <2>4, <2>5
    <2>7. Ordered(next)'
      BY <2>1, <2>3, <2>6, OrderedStays
    <2>8. QED
      BY <1>2, <2>7
  <1>7. CASE EndCompensation(t)
    <2>1. /\ tasks[t].pc = "undoing" /\ old # <<>> /\ next = Tail(old)
          /\ steps' \in Seq(StepRecord) /\ Len(steps') = Len(steps)
      <3>1. DOMAIN tasks[t] = {"op", "pc", "at", "record", "instance", "output", "next"}
        BY TaskFields DEF BaseInv
      <3>2. /\ tasks[t].pc = "undoing" /\ tasks[t].next # <<>>
            /\ tasks'[t] = [tasks[t] EXCEPT !.pc = "compensating", !.next = Tail(tasks[t].next)]
            /\ steps' \in Seq(StepRecord) /\ Len(steps') = Len(steps)
        BY <1>7, EndCompensationDoes, Zenon
      <3>3. QED
        BY <1>1, <3>1, <3>2
    <2>2. Ordered(next) /\ DOMAIN next \subseteq Nat
      BY <1>5, <2>1
    <2>3. DOMAIN steps' = DOMAIN steps
      BY <2>1, StepsInPlace DEF BaseInv
    <2>4. Ordered(next)'
      BY <2>1, <2>2, <2>3, OrderedStays
    <2>5. QED
      BY <1>2, <2>4
  <1>8. QED
    BY <1>3, <1>6, <1>7, Arrives

LEMMA OrderByTask ==
    ASSUME Requests = {}, BaseInv, CalmInv, OwnInv, OrderInv, NEW t \in DOMAIN tasks, TaskStep(t)
    PROVE  OrderInv'
  <1> SUFFICES ASSUME InSequence'
               PROVE  OrderInv'
    BY DEF OrderInv
  <1>1. /\ InSequence /\ instance.status = "running" /\ tasks[t].instance = instance
        /\ \A u \in DOMAIN tasks \ {t} : tasks[u].pc = "done" /\ tasks'[u] = tasks[u]
        /\ \A u \in DOMAIN tasks' \ DOMAIN tasks : tasks'[u].pc \in {"done", "handler"}
        /\ t \in DOMAIN tasks'
    BY SoleTask
  <1>2. Active' # {} => instance'.status = "running"
    BY RunsByTask
  <1>3. ASSUME Compensating' = {}, instance'.status # "failed"
        PROVE  \A n \in DOMAIN steps' : Main(n)' /\ ~ steps'[n].compensated
    <2>1. tasks'[t].pc \notin {"compensating", "undoing"}
      BY <1>1, <1>3 DEF Compensating
    <2>2. ~ StartCompensation(t) /\ ~ EndCompensation(t)
      BY <2>1, Lands
    <2>3. ~ FailInstance(t)
      <3>1. tasks[t].instance \in Instance
        BY TaskParts DEF BaseInv
      <3>2. instance' = [tasks[t].instance EXCEPT !.status = "failed"] => instance'.status = "failed"
        BY <3>1 DEF Instance
      <3>3. QED
        BY <1>1, <1>3, <3>2, FailInstanceDoes
    <2>4. tasks[t].pc \notin {"compensating", "undoing"}
      BY <2>2, <2>3, EnterLockDoes, Zenon DEF TaskStep, HandlerSucceeds, HandlerRetries, HandlerFails, CallAdvance,
           MergeOutput, Decide, Continue, ScanCompleted, ChangeInstance,
           DispatchVariables, DispatchStart, ChangeStep
    <2>5. QED
      BY <2>4, CleanByTask
  <1>4. ASSUME NEW u \in Compensating'
        PROVE  Ordered(tasks[u].next)'
    <2>1. u = t /\ tasks'[t].pc \in {"compensating", "undoing"}
      BY <1>1, <1>4 DEF Compensating
    <2>2. QED
      BY <2>1, OrderedByTask
  <1>5. ByTime'
    <2>1. CASE tasks[t].pc \in {"compensating", "undoing"}
      BY <1>1, <2>1, ByTimeStays DEF OrderInv, Compensating
    <2>2. CASE tasks[t].pc \notin {"compensating", "undoing"}
      <3>1. \A n \in DOMAIN steps' : Main(n)'
        BY <2>2, CleanByTask
      <3>2. QED
        BY <3>1 DEF ByTime
    <2>3. QED
      BY <2>1, <2>2
  <1>6. QED
    BY <1>2, <1>3, <1>4, <1>5 DEF OrderInv

LEMMA OrderByStart ==
    ASSUME BaseInv, StartWorkflow
    PROVE  OrderInv'
  <1> DEFINE ids == <<FirstStep>>
  <1>1. /\ steps = <<>> /\ tasks = <<>> /\ ids \in Seq(Steps) /\ Began(ids, instance')
        /\ instance' \in Instance /\ instance' = [instance EXCEPT !.status = "running"]
    BY StartWorkflowDoes
  <1>2. PICK inst \in Instance : inst = instance'
    BY <1>1
  <1>3. inst.status = "running"
    BY <1>1, <1>2 DEF BaseInv, WorkflowTypeOK, Instance
  <1> HIDE DEF ids
  <1>4. \A u \in DOMAIN tasks' : tasks'[u].pc \in {"done", "handler"}
    <2>1. Done.pc = "done"
      BY DoneIsDone DEF BaseInv
    <2>2. QED
      BY <1>1, <1>2, <2>1, NewbornTasks DEF Newborn
  <1>5. \A n \in DOMAIN steps' : Main(n)' /\ ~ steps'[n].compensated
    <2>1. \A n \in DOMAIN steps' \ DOMAIN steps : Original(steps'[n]) /\ ~ steps'[n].compensated
      BY <1>1, <1>2, Newcomers, NewInstance DEF BaseInv
    <2>2. QED
      BY <1>1, <2>1 DEF Main, Original
  <1>6. Compensating' = {}
    BY <1>4 DEF Compensating
  <1>7. QED
    BY <1>2, <1>3, <1>5, <1>6 DEF OrderInv, ByTime

LEMMA OrderByAll ==
    ASSUME Requests = {}, BaseInv, CalmInv, OwnInv, OrderInv, [Next]_vars
    PROVE  OrderInv'
  <1>1. CASE UNCHANGED vars \/ Tick
    <2>1. UNCHANGED <<instance, steps, tasks>>
      BY <1>1 DEF vars, Tick
    <2>2. QED
      BY <2>1 DEF OrderInv, InSequence, Undid, FirstMain, Main, Active, Compensating, Ordered, Declared,
                  ByTime
  <1>2. QED
    BY <1>1, OrderByStart, OrderByTask DEF Next

LEMMA RisingByTask ==
    ASSUME Requests = {}, BaseInv, OwnInv, LastInv, RisingInv, NEW t \in DOMAIN tasks, TaskStep(t)
    PROVE  RisingInv'
  <1>1. Kept /\ (InSequence' => InSequence) /\ tasks[t].pc \notin {"read", "given"}
    BY KeptByTask, StaysInSequence DEF OwnInv, Owned
  <1>2. clock' = clock /\ clock \in Nat
    <2>1. clock' = clock
      BY Zenon DEF TaskStep, HandlerSucceeds, HandlerRetries, HandlerFails, CallAdvance, EnterLock,
         MergeOutput, Decide, Continue, ScanCompleted, StartCompensation, EndCompensation,
         FailInstance, ChangeInstance, DispatchVariables, DispatchStart, ChangeStep
    <2>2. QED
      BY <2>1 DEF BaseInv, WorkflowTypeOK
  <1>3. ASSUME NEW n \in DOMAIN steps', Main(n)', steps'[n].status = "completed"
        PROVE  /\ n \in DOMAIN steps /\ Main(n)
               /\ \/ steps[n].status = "completed" /\ steps'[n].completedAt = steps[n].completedAt
                  \/ /\ steps'[n].completedAt = clock
                     /\ InSequence => n = Len(steps)
    <2>1. CASE n \in DOMAIN steps /\ steps[n].status = "completed" /\ Main(n)
               /\ steps'[n].completedAt = steps[n].completedAt
      BY <2>1
    <2>2. CASE n = tasks[t].at /\ n \in DOMAIN steps /\ (HandlerSucceeds(t) \/ ChangeStep(t))
      <3>1. HandlerSucceeds(t)
        BY <1>1, <2>2 DEF ChangeStep
      <3>2. /\ tasks[t].pc = "handler" /\ steps'[n] = tasks'[t].record
            /\ tasks'[t].record = [tasks[t].record EXCEPT !.status = "completed", !.completedAt = clock]
        BY <2>2, <3>1, HandlerSucceedsDoes, Zenon
      <3>3. steps'[n].completedAt = clock
        BY <3>2, TaskParts DEF BaseInv, StepRecord
      <3>4. InSequence => n = Len(steps)
        BY <2>2, <3>2 DEF LastInv, AtLast, Active
      <3>5. Main(n)
        BY <1>1, <1>3, <2>2 DEF Kept, Same, Main
      <3>6. QED
        BY <2>2, <3>3, <3>4, <3>5
    <2>3. QED
      BY <1>3, <2>1, <2>2, CompletedBy
  <1>4. ASSUME NEW n \in DOMAIN steps', Main(n)', steps'[n].status = "completed"
        PROVE  steps'[n].completedAt <= clock'
    BY <1>2, <1>3, <1>4 DEF RisingInv
  <1>5. ASSUME InSequence', NEW m \in DOMAIN steps', NEW n \in DOMAIN steps', m < n, Main(m)', Main(n)',
               steps'[m].status = "completed", steps'[n].status = "completed"
        PROVE  steps'[m].completedAt <= steps'[n].completedAt
    <2>1. m \in DOMAIN steps /\ n \in DOMAIN steps /\ n <= Len(steps)
          /\ m \in Nat /\ n \in Nat /\ Len(steps) \in Nat
      BY <1>3, <1>5, StepsInPlace DEF BaseInv
    <2>2. steps[m].status = "completed" /\ steps'[m].completedAt = steps[m].completedAt /\ Main(m)
      BY <1>1, <1>3, <1>5, <2>1
    <2>3. CASE steps[n].status = "completed" /\ steps'[n].completedAt = steps[n].completedAt
      BY <1>1, <1>3, <1>5, <2>1, <2>2, <2>3 DEF RisingInv
    <2>4. CASE steps'[n].completedAt = clock
      BY <2>1, <2>2, <2>4 DEF RisingInv
    <2>5. QED
      BY <1>3, <1>5, <2>3, <2>4
  <1>6. QED
    BY <1>4, <1>5 DEF RisingInv

LEMMA RisingByAll ==
    ASSUME Requests = {}, BaseInv, OwnInv, LastInv, RisingInv, [Next]_vars
    PROVE  RisingInv'
  <1>1. CASE UNCHANGED vars
    BY <1>1 DEF vars, RisingInv, InSequence, FirstMain, Main
  <1>2. CASE Tick
    <2>1. UNCHANGED steps /\ clock' = clock + 1 /\ clock \in Nat
          /\ \A n \in DOMAIN steps : steps[n].completedAt \in Nat
      BY <1>2, StepsInPlace DEF Tick, BaseInv, WorkflowTypeOK
    <2>2. QED
      BY <2>1 DEF RisingInv, InSequence, FirstMain, Main
  <1>3. CASE StartWorkflow
    BY <1>3, OutputByStart DEF RisingInv
  <1>4. QED
    BY <1>1, <1>2, <1>3, RisingByTask DEF Next

\* Without calls, whatever the graph: as long as no branches were started, compensations
\* begin in the reverse of the order of execution, except among steps that were completed
\* in the same instant.
THEOREM CompensationsGoBack ==
    ASSUME Requests = {}
    PROVE  Spec => []CompensationReversed
  <1>1. Init => OrderInv /\ RisingInv
    BY DEF Init, OrderInv, RisingInv, Active, Compensating, ByTime
  <1>2. BaseInv /\ CalmInv /\ OwnInv /\ LastInv /\ OrderInv /\ RisingInv /\ [Next]_vars =>
           OrderInv' /\ RisingInv'
    BY OrderByAll, RisingByAll
  <1>3. BaseInv /\ OrderInv /\ RisingInv => CompensationReversed
    <2> SUFFICES ASSUME BaseInv, OrderInv, RisingInv, InSequence,
                        NEW m \in DOMAIN steps, NEW n \in DOMAIN steps, ~ Main(m), ~ Main(n), m < n
                 PROVE  \E i \in FirstMain(steps[m].compensationOf),
                           j \in FirstMain(steps[n].compensationOf) :
                           i > j \/ steps[i].completedAt = steps[j].completedAt
      BY DEF CompensationReversed
    <2>1. PICK i \in Undid(steps[m].compensationOf), j \in Undid(steps[n].compensationOf) :
             steps[i].completedAt >= steps[j].completedAt
      BY DEF OrderInv, ByTime
    <2>2. /\ i \in FirstMain(steps[m].compensationOf) /\ j \in FirstMain(steps[n].compensationOf)
          /\ i \in DOMAIN steps /\ j \in DOMAIN steps /\ Main(i) /\ Main(j)
          /\ steps[i].status = "completed" /\ steps[j].status = "completed"
      BY DEF Undid, Declared
    <2>3. /\ i \in Nat /\ j \in Nat
          /\ steps[i].completedAt \in Nat /\ steps[j].completedAt \in Nat
      BY <2>2, StepsInPlace DEF BaseInv
    <2>4. i < j => steps[i].completedAt <= steps[j].completedAt
      BY <2>2 DEF RisingInv
    <2>5. i > j \/ steps[i].completedAt = steps[j].completedAt
      BY <2>1, <2>3, <2>4
    <2>6. QED
      BY <2>2, <2>5
  <1>4. Undisturbed
    BY DEF Undisturbed
  <1>5. QED
    BY <1>1, <1>2, <1>3, <1>4, OwnAlways, LastAlways, PTL DEF Spec

-----------------------------------------------------------------------------
(* Compensation, complete.                                                 *)

\* Without branches one step follows another, further along the graph.
LEMMA NextInSequence ==
    ASSUME Requests = {}, NEW rank, BaseInv, OwnInv, RankInv(rank),
           NEW t \in DOMAIN tasks, TaskStep(t), InSequence', ~ StartCompensation(t),
           NEW n \in DOMAIN steps' \ DOMAIN steps
    PROVE  /\ Continue(t) /\ tasks[t].pc = "decided" /\ InSequence
           /\ rank[steps'[n].step] > rank[tasks[t].record.step]
           /\ \A m \in DOMAIN steps' \ DOMAIN steps : m = n
  <1>1. InSequence
    BY KeptByTask, StaysInSequence
  <1>2. PICK y \in ToSet(Tail(tasks[t].next)) : y \in Steps /\ steps'[n] = StepInstance(y)
    BY StartsSteps
  <1>3. /\ Continue(t) /\ tasks[t].pc = "decided" /\ tasks[t].next[1] = "start"
        /\ \A m \in DOMAIN steps' \ DOMAIN steps : Len(Tail(tasks[t].next)) = 1 => m = n
    BY StartsSteps
  <1>4. StepInstance(y).step = y /\ Original(StepInstance(y))
    BY <1>2, NewInstance DEF BaseInv
  <1>5. ASSUME NEW f \in Forks, Tail(tasks[t].next) = f.branches
        PROVE  FALSE
    <2>1. n \in FirstMain(y)'
      BY <1>2, <1>4 DEF FirstMain, Main, Original
    <2>2. FirstMain(y)' = {}
      BY <1>2, <1>5 DEF InSequence
    <2>3. QED
      BY <2>1, <2>2
  <1>6. PICK z \in Steps : Tail(tasks[t].next) = <<z>> /\ rank[z] > rank[tasks[t].record.step]
    BY <1>1, <1>3, <1>5 DEF RankInv
  <1>7. y = z
    BY <1>2, <1>6, OneIsItself
  <1>8. Len(Tail(tasks[t].next)) = 1
    <2>1. Len(<<z>>) = 1
      OBVIOUS
    <2>2. QED
      BY <1>6, <2>1
  <1>9. QED
    BY <1>1, <1>2, <1>3, <1>4, <1>6, <1>7, <1>8

LEMMA DecidesFurther ==
    ASSUME NEW rank, Ranks(rank), NEW s \in Steps, NEW d \in Decisions(s), d[1] = "start",
           \A f \in Forks : s \notin ToSet(f.branches)
    PROVE  \/ \E y \in Steps : Tail(d) = <<y>> /\ rank[y] > rank[s]
           \/ \E f \in Forks : Tail(d) = f.branches
  <1>1. CASE \E x \in Transitions : x.from = s /\ Tail(d) = <<x.to>>
    <2>1. PICK x \in Transitions : x.from = s /\ Tail(d) = <<x.to>>
      BY <1>1
    <2>2. x.to \in Steps
      BY WorkflowAssumption
    <2>3. rank[x.from] < rank[x.to] /\ rank[s] \in Nat /\ rank[x.to] \in Nat
      BY <2>2 DEF Ranks
    <2>4. QED
      BY <2>1, <2>2, <2>3
  <1>2. CASE \E f \in Forks : Tail(d) = f.branches
    BY <1>2
  <1>3. QED
    BY <1>1, <1>2, DecisionParts

LEMMA RankByTask ==
    ASSUME Requests = {}, NEW rank, Ranks(rank), BaseInv, CalmInv, OwnInv, RankInv(rank),
           NEW t \in DOMAIN tasks, TaskStep(t)
    PROVE  RankInv(rank)'
  <1> SUFFICES ASSUME InSequence'
               PROVE  RankInv(rank)'
    BY DEF RankInv
  <1>1. Kept /\ Alone(t) /\ InSequence /\ Done.pc = "done" /\ steps' \in Seq(StepRecord)
    BY KeptByTask, LeavesAlone, StaysInSequence, DoneIsDone DEF BaseInv, WorkflowTypeOK
  <1>2. \A s \in Steps : rank[s] \in Nat
    BY DEF Ranks
  <1>3. \A n \in DOMAIN steps : steps[n].step \in Steps /\ n \in Nat
    BY StepsInPlace DEF BaseInv
  <1>4. \A u \in DOMAIN tasks : tasks[u].record.step \in Steps
    BY TaskParts DEF BaseInv
  <1>5. \A n \in DOMAIN steps : Main(n)' => Main(n) /\ steps'[n].step = steps[n].step
    BY <1>1 DEF Kept, Same, Main
  <1>6. ASSUME NEW n \in DOMAIN steps' \ DOMAIN steps, Main(n)'
        PROVE  /\ \A m \in DOMAIN steps : Main(m) =>
                     m < n /\ rank[steps[m].step] < rank[steps'[n].step]
               /\ \A m \in DOMAIN steps' \ DOMAIN steps : m = n
               /\ Continue(t)
    <2>1. ~ StartCompensation(t)
      <3>1. ASSUME StartCompensation(t)
            PROVE  FALSE
        <4>1. /\ steps' \in Seq(StepRecord) /\ Len(steps') = Len(steps) + 1
              /\ steps'[Len(steps) + 1] = Compensation(t)
              /\ tasks[t].pc = "compensating" /\ tasks[t].next # <<>>
          BY <3>1, StartCompensationDoes, Zenon
        <4>2. n = Len(steps) + 1
          BY <4>1, StepsInPlace DEF BaseInv
        <4>3. ~ Original(Compensation(t))
          BY <4>1, NextToUndo
        <4>4. QED
          BY <1>6, <4>1, <4>2, <4>3 DEF Original, Main
      <3>2. QED
        BY <3>1
    <2>2. /\ Continue(t) /\ tasks[t].pc = "decided"
          /\ rank[steps'[n].step] > rank[tasks[t].record.step]
          /\ \A m \in DOMAIN steps' \ DOMAIN steps : m = n
      BY <2>1, NextInSequence
    <2>3. \A m \in DOMAIN steps : Main(m) => rank[steps[m].step] <= rank[tasks[t].record.step]
      BY <1>1, <2>2 DEF RankInv, Advancing
    <2>4. steps'[n].step \in Steps
      <3>1. steps'[n] \in StepRecord
        BY <1>1
      <3>2. QED
        BY <3>1 DEF StepRecord
    <2>5. \A m \in DOMAIN steps : m < n
      <3>1. DOMAIN steps = 1..Len(steps) /\ Len(steps) \in Nat /\ DOMAIN steps' = 1..Len(steps')
        BY <1>1, StepsInPlace DEF BaseInv
      <3>2. QED
        BY <3>1
    <2> DEFINE r == rank[steps'[n].step]
               q == rank[tasks[t].record.step]
    <2>6. r \in Nat /\ q \in Nat /\ r > q
      BY <1>2, <1>4, <2>2, <2>4
    <2>7. ASSUME NEW m \in DOMAIN steps, Main(m)
          PROVE  rank[steps[m].step] < r
      <3>1. rank[steps[m].step] \in Nat /\ rank[steps[m].step] <= q
        BY <1>2, <1>3, <2>3, <2>7
      <3> HIDE DEF r, q
      <3>2. QED
        BY <2>6, <3>1
    <2>8. QED
      BY <2>2, <2>5, <2>7
  <1>7. ASSUME NEW m \in DOMAIN steps', NEW n \in DOMAIN steps', m < n, Main(m)', Main(n)'
        PROVE  rank[steps'[m].step] < rank[steps'[n].step]
    <2>1. CASE n \in DOMAIN steps
      <3>1. m \in DOMAIN steps
        <4>1. DOMAIN steps = 1..Len(steps) /\ Len(steps) \in Nat /\ DOMAIN steps' = 1..Len(steps')
          BY <1>1, StepsInPlace DEF BaseInv
        <4>2. QED
          BY <1>7, <2>1, <4>1
      <3>2. QED
        BY <1>1, <1>5, <1>7, <2>1, <3>1 DEF RankInv
    <2>2. CASE n \notin DOMAIN steps
      <3>1. m \in DOMAIN steps
        <4>1. m \in Nat
          BY <1>1
        <4>2. QED
          BY <1>6, <1>7, <2>2, <4>1
      <3>2. QED
        BY <1>5, <1>6, <1>7, <2>2, <3>1
    <2>3. QED
      BY <2>1, <2>2
  <1>8. /\ \A u \in DOMAIN tasks \ {t} : tasks'[u].pc = "done"
        /\ tasks[t].pc \in {"handler"} \cup Advancing \cup Failing
    <2>1. tasks[t] \in TaskRecord /\ tasks[t].pc # "done" /\ tasks[t].pc \notin {"read", "given"}
      BY <1>1, TaskParts DEF BaseInv, Alone, OwnInv, Owned
    <2>2. tasks[t].pc \in {"handler", "read", "given", "done"} \cup Advancing \cup Failing
      BY <2>1 DEF TaskRecord
    <2>3. \A u \in DOMAIN tasks \ {t} : tasks[u].pc = "done"
      BY <1>1, <2>1 DEF CalmInv, Calm, OneAtATime, Active
    <2>4. QED
      BY <1>1, <2>1, <2>2, <2>3 DEF Alone
  <1>9. ASSUME NEW u \in DOMAIN tasks', tasks'[u].pc \in {"handler"} \cup Advancing,
               NEW m \in DOMAIN steps', Main(m)'
        PROVE  rank[steps'[m].step] <= rank[tasks'[u].record.step]
    <2>0. "done" \notin {"handler"} \cup Advancing /\ ({"handler"} \cup Advancing) \cap Failing = {}
      BY DEF Advancing, Failing
    <2>1. CASE u \in DOMAIN tasks
      <3>1. u = t
        BY <1>8, <1>9, <2>0, <2>1
      <3>2. /\ tasks'[t].record.step = tasks[t].record.step
            /\ tasks[t].pc \in {"handler"} \cup Advancing
        BY <1>8, <1>9, <2>0, <3>1, RecordStays
      <3>3. ~ Continue(t)
        BY <1>9, <2>0, <3>1, Lands
      <3>4. m \in DOMAIN steps
        BY <1>6, <1>9, <3>3
      <3>5. rank[steps[m].step] <= rank[tasks[t].record.step]
        BY <1>1, <1>5, <1>9, <3>2, <3>4 DEF RankInv
      <3>6. QED
        BY <1>5, <1>9, <3>1, <3>2, <3>4, <3>5
    <2>2. CASE u \notin DOMAIN tasks
      <3>1. PICK n \in DOMAIN steps' \ DOMAIN steps :
                tasks'[u].record = steps'[n] /\ \E s \in Steps : steps'[n] = StepInstance(s)
        BY <1>1, <1>9, <2>0, <2>2 DEF Alone, Newborn
      <3>2. Main(n)' /\ steps'[n].step \in Steps
        BY <3>1, NewInstance DEF BaseInv, Main, Original
      <3>3. /\ m \in DOMAIN steps => rank[steps[m].step] < rank[steps'[n].step]
            /\ m \notin DOMAIN steps => m = n
        BY <1>5, <1>6, <1>9, <3>2
      <3>4. m \in DOMAIN steps => steps'[m].step = steps[m].step /\ rank[steps[m].step] \in Nat
        BY <1>2, <1>3, <1>5, <1>9
      <3>5. rank[steps'[n].step] \in Nat
        BY <1>2, <3>2
      <3>6. QED
        BY <3>1, <3>3, <3>4, <3>5
    <2>3. QED
      BY <2>1, <2>2
  <1>10. ASSUME NEW u \in DOMAIN tasks', tasks'[u].pc = "decided", tasks'[u].next[1] = "start"
         PROVE  \/ \E y \in Steps : Tail(tasks'[u].next) = <<y>> /\ rank[y] > rank[tasks'[u].record.step]
                \/ \E f \in Forks : Tail(tasks'[u].next) = f.branches
    <2>1. u = t
      BY <1>1, <1>8, <1>10 DEF Alone, Newborn
    <2>2. Decide(t)
      BY <1>10, <2>1, Arrives
    <2>3. tasks[t].pc = "merged" /\ tasks'[t].next \in Decisions(tasks[t].record.step)
      BY <2>2, DecideDoes, Zenon
    <2>4. \A f \in Forks : tasks[t].record.step \notin ToSet(f.branches)
      <3>1. FirstMain(tasks[t].record.step) # {}
        BY <2>3 DEF BaseInv, PlaceInv, Placed, Advancing
      <3>2. QED
        BY <1>1, <3>1 DEF InSequence
    <2>5. tasks'[t].record.step = tasks[t].record.step
      BY <1>10, <2>1, RecordStays DEF Failing
    <2> DEFINE s == tasks[t].record.step
               d == tasks'[t].next
    <2>6. s \in Steps /\ d \in Decisions(s) /\ d[1] = "start" /\ \A f \in Forks : s \notin ToSet(f.branches)
      BY <1>4, <1>10, <2>1, <2>3, <2>4
    <2> HIDE DEF s, d
    <2>7. \/ \E y \in Steps : Tail(d) = <<y>> /\ rank[y] > rank[s]
          \/ \E f \in Forks : Tail(d) = f.branches
      BY <2>6, DecidesFurther
    <2>8. QED
      BY <2>1, <2>5, <2>7 DEF s, d
  <1>11. QED
    BY <1>7, <1>9, <1>10 DEF RankInv

LEMMA RankByStart ==
    ASSUME NEW rank, Ranks(rank), BaseInv, StartWorkflow
    PROVE  RankInv(rank)'
  <1> DEFINE ids == <<FirstStep>>
  <1>1. /\ steps = <<>> /\ tasks = <<>> /\ ids \in Seq(Steps) /\ Began(ids, instance')
        /\ instance' \in Instance /\ Len(ids) = 1 /\ ids[1] = FirstStep
    BY FirstIsFirst, StartWorkflowDoes
  <1>2. PICK inst \in Instance : inst = instance'
    BY <1>1
  <1> HIDE DEF ids
  <1>3. /\ \A u \in DOMAIN tasks' : Newborn(u, inst)
        /\ Done.pc = "done"
    BY <1>1, <1>2, NewbornTasks, DoneIsDone DEF BaseInv
  <1>4. Len(steps') = 1 /\ steps' \in Seq(StepRecord)
    <2>1. Len(steps) = 0 /\ Len(steps') = Len(steps) + Len(ids) /\ steps' \in Seq(StepRecord)
      BY <1>1 DEF Began
    <2>2. QED
      BY <1>1, <2>1
  <1>5. DOMAIN steps' = {1} /\ steps'[1].step \in Steps
    <2>1. DOMAIN steps' = {1} /\ steps'[1] \in StepRecord
      BY <1>4
    <2>2. QED
      BY <2>1 DEF StepRecord
  <1>6. rank[steps'[1].step] \in Nat
    BY <1>5 DEF Ranks
  <1>7. \A u \in DOMAIN tasks' : tasks'[u].pc # "done" =>
            tasks'[u].pc = "handler" /\ tasks'[u].record = steps'[1]
    BY <1>3, <1>5 DEF Newborn
  <1>8. /\ "done" \notin {"handler"} \cup Advancing
        /\ rank[steps'[1].step] <= rank[steps'[1].step]
    BY <1>6 DEF Advancing
  <1>9. \A m, n \in DOMAIN steps' : ~ (m < n)
    BY <1>5
  <1>10. QED
    BY <1>5, <1>7, <1>8, <1>9 DEF RankInv

LEMMA RankByAll ==
    ASSUME Requests = {}, NEW rank, Ranks(rank), BaseInv, CalmInv, OwnInv, RankInv(rank), [Next]_vars
    PROVE  RankInv(rank)'
  <1>1. CASE UNCHANGED vars \/ Tick
    <2>1. UNCHANGED <<steps, tasks>>
      BY <1>1 DEF vars, Tick
    <2>2. QED
      BY <2>1 DEF RankInv, InSequence, FirstMain, Main
  <1>2. QED
    BY <1>1, RankByStart, RankByTask DEF Next

TailOf(rest, old) ==
    /\ DOMAIN old \subseteq Nat /\ 1 \in DOMAIN old
    /\ \A p \in DOMAIN rest : p \in Nat \ {0} /\ p + 1 \in DOMAIN old /\ rest[p] = old[p + 1]
    /\ \A p \in DOMAIN old : p = 1 \/ (p - 1 \in DOMAIN rest /\ rest[p - 1] = old[p])

\* a is the first of those left to undo, and only once among them.
FirstLeft(a, old) ==
    /\ a = old[1].at /\ a \in Declared
    /\ \A p \in DOMAIN old : old[p].at \in Declared /\ (p # 1 => old[p].at # a)

\* x becomes the compensation of step s, and the others keep theirs.
CompensatesBy(s, x) ==
    /\ \A r : r # s => Compensations(r)' = Compensations(r)
    /\ Compensations(s)' = {x}

\* Of the step instances that declare a compensation only a may be marked.
MarksOnly(a) ==
    /\ Declared' = Declared
    /\ \A n \in Declared : /\ steps'[n].step = steps[n].step
                           /\ n # a => steps'[n].compensated = steps[n].compensated

\* The first step instance left to undo has its compensation, and is marked or not.
LEMMA CoveredStays ==
    ASSUME NEW old, NEW rest, NEW at, NEW a, NEW first, NEW x, x \in Nat \ {0},
           Covered(old, at), TailOf(rest, old), FirstLeft(a, old), first = steps[a].step,
           \A m, n \in Declared : m # n => steps[m].step # steps[n].step,
           MarksOnly(a), CompensatesBy(first, x)
    PROVE  /\ ~ steps'[a].compensated => Covered(old, x)'
           /\ steps'[a].compensated => Covered(rest, 0)'
  <1>0. /\ DOMAIN old \subseteq Nat /\ 1 \in DOMAIN old /\ a = old[1].at /\ a \in Declared
        /\ \A p \in DOMAIN rest : p \in Nat \ {0} /\ p + 1 \in DOMAIN old /\ rest[p] = old[p + 1]
        /\ \A p \in DOMAIN old : p = 1 \/ (p - 1 \in DOMAIN rest /\ rest[p - 1] = old[p])
        /\ \A p \in DOMAIN old : old[p].at \in Declared /\ (p # 1 => old[p].at # a)
        /\ Declared' = Declared
        /\ \A n \in Declared : /\ steps'[n].step = steps[n].step
                               /\ n # a => steps'[n].compensated = steps[n].compensated
        /\ \A r : r # first => Compensations(r)' = Compensations(r)
        /\ Compensations(first)' = {x}
    BY DEF TailOf, FirstLeft, MarksOnly, CompensatesBy
  <1>1. ASSUME NEW n \in Declared, n # a
        PROVE  Compensations(steps[n].step)' = Compensations(steps[n].step)
    <2>1. PICK s : s = steps[n].step
      BY <1>0
    <2>2. s # first /\ s = steps'[n].step
      BY <1>0, <1>1, <2>1
    <2>3. Compensations(steps[n].step)' = Compensations(s)'
      BY <1>0, <2>2 DEF Compensations
    <2>4. QED
      BY <1>0, <2>1, <2>2, <2>3
  <1>2. Compensations(steps[a].step)' = {x}
    <2>1. first = steps'[a].step
      BY <1>0
    <2>2. Compensations(steps[a].step)' = Compensations(first)'
      BY <1>0, <2>1 DEF Compensations
    <2>3. QED
      BY <1>0, <2>2
  <1>3. ASSUME NEW n \in Declared, n # a, steps'[n].compensated
        PROVE  Undone(n)'
    <2>1. steps[n].compensated
      BY <1>0, <1>3
    <2>2. Undone(n)
      BY <1>0, <1>3, <2>1 DEF Covered
    <2>3. PICK m \in DOMAIN steps : Compensations(steps[n].step) = {m}
      BY <1>0, <2>2 DEF Undone
    <2>4. Compensations(steps[n].step)' = {m}
      BY <1>0, <1>1, <1>3, <2>3
    <2>5. m \in DOMAIN steps'
      BY <1>0, <2>4 DEF Compensations
    <2>6. QED
      BY <1>0, <2>4, <2>5 DEF Undone
  <1>4. Undone(a)'
    <2>1. x \in DOMAIN steps'
      BY <1>0, <1>2 DEF Compensations
    <2>2. QED
      BY <1>0, <1>2, <2>1 DEF Undone
  <1>5. ASSUME NEW n \in Declared, n # a, ~ steps'[n].compensated
        PROVE  \E p \in DOMAIN old : p # 1 /\ old[p].at = n
    <2>1. ~ steps[n].compensated
      BY <1>0, <1>5
    <2>2. QED
      BY <1>0, <1>5, <2>1 DEF Covered
  <1>6. ASSUME NEW p \in DOMAIN old, p # 1
        PROVE  /\ ~ steps'[old[p].at].compensated
               /\ Compensations(steps[old[p].at].step)' = {}
    <2>1. PICK n \in Declared : n = old[p].at
      BY <1>0
    <2>2. n # a
      BY <1>0, <1>6, <2>1
    <2>3. ~ steps[n].compensated /\ Compensations(steps[n].step) = {}
      BY <1>0, <1>6, <2>1 DEF Covered
    <2>4. QED
      BY <1>0, <1>1, <2>1, <2>2, <2>3
  <1>7. ASSUME ~ steps'[a].compensated
        PROVE  Covered(old, x)'
    <2>1. \A n \in Declared' : IF steps'[n].compensated THEN Undone(n)'
                               ELSE \E p \in DOMAIN old : old[p].at = n
      BY <1>0, <1>3, <1>5, <1>7
    <2>2. \A p \in DOMAIN old :
            /\ ~ steps'[old[p].at].compensated
            /\ Compensations(steps[old[p].at].step)' = IF p = 1 /\ x # 0 THEN {x} ELSE {}
      BY <1>0, <1>2, <1>6, <1>7
    <2>3. QED
      BY <1>0, <2>1, <2>2 DEF Covered
  <1>8. ASSUME steps'[a].compensated
        PROVE  Covered(rest, 0)'
    <2>1. \A n \in Declared' : IF steps'[n].compensated THEN Undone(n)'
                               ELSE \E p \in DOMAIN rest : rest[p].at = n
      <3>1. \A n \in Declared : steps'[n].compensated => Undone(n)'
        BY <1>0, <1>3, <1>4
      <3>2. \A n \in Declared : ~ steps'[n].compensated => \E p \in DOMAIN rest : rest[p].at = n
        BY <1>0, <1>5, <1>8
      <3>3. QED
        BY <1>0, <3>1, <3>2
    <2>2. \A p \in DOMAIN rest :
            /\ ~ steps'[rest[p].at].compensated
            /\ Compensations(steps[rest[p].at].step)' = {}
      <3>1. TAKE p \in DOMAIN rest
      <3>2. PICK q \in DOMAIN old : q # 1 /\ rest[p] = old[q]
        BY <1>0
      <3>3. QED
        BY <1>0, <1>6, <3>2
    <2>3. QED
      BY <1>0, <2>1, <2>2 DEF Covered
  <1>9. QED
    BY <1>0, <1>7, <1>8

LEMMA CoveredScan ==
    ASSUME BaseInv, NEW t \in DOMAIN tasks, ScanCompleted(t),
           \A n \in DOMAIN steps : Main(n) /\ ~ steps[n].compensated,
           NEW next, next = tasks'[t].next
    PROVE  Covered(next, 0)'
  <1>1. /\ steps' = steps
        /\ \A p \in DOMAIN next : next[p].at \in Undoable
        /\ \A n \in Undoable : \E p \in DOMAIN next : next[p].at = n
    BY ScanCompletedDoes, Zenon
  <1>2. Undoable = Declared /\ Declared \subseteq DOMAIN steps
    BY DEF Undoable, Declared
  <1>3. \A s \in Steps : Compensations(s) = {}
    BY FirstIsFirst DEF Compensations, Main
  <1>4. \A n \in DOMAIN steps : steps[n].step \in Steps
    BY StepsInPlace DEF BaseInv
  <1>5. Covered(next, 0)
    BY <1>1, <1>2, <1>3, <1>4 DEF Covered
  <1>6. QED
    BY <1>1, <1>5 DEF Covered, Declared, Main, Undone, Compensations

\* The step instances that compensation may concern are of different steps.
LEMMA DeclaredDiffer ==
    ASSUME NEW rank, Ranks(rank), BaseInv, RankInv(rank), InSequence
    PROVE  \A m, n \in Declared : m # n => steps[m].step # steps[n].step
  <1>1. TAKE m, n \in Declared
  <1>2. HAVE m # n
  <1>3. /\ m \in DOMAIN steps /\ n \in DOMAIN steps /\ Main(m) /\ Main(n)
        /\ m \in Nat /\ n \in Nat /\ steps[m].step \in Steps
    BY StepsInPlace DEF Declared, BaseInv
  <1>4. m < n \/ n < m
    BY <1>2, <1>3
  <1>5. rank[steps[m].step] < rank[steps[n].step] \/ rank[steps[n].step] < rank[steps[m].step]
    BY <1>3, <1>4 DEF RankInv
  <1>6. rank[steps[m].step] \in Nat
    BY <1>3 DEF Ranks
  <1>7. QED
    BY <1>5, <1>6

\* How a compensation, begun or settled, adds to the compensations of its step.
LEMMA CompensationsBy ==
    ASSUME BaseInv, OwnInv, NEW t \in DOMAIN tasks, TaskStep(t),
           StartCompensation(t) \/ EndCompensation(t), Ordered(tasks[t].next),
           NEW first, first = steps[tasks[t].next[1].at].step,
           Compensations(first) = IF tasks[t].pc = "undoing" THEN {tasks[t].at} ELSE {}
    PROVE  /\ \A s : s # first => Compensations(s)' = Compensations(s)
           /\ StartCompensation(t) => Compensations(first)' = {Len(steps) + 1}
           /\ EndCompensation(t) => Compensations(first)' = {tasks[t].at}
  <1>1. \A n \in DOMAIN steps : n \in DOMAIN steps' /\ steps'[n].compensationOf = steps[n].compensationOf
    BY KeptByTask DEF Kept, Same
  <1>2. CASE StartCompensation(t)
    <2> DEFINE k == Len(steps) + 1
    <2>1. /\ tasks[t].pc = "compensating"
          /\ DOMAIN steps' = DOMAIN steps \cup {k} /\ k \notin DOMAIN steps
          /\ steps'[k].compensationOf = first
      BY <1>2, NewCompensation
    <2> HIDE DEF k
    <2>2. ~ EndCompensation(t) /\ Compensations(first) = {}
      BY <2>1 DEF EndCompensation
    <2>3. /\ \A s : s # first => Compensations(s)' = Compensations(s)
          /\ Compensations(first)' = {k}
      BY <1>1, <2>1, <2>2 DEF Compensations
    <2>4. QED
      BY <2>2, <2>3 DEF k
  <1>3. CASE EndCompensation(t)
    <2>1. /\ tasks[t].pc = "undoing" /\ steps' \in Seq(StepRecord) /\ Len(steps') = Len(steps)
      BY <1>3, EndCompensationDoes, Zenon
    <2>2. DOMAIN steps' = DOMAIN steps
      BY <2>1, StepsInPlace DEF BaseInv
    <2>3. ~ StartCompensation(t) /\ Compensations(first) = {tasks[t].at}
      BY <2>1 DEF StartCompensation
    <2>4. \A s : Compensations(s)' = Compensations(s)
      BY <1>1, <2>2 DEF Compensations
    <2>5. QED
      BY <2>3, <2>4
  <1>4. QED
    BY <1>2, <1>3

LEMMA CoveredByTask ==
    ASSUME Requests = {}, NEW rank, Ranks(rank), BaseInv, CalmInv, OwnInv, OrderInv,
           RankInv(rank), CompInv, NEW t \in DOMAIN tasks, TaskStep(t), InSequence',
           tasks'[t].pc \in {"compensating", "undoing"}
    PROVE  Covered(tasks[t].next, IF tasks[t].pc = "undoing" THEN tasks[t].at ELSE 0)'
  <1>1. PICK next, at : /\ next = tasks'[t].next
                        /\ at = IF tasks'[t].pc = "undoing" THEN tasks'[t].at ELSE 0
    OBVIOUS
  <1>2. Covered(next, at)' => Covered(tasks[t].next, IF tasks[t].pc = "undoing" THEN tasks[t].at ELSE 0)'
    BY <1>1 DEF Covered
  <1>3. CASE ScanCompleted(t)
    <2>1. tasks[t].pc = "failed"
      BY <1>3, ScanCompletedDoes, Zenon
    <2>2. \A n \in DOMAIN steps : Main(n) /\ ~ steps[n].compensated
      BY <2>1, CleanByTask
    <2>3. at = 0
      BY <1>1, <1>3, Lands
    <2>4. QED
      BY <1>1, <1>2, <1>3, <2>2, <2>3, CoveredScan
  <1>4. CASE StartCompensation(t) \/ EndCompensation(t)
    <2>1. PICK old, was : /\ old = tasks[t].next
                          /\ was = IF tasks[t].pc = "undoing" THEN tasks[t].at ELSE 0
      OBVIOUS
    <2>0. PICK rest, a, first, x :
            /\ rest = Tail(old) /\ a = old[1].at /\ first = steps[a].step
            /\ x = IF StartCompensation(t) THEN Len(steps) + 1 ELSE tasks[t].at
      OBVIOUS
    <2>2. InSequence
      BY SoleTask
    <2>3. tasks[t].pc \in {"compensating", "undoing"} /\ old # <<>>
      BY <1>4, <2>1, StartCompensationDoes, EndCompensationDoes, Zenon
    <2>4. Covered(old, was) /\ Ordered(old)
      BY <2>1, <2>2, <2>3 DEF CompInv, OrderInv, Compensating
    <2>5. /\ old \in Seq(Kinds \cup Steps \cup Undo)
          /\ 1 \in DOMAIN old /\ Marked(t).compensated
      <3>1. /\ 1 \in DOMAIN old /\ old[1].record \in StepRecord
        BY <2>1, <2>3, NextToUndo
      <3>2. QED
        BY <2>1, <3>1, TaskParts DEF BaseInv, Marked, StepRecord
    <2>6. /\ DOMAIN old \subseteq Nat
          /\ \A p \in DOMAIN rest : p \in Nat \ {0} /\ p + 1 \in DOMAIN old /\ rest[p] = old[p + 1]
          /\ \A p \in DOMAIN old : p = 1 \/ (p - 1 \in DOMAIN rest /\ rest[p - 1] = old[p])
      BY <2>0, <2>3, <2>5
    <2>7. \A p \in DOMAIN old : old[p].at \in Declared /\ (p # 1 => old[p].at # a)
      <3>1. \A p \in DOMAIN old : p # 1 => 1 < p
        BY <2>5
      <3>2. QED
        BY <2>0, <2>4, <2>5, <3>1 DEF Ordered
    <2>8. a \in Declared
      BY <2>0, <2>5, <2>7
    <2>9. /\ Declared' = Declared
          /\ \A n \in Declared : /\ steps'[n].step = steps[n].step
                                 /\ n # a => steps'[n].compensated = steps[n].compensated
      <3>1. \A n \in Declared : n \in DOMAIN steps /\ Main(n)
        BY DEF Declared
      <3>2. QED
        BY <2>0, <2>1, <2>3, <3>1, DeclaredStays, MainStays
    <2>10. /\ x \in Nat \ {0}
           /\ StartCompensation(t) => tasks[t].pc = "compensating" /\ was = 0
           /\ tasks[t].pc = "undoing" => was = tasks[t].at /\ was # 0
           /\ tasks[t].pc = "compensating" => was = 0
      <3>1. /\ Len(steps) \in Nat
            /\ StartCompensation(t) => tasks[t].pc = "compensating"
            /\ EndCompensation(t) => tasks[t].pc = "undoing" /\ tasks[t].at \in DOMAIN steps
            /\ \A n \in DOMAIN steps : n \in Nat \ {0}
        BY StepsInPlace, StartCompensationDoes, EndCompensationDoes, Zenon DEF BaseInv
      <3>2. tasks[t].pc = "undoing" => EndCompensation(t)
        BY <1>4, <3>1
      <3>3. QED
        BY <1>4, <2>0, <2>1, <3>1, <3>2
    <2>11. Compensations(first) = IF tasks[t].pc = "undoing" THEN {tasks[t].at} ELSE {}
      <3>1. Compensations(first) = IF 1 = 1 /\ was # 0 THEN {was} ELSE {}
        BY <2>0, <2>4, <2>5 DEF Covered
      <3>2. QED
        BY <2>3, <2>10, <3>1
    <2>12. /\ \A s : s # first => Compensations(s)' = Compensations(s)
           /\ Compensations(first)' = {x}
      <3>1. first = steps[tasks[t].next[1].at].step /\ Ordered(tasks[t].next)
        BY <2>0, <2>1, <2>4
      <3>2. /\ \A s : s # first => Compensations(s)' = Compensations(s)
            /\ StartCompensation(t) => Compensations(first)' = {Len(steps) + 1}
            /\ EndCompensation(t) => Compensations(first)' = {tasks[t].at}
        BY <1>4, <2>11, <3>1, CompensationsBy
      <3>3. QED
        BY <1>4, <2>0, <3>2
    <2>13. /\ ~ steps'[a].compensated => Covered(old, x)'
           /\ steps'[a].compensated => Covered(rest, 0)'
      <3>1. \A m, n \in Declared : m # n => steps[m].step # steps[n].step
        BY <2>2, DeclaredDiffer
      <3>2. TailOf(rest, old) /\ FirstLeft(a, old)
        BY <2>0, <2>5, <2>6, <2>7, <2>8 DEF TailOf, FirstLeft
      <3>3. MarksOnly(a) /\ CompensatesBy(first, x)
        BY <2>9, <2>12 DEF MarksOnly, CompensatesBy
      <3>4. QED
        BY <2>0, <2>4, <2>10, <3>1, <3>2, <3>3, CoveredStays
    <2>14. \/ next = old /\ at = x /\ ~ steps'[a].compensated
           \/ next = rest /\ at = 0 /\ steps'[a].compensated
      <3>1. DOMAIN tasks[t] = {"op", "pc", "at", "record", "instance", "output", "next"}
        BY TaskFields DEF BaseInv
      <3>2. CASE StartCompensation(t)
        <4>1. /\ tasks[t].pc = "compensating"
              /\ \/ /\ tasks'[t] = [tasks[t] EXCEPT !.pc = "undoing", !.record = Compensation(t),
                                                     !.at = Len(steps) + 1]
                    /\ steps'[a] = steps[a]
                 \/ /\ tasks'[t] = [tasks[t] EXCEPT !.next = Tail(tasks[t].next)]
                    /\ steps'[a] = Marked(t)
          BY <2>0, <2>1, <3>2, StartCompensationDoes, Zenon
        <4>2. ~ steps[a].compensated
          BY <2>0, <2>4, <2>5 DEF Covered
        <4>3. QED
          BY <1>1, <2>0, <2>1, <2>5, <3>1, <3>2, <4>1, <4>2
      <3>3. CASE EndCompensation(t)
        <4>1. /\ tasks'[t] = [tasks[t] EXCEPT !.pc = "compensating", !.next = Tail(tasks[t].next)]
              /\ steps'[a] = Marked(t)
          BY <2>0, <2>1, <3>3, EndCompensationDoes, Zenon
        <4>2. QED
          BY <1>1, <2>0, <2>1, <2>5, <3>1, <4>1
      <3>4. QED
        BY <1>4, <3>2, <3>3
    <2>15. QED
      BY <1>2, <2>13, <2>14
  <1>5. QED
    BY <1>3, <1>4, Arrives

LEMMA CompByTask ==
    ASSUME Requests = {}, NEW rank, Ranks(rank), BaseInv, CalmInv, OwnInv, OrderInv,
           RankInv(rank), CompInv, NEW t \in DOMAIN tasks, TaskStep(t)
    PROVE  CompInv'
  <1> SUFFICES ASSUME InSequence'
               PROVE  CompInv'
    BY DEF CompInv
  <1>1. /\ InSequence /\ instance.status = "running" /\ tasks[t].instance = instance
        /\ \A u \in DOMAIN tasks \ {t} : tasks[u].pc = "done" /\ tasks'[u] = tasks[u]
        /\ \A u \in DOMAIN tasks' \ DOMAIN tasks : tasks'[u].pc \in {"done", "handler"}
    BY SoleTask
  <1>2. ASSUME NEW u \in Compensating'
        PROVE  /\ u = t /\ tasks'[t].pc \in {"compensating", "undoing"}
               /\ Covered(tasks[u].next, IF tasks[u].pc = "undoing" THEN tasks[u].at ELSE 0)'
    <2>1. u = t /\ tasks'[t].pc \in {"compensating", "undoing"}
      BY <1>1, <1>2 DEF Compensating
    <2>2. QED
      BY <2>1, CoveredByTask
  <1>3. ASSUME instance'.status = "failed"
        PROVE  /\ Compensating' = {}
               /\ \A n \in Declared' : steps'[n].compensated /\ Undone(n)'
    <2>1. FailInstance(t)
      BY <1>1, <1>3, InstanceFailsBy
    <2>2. tasks[t].pc = "compensating" /\ tasks[t].next = <<>> /\ steps' = steps
      BY <2>1, FailInstanceDoes
    <2>3. Compensating' = {}
      BY <1>2, <2>1, Lands
    <2>4. Covered(tasks[t].next, 0)
      BY <1>1, <2>2 DEF CompInv, Compensating
    <2>5. \A n \in Declared : steps[n].compensated /\ Undone(n)
      BY <2>2, <2>4 DEF Covered
    <2>6. QED
      BY <2>2, <2>3, <2>5 DEF Declared, Main, Undone, Compensations
  <1>4. QED
    BY <1>2, <1>3 DEF CompInv

LEMMA CompByStart ==
    ASSUME BaseInv, StartWorkflow
    PROVE  CompInv'
  <1> DEFINE ids == <<FirstStep>>
  <1>1. /\ steps = <<>> /\ tasks = <<>> /\ ids \in Seq(Steps) /\ Began(ids, instance')
        /\ instance' \in Instance /\ instance' = [instance EXCEPT !.status = "running"]
    BY StartWorkflowDoes
  <1>2. PICK inst \in Instance : inst = instance'
    BY <1>1
  <1>3. inst.status = "running"
    BY <1>1, <1>2 DEF BaseInv, WorkflowTypeOK, Instance
  <1> HIDE DEF ids
  <1>4. \A u \in DOMAIN tasks' : tasks'[u].pc \in {"done", "handler"}
    <2>1. Done.pc = "done"
      BY DoneIsDone DEF BaseInv
    <2>2. QED
      BY <1>1, <1>2, <2>1, NewbornTasks DEF Newborn
  <1>5. QED
    BY <1>2, <1>3, <1>4 DEF CompInv, Compensating

LEMMA CompByAll ==
    ASSUME Requests = {}, NEW rank, Ranks(rank), BaseInv, CalmInv, OwnInv, OrderInv,
           RankInv(rank), CompInv, [Next]_vars
    PROVE  CompInv'
  <1>1. CASE UNCHANGED vars \/ Tick
    <2>1. UNCHANGED <<instance, steps, tasks>>
      BY <1>1 DEF vars, Tick
    <2>2. QED
      BY <2>1 DEF CompInv, InSequence, FirstMain, Main, Compensating, Covered, Declared, Undone,
                  Compensations
  <1>2. QED
    BY <1>1, CompByStart, CompByTask DEF Next

\* Without calls, in a workflow whose graph has no cycle: a failed instance has had every
\* completed step that declares a compensation compensated, exactly once, as long as no
\* branches were started; and nothing is compensated unless a step has failed for good.
THEOREM FailureIsCompensated ==
    ASSUME Requests = {}, NEW rank, Ranks(rank)
    PROVE  Spec => []FailedMeansCompensated
  <1>1. Init => OrderInv /\ RankInv(rank) /\ CompInv /\ GaveUpInv
    BY DEF Init, OrderInv, RankInv, CompInv, GaveUpInv, Active, Compensating, ByTime
  <1>2. BaseInv /\ CalmInv /\ OwnInv /\ OrderInv /\ RankInv(rank) /\ CompInv /\ [Next]_vars =>
            OrderInv' /\ RankInv(rank)' /\ CompInv'
    BY OrderByAll, RankByAll, CompByAll
  <1>3. BaseInv /\ OwnInv /\ GaveUpInv /\ [Next]_vars => GaveUpInv'
    BY GaveUpByAll
  <1>4. CompInv /\ GaveUpInv => FailedMeansCompensated
    <2> SUFFICES ASSUME CompInv, GaveUpInv
                 PROVE  FailedMeansCompensated
      OBVIOUS
    <2>1. ASSUME NEW n \in Declared, Undone(n)
          PROVE  Cardinality(Compensations(steps[n].step)) = 1
      BY <2>1, FS_Singleton DEF Undone
    <2>2. (instance.status = "failed" /\ InSequence) =>
             \A n \in Declared : /\ steps[n].compensated
                                 /\ Cardinality(Compensations(steps[n].step)) = 1
      BY <2>1 DEF CompInv
    <2>3. (\E n \in DOMAIN steps : ~ Main(n)) => \E n \in DOMAIN steps : Main(n) /\ steps[n].status = "failed"
      BY DEF GaveUpInv, GaveUp
    <2>4. QED
      BY <2>2, <2>3 DEF FailedMeansCompensated, Declared
  <1>5. Undisturbed
    BY DEF Undisturbed
  <1>6. QED
    BY <1>1, <1>2, <1>3, <1>4, <1>5, OwnAlways, PTL DEF Spec
=============================================================================
