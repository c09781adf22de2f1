# Lateen OS: a TLA+ verification of its stateful core

Lateen OS is a TypeScript monorepo of about forty packages, a dozen services and
as many web applications.  Most of it is independent records, calculations over
data, HTTP handlers and pages.  What is hard is in a few places where several
asynchronous activities of one Node.js process work on the same record: they
interleave at every `await`, and only some of them are guarded.  This project
models those places, checks them with TLC and proves what can be proved for
every size with TLAPS.

Source paths below are relative to the repository's root; `PROJECT.json` maps
every definition to the lines it models.

## 1. Inventory of the system

### Parts with state that several activities share

| Component | State | Operations | Interacts with |
| --- | --- | --- | --- |
| Per-key mutex, `packages/shared-kernel/src/concurrency/key-mutex.ts` | `tails`: key to newest promise | `runExclusive(key, fn)` | used by stock, receivables, payables, resource planning |
| Workflow executor, `packages/workflow-engine/src/execution` | the instance, its step instances, `instanceLocks`, `activeInstanceLocks` | `startWorkflow`, `dispatch` (start, complete, fail, retry, skip, cancel), `advance`, `suspend`, `resume`, `cancel`; step handlers settle | handlers given by other packages; multi-agent starts instances |
| Stock levels, `packages/inventory-engine/src/stock` | one level per (item, warehouse): on hand, reserved, damaged, thresholds | eight mutations | guarded by the mutex; called by movements and counting |
| Movements, `.../src/movement` | immutable movement records | receive, issue, transfer, adjust, reserve, release, return | calls stock once or twice, then saves a record |
| Counting, `.../src/counting` | a count with its lines and status | create, start, record, complete | calls stock at creation, `movements.adjust` per line at completion |
| Valuation, `.../src/valuation` | cost layers, weighted averages | recordReceipt, recordIssue | unguarded read, compute, save |
| General ledger, `packages/finance-engine/src/journal-entry` | entries, recurring templates | create, post, reverse, generate | unguarded read, compute, save |
| Receivables and payables, `.../src/accounts-receivable`, `.../src/accounts-payable` | invoices, bills, credit notes | create, issue, pay, cancel, credit | payments guarded by the mutex, per invoice or bill |
| Resource planning, `packages/project-management-engine/src/resource` | assignments per assignee | `assign`, `updateAllocation`, `complete`, `cancel` | capacity check guarded by the mutex, per assignee |
| Mission scheduler, `services/mission-scheduler` | missions in a database, a job queue, an in-memory half of it | schedule, execute, cancel, retry | calls out to an executor between two saves |
| Multi-agent coordination, `packages/multi-agent/src/coordination` | mission, executions, coordinator, plan, steps | start mission, assign worker, advance step, complete mission, transitions | starts workflow instances |
| Identity service, `services/identity-service` | users, sessions, refresh tokens in a database | login, refresh, logout | unguarded read, then revoke and create |

The other packages, services and applications (CRM, sales, marketing, HR,
documents, analytics, the AI packages, gateway, admin console, user interfaces,
deployment) keep independent records with the last writer winning, compute over
data, or proxy calls.  Each is listed in `PROJECT.json` under `components` with
the reason it is not modelled.

### What is hard, and what makes each part correct

- **Mutex.**  Promise reactions of different calls interleave; the cleanup of the
  map runs beside new calls.  Correct when functions of one key exclude each
  other, run in call order, the map does not grow, and a function that never
  settles holds up its own key only.
- **Stock.**  Reading and saving are separated by an `await`; the repository has
  no uniqueness constraint.  Correct when every mutation takes effect at one
  instant, no quantity is negative, nothing is reserved that is not available,
  and a pair never gets two levels.
- **Movements.**  A mutation and its record, or the two mutations of a transfer,
  are separate steps, any of which may throw.  Correct when the records account
  for the stock, and a failed movement has changed nothing.
- **Counting.**  No lock; completing runs a chain of adjustments before it saves,
  any of which may throw.  Correct when a completed count is final and its
  variance is on the books exactly once.
- **Workflow executor.**  Parallel branches, in-memory retries, compensation,
  external commands and an instance lock that lets re-entrant callers through.
  Correct when a join starts once and only with its quorum, a failed instance has
  been compensated, ended instances and resolved steps stay so, handlers get the
  outputs of earlier steps, and an instance settles instead of being left running
  with nothing to do.
- **Receivables and payables.**  Payments and credits are applied under the lock
  of their invoice; the status of a credit note, cancellations and issues are
  read and saved outside it.  Correct when no balance goes below zero and nothing
  that was taken off a balance comes back.
- **Resource planning.**  The capacity check is under the lock of the assignee,
  closing an assignment is not.  Correct when nobody is promised to more than the
  capacity a request names, and a closed assignment stays closed.
- **General ledger.**  No lock; a reversal and a generation save two records each.
  Correct when entries balance, every reversed entry has its mirror image, an
  entry is reversed once and a period generated once.
- **Mission scheduler.**  The database, the BullMQ queue and an in-memory half of
  the queue are written one after the other, any of the awaits may fail, the
  process may restart, and requests overlap.  Correct when no mission stays
  running unattended, none waits without a job, retries are bounded and the
  history is what was executed.
- **Multi-agent coordination.**  No lock; a step, the step it depends on, a
  workflow and the mission are read and saved in turn.  The lifecycle of missions is public beside it.  Correct when steps
  run in order, a verdict is earned, a step starts one workflow instance, and what
  is over stays over.
- **Valuation, identity** (not modelled).  A cost layer consumed twice, a refresh
  token used twice.

## 2. The modules

```
FifoLock <--refines-- KeyMutex --------------------+     StockLevel (arithmetic)
   |                     |                         |         |          |
Payments            ResourcePlanning         InventoryStock -+          |
   |                                               |                    |
   +--refines--> PaymentLedger                     +---refines---> StockBook
                                                                        |
JournalEntries   MissionScheduler   Coordination               InventoryMovements
                                                                        |
WorkflowOrchestrator --- WorkflowProperties                    InventoryCounting
```

An abstract module stands under a component where one was shown to implement it:
movements are built on the stock book and not on the stock engine, payments on
the lock and not on the promise chain.  Both refinements are proved.

- **FifoLock**: what a per-key lock promises: clients queue, the head is
  admitted, leaves, and the next follows.
- **KeyMutex**: `createKeyMutex` as it is: `RunExclusive` is the synchronous part
  of the call, `Begin` the reaction that starts the function, `Finish` its
  promise settling (either way), `Settle` the reaction that drops the map entry.
  The mapping to FifoLock at its end orders the waiting calls of a key by when
  they were made.
- **StockLevel**: the arithmetic of a level: what each mutation refuses and what
  it saves.  No state.
- **StockBook**: what the stock engine promises: a call is asked, and its whole
  effect happens in one step (`Apply`) or it is refused (`Reject`).  A first use
  creates the level in a step of its own (`Open`), because the code saves the
  zeroed level before the updated one, and readers can see it.
- **InventoryStock**: the stock engine: KeyMutex with the section's reads and
  saves (`ReadLevel`, `CreateLevel`, `SaveLevel`), its errors (`Refuse`) and its
  return.  `slot` and `copy` are the section's local variables.
- **InventoryMovements**: the seven movements over StockBook.  A stock call is
  identified by its movement and its number, 1 or 2.
- **InventoryCounting**: one count over InventoryMovements.  `seen[a]` is the copy
  of the count that call `a` read; saves write that copy back, as the code does.
  `overlapped` remembers whether a call was made while another was under way.
- **ResourcePlanning**: `assign`, `updateAllocation`, `complete` and `cancel`, the
  first two as sections of KeyMutex: `EnterSection`, `ReadOthers`, `Save` or
  `Refuse`, `Return`; the other two as a read and a save (`ReadToClose`,
  `SaveClosed`) with no lock.
- **PaymentLedger**: what settlement promises: an amount within what is due is
  taken off at once.
- **Payments**: the receivables engine over FifoLock.  `Queue` and `Enter` are the
  two ends of `runExclusive` in `applyToInvoice`, `Apply` and `Refuse` its body;
  creation, issue, cancellation and the credit note's status are reads and saves
  around it.  Accounts payable has the same code with bills and vendor credits.
- **JournalEntries**: create, post, reverse and generate.  A call reads, saves one
  record or two, and a refused save ends it there (`SaveRefused`).  `disturbed`
  remembers that calls overlapped or a save was refused.
- **MissionScheduler**: the database rows, the BullMQ jobs and the in-memory queue
  as separate variables, written by separate steps.  `RequestFails` ends a request
  at any await, `Restart` drops the requests and the memory.  `faulted` is the history
  of the missions that met either.
- **Coordination**: the orchestrator of one mission with its plans and steps, and
  the public lifecycle of the mission: `Begin` is `missions.start`, `Move` is
  `transition`, `complete`, `fail` and `cancel`, to any of the ten statuses.
  `startWorkflow` may be rejected before it stores an instance (`WorkflowRefused`)
  or after (`WorkflowRejected`).  `finished`, `overlapped` and `orphaned` are
  histories of the steps: which were saved completed, which two callers worked on
  at once, and how many instances a rejected start has left behind; `direct` is
  the history of the statuses that callers of the lifecycle saved themselves.
- **WorkflowOrchestrator**: one instance of one version.  A task is one
  asynchronous activity and keeps the copies its closure holds; each action is
  the code between two points where the activity waits.  Actions follow the
  code's order: handler, save of the step, `withInstanceLock` (`CallAdvance`,
  `EnterLock`), merge of the output, decision, continuation; or failed step,
  scan, compensations one by one, failure of the instance.  Commands are read
  (`Call`), then change the instance, a step, or start one.
- **WorkflowProperties**: fairness and the properties of the executor.
- **SetSums**: facts about `SumFunctionOnSet`, in which ledger and capacity are stated.
- **...Proofs**: the theorems of the component of that name; KeyMutexProofs also
  holds those of the stock engine and of resource planning, which are built on the
  mutex, and InventoryCountingProofs those of the movements.
- **MC...**: constants for the runs.  Definitions under a comment "Faulty: ..."
  in a component's module are versions of the definition below them with a
  plausible mistake; no specification uses them.  They show that each property
  can fail: with the faulty version in its place, TLC finds a violation.

### Modelling decisions

- *Grain.*  JavaScript runs to the next `await` without interruption, so the code
  between two awaits is one action.  Repositories are ports, so an await of one
  may let other activities run in any order.  The end of a locked section of the
  executor and the continuation of its caller are one action: no other section
  can begin in between.  A command's read of the instance and of the step it works
  on are one action (`Call`), as are the two saves that end a compensation (of
  its own record and of the original) and the lookup and creation of a line's
  level in `createCount`.
- *Data.*  Stock quantities count hundredths; the engine rounds to two decimals.
  `Operation` takes a quantity from the naturals: the engine checks no sign, its
  callers pass none below zero, and `MovementRequests` says so of movements.
  Minimum, maximum and reorder point are one `limit`.  An invoice is what is paid
  of a total; a journal entry is its net debits on two accounts; a date is a
  number.  A step's output is the step's name, since the code merges outputs by
  key.  Evaluation of a condition is pure, so each may hold, not hold, or throw,
  also where there is a fallback: a missing condition or expression, or a language
  without an evaluator (`transition-resolver.ts:62-70`).  Which of several
  conditions comes first is free, too.  A step whose only way out is a join that
  is no fork completes the instance (line 82).
- *Statuses.*  EXPIRED is left out of the scheduler: nothing sets `expiresAt`.
- *Tasks.*  A step without a handler is over when it is stored, so its task is
  `Done` at once; a record that has no place yet (`skip` of a step that was never
  started) is saved at 0, which means at the end.  `ToCompensate` is chosen as the
  one sequence of the completed steps in the order of `Later`, which is what the
  stable sort of the code computes.
- *Time.*  `clock` is `now()` with the resolution of its timestamps; it may stand
  still while steps complete, so equal timestamps occur.
- *Memory.*  The packages live in one process without persistence: there is no
  crash to model there.  The scheduler has a database, and restarts.
- *Histories.*  A property that must hold only of calls that did not overlap, or
  that met no fault, or of missions that no caller ended itself, says so with a
  history variable of the model (`overlapped`, `disturbed`, `faulted`, `orphaned`,
  `direct`); no guard reads one.  The workflow commands instead
  are awaited one by one when `SerialClient` is TRUE.
- *Left out.*  Workflow histories, the execution read model, domain events, ids
  other than as positions, actors and reasons: nothing modelled reads them.

## 3. The runs

Deadlock is not checked in any of them: the system may stop when all its calls
are over.

| Run | What it checks | Bounds |
| --- | --- | --- |
| `resource_planning` | `WithinCapacity`, `ReopenedOnlyByUpdate`, `OtherKeysProceed`, refinement of FifoLock | three calls and a closer, two assignees, sections of one of which may hang |
| `inventory_stock` | `NoDuplicateLevel`, refinement of StockBook | three calls of nine operations on one key, empty or seeded |
| `inventory_movements` | `LedgerBalances`, `FailedMovesNothing`, `EveryMovementEnds` | three movements of eight kinds, two warehouses |
| `inventory_counting` | `CompletedIsReconciled`, `CompletionAdjustsAll`, `CompletedIsFinal`, `RecordedCountsKept` | four calls that may overlap, two lines, one receipt or issue meanwhile |
| `workflow_handlers` | `FailedMeansCompensated`, `CompensationReversed`, `HandlersSeeOutputs`, `JoinQuorum`, `RunningHasWork`, `EventuallySettled` | a first condition; then a sequence with two compensations, a retry, a second condition and a last step without a handler, or three branches, two of them with an output and one of them compensated and tried twice, and their join; two instants |
| `workflow_manual` | `FailedOnLastAttempt`, `ResolvedStepsAreFinal`, `TerminalIsFinal` | six calls of any kind awaited one by one, five steps, three instants |
| `payments` | `BalanceNeverNegative`, `AppliedNoteCredited`, `LossOnlyByOverwrite`, refinement of PaymentLedger | three calls of eight kinds, two invoices, one credit note |
| `mission_scheduler` | `RunningHasRequest`, `UpcomingIsQueued`, `DeadAfterRetries`, `HistoryIsComplete`, `RunningEnds` | one mission, three requests, one retry, one restart, any await may fail |
| `journal_entries` | `ReversedHasReversal`, `ReversedOnce`, `GeneratedApart`, `ReopenedOnlyByStalePost` | five calls, one template, five dates, any second save refused |
| `coordination` | `StepsInOrder`, `VerdictIsEarned`, `StartedOnce`, `OnlyOverlapUndoes`, `OverLeftByStaleMove` | two callers that call again and again: start, begin, advance, assign, complete, and moves to planning and completed; two plans of two steps, two workers, two starts for each step |
| `workflow_join_twice` | finds `JoinOnce` violated | two branches |
| `workflow_clobber` | finds `OutputsKept` violated | two branches with outputs |

**Why the bounds are enough to be interesting.**  The mutex needs two calls that
wait behind a third for an order to be wrong, and a closer that no lock keeps
out.  A lost update needs two calls; a third follows or comes between their
steps.  The seeded levels hold 2 and the operations take 1 or 2, so every check
is met on both sides and at its boundary; so with an invoice of 3 and payments
of 1 and 2, and a capacity of 2 and shares of 1 and 2.  A transfer that fails, a
record that comes early and two movements that compete for one quantity fit in
three movements.  A count that is completed takes a start, a record and a
completion; the fourth call overlaps, repeats or follows any of them.  Three
branches distinguish one too few from one too many for a join, and leave one
running when another fails; with outputs of two of them, a merge is lost in this
run too.  A clock that stands still or ticks once has steps of one instant and of
two; a condition that throws is behind `intake` and behind `ship`.  In the manual flow six calls reach the end of the
flow, of a retry, or of a suspension in the middle of either.  Three requests
fail a mission, retry it and exhaust its retries, or execute it while another is
cancelled.  Five calls create an entry, post it, reverse it and do a second
reversal or post over it, or generate twice; the dates lie before, at, between
and after the two occurrences.  Two callers are enough for every overlap of a
read with a save; a second plan is the one a second start stores, a second
instance the one a rejected or overlapping start leads to.  Of the moves, the run
has one that begins a mission and one that ends it without a verdict; the proofs
of section 5 have all of them.

`MaxCalls` and `MaxClock` bound calls and clock in the executor's guards,
`MaxPlans` and `MaxStarts` plans and instances in Coordination's, `MaxRestarts`
restarts.  Symmetry is used where only safety is
checked and the permuted calls appear in no other constant: `inventory_counting`,
`journal_entries` and `coordination`.

**Fairness.**  Promise reactions always run, a handler or guarded function that
was started settles (unless its key is in `Stuck`), and an in-memory repository
answers: weak fairness of the actions of an activity that has begun, in
`FairSpec` (executor), `FairMovementSpec`, `FairPlanningSpec` and
`FairSchedulerSpec`.  In the first it is one condition for all tasks
together: the event loop goes on while any of them can; tasks end, so none can
starve another.  In the last a request in progress goes on (`Proceed`) or
fails, whichever comes first: its awaits end.  Nothing is assumed of callers, of the clock or of
restarts: no fairness on requests, commands, `Tick` or `Restart`.  So liveness is
claimed of what was begun, and never of a step that waits for a report or for
time to pass.  The other runs check safety only and state no fairness.

## 4. What the runs show

The mutex does what its comments say, and the stock engine built on it behaves
as an atomic book.  Movements balance, because the only mutation that can fail
in a transfer is the first.  Payments and credits under the invoice's lock are
an atomic ledger; allocations under the assignee's lock respect the capacity.
What is not under a lock behaves as documented as long as the calls that touch
one record do not overlap; the properties with `Stale`, `Overlap` or `Overwrite`
in their names say exactly which overlap breaks what, and that nothing else does.

Findings, each with a run that finds it:

1. `workflow_join_twice`: `withInstanceLock` takes any caller that finds the lock
   held for a re-entrant one, so two branches may both start the join
   (`orchestrator.impl.ts:86`), which its comment at line 79 excludes.
2. `workflow_clobber`: for the same reason a branch merges its output into the
   variables it read before another branch saved its own, which is lost for good;
   `packages/workflow-engine/README.md:38` says that "concurrent branches never
   clobber each other's output".  What survives is the output of the steps before
   the branches: `HandlersSeeOutputs` says that every handler, of a branch or a
   join too, is given it.

Other divergences met while modelling; the models reproduce them unless it says
otherwise, and no run is kept for them.

*Workflow executor* (`O` is `orchestrator.impl.ts`, documents in
`packages/workflow-engine`):

- Two failing branches compensate a step twice, because `compensatedAt` is written
  after the compensation's handler has settled (`O:411, 452`).
- When a condition throws, with a fallback or without, or none holds and there is no
  fallback, the instance stays running with nothing to do (`O:303`;
  `WORKFLOW_MODEL.md:64`).  `RunningHasWork` names this state `Stranded` and says
  that there is no other.
- Steps completed in the same millisecond are compensated in execution order
  (`O:412`; "in reverse order", `README.md:32`).  `CompensationReversed` excepts
  exactly these.
- A merge saves the status it read, too, so an instance that another branch has
  failed meanwhile is running again (`O:375`), which is why `EventuallySettled` asks of branches only that they come to their
  join or fail; a branch that completes after another has failed is not
  compensated (`O:409`); with a quorum below the number of branches a late
  failure turns a completed instance into a failed one (`O:396`).
- A skipped branch does not count for the join (`O:336`): a fork with an optional
  branch may never join.
- Completing a step of a suspended instance starts the next one (`O:385`;
  `WORKFLOW_MODEL.md:66`), and completing its last one leaves the instance, once
  resumed, running for ever (`O:471`; `README.md:97`).
- Overlapping commands on one step overwrite each other's outcome (`O:518`), and
  a suspension or cancellation saves the instance it read (`O:668`).  The run
  awaits each command, so this one is not explored.

*Inventory* (`packages/inventory-engine`):

- A transfer is not the "atomic pair of stock mutations" of
  `movement/engine.impl.ts:61` and `INVENTORY_MODEL.md:49`: between the two the
  quantity is at neither warehouse.
- Two overlapping completions adjust every varying line twice
  (`counting/engine.impl.ts:121-140`; `tests/counting.test.ts:215`), as does a
  completion called again after failing half way (`:129`).
- A record or start that overlaps a completion reopens the count (`:99, 115`;
  `tests/counting.test.ts:50`); two overlapping records lose one (`:111`).
- Five stock mutations throw on a pair without a level (`stock/engine.impl.ts:252`)
  where `INVENTORY_MODEL.md:38` says every mutation creates one.

*Finance* (`packages/finance-engine`):

- Two overlapping applications of one credit note to two invoices credit both,
  since its status is read outside the lock and saved afterwards
  (`accounts-receivable/engine.impl.ts:407`; `FINANCE_MODEL.md:52` calls `applied`
  a dead end).
- A credit note applied to a draft or cancelled invoice makes it paid or
  partially paid: `applyToInvoice` does not ask for its status.
- `cancelInvoice` and `issueInvoice` save the invoice they read, so a payment in
  between is lost (`:360`).  Amounts are not checked for a sign
  (`FINANCE_MODEL.md:51`); the model takes them from the naturals.
- Overlapping reversals post two reversing entries, overlapping generations two
  entries of one period; a second save that is refused leaves an entry that can be
  reversed, or a period that can be generated, again; a post that read the draft
  before a reversal reopens the entry (`journal-entry/engine.impl.ts:144, 152,
  214`).  Neither `createRecurringTemplate` (`:189`) nor `generateFromTemplate`
  (`:224`) checks that lines balance, where `FINANCE_MODEL.md:36` says that there is
  "no code path to a stored, unbalanced entry"; `OnlyTemplatesUnbalance` proves that
  there is no other such path.  Reports sum entries that are `posted` only, so a reversed entry drops
  out while its reversing entry stays (not modelled).

*Resource planning*: an `updateAllocation` that read an assignment before it was
completed or cancelled makes it active again (`resource/engine.impl.ts:194`;
`PROJECT_MODEL.md:41`).

*Mission scheduler* (`services/mission-scheduler`):

- Overlapping retries read the same count and exceed the limit
  (`SCHEDULER_MODEL.md` and `MISSION_POLICY.md`: "MAX_RETRY_ATTEMPTS"); an
  execution that ends saves the mission it read, over a cancellation too
  (`scheduler.services.ts:267`).
- `queue.retry` changes the in-memory entry only: it adds no BullMQ job and does
  nothing after a restart (`mission-queue.ts:51`).
- `errorMessage` stays on a mission that later succeeds; `materializeFromSchedule`
  and the event listener have no caller, and nothing sets `expiresAt` (not
  modelled).

*Multi-agent coordination* (`packages/multi-agent`):

- A second `advanceStep` completes a running step without looking at its workflow
  instance (`README.md:54`); overlapping ones start two instances; an
  `assignWorker` during `startWorkflow` is overwritten.
- `startWorkflow` stores its instance before it dispatches the first step, and the
  dispatch may throw (`packages/workflow-engine/src/runtime.ts:210-219`): the instance
  stays, the step keeps no trace of it, and the next `advanceStep` starts a second
  one.  `StartedOnce` counts such instances apart.
- `missions.start`, `transition`, `complete` and `fail` are public
  (`lifecycle.impl.ts:106-132`; `tests/mission-lifecycle.test.ts:49-56`): a mission may be
  begun without plan or coordinator, and ended without an execution.
- `startMission` on an active mission throws only after it has saved a second plan
  and pointed the coordinator at it, while `completeMission` judges the first;
  two starts may add two coordinators.
- `completeMission` stores its execution before the transition that may throw
  (`orchestrator.impl.ts:201`), and fails a mission with unresolved steps
  (`MISSION_MODEL.md:142`); a transition that read the mission earlier reopens one
  that is over (`lifecycle.impl.ts:62`).  `autoStartWorkflows` is never consulted.

## 5. What is proved

For any sets of calls, keys, records and requests, from the assumptions named in
the modules (which the runs evaluate).  Each component's type invariant is proved
and so is in no run; `PROJECT.json` lists the theorems.

- **KeyMutexProofs.**  Types, mutual exclusion, call order, `TailIsNewest`, and
  that the mutex implements FifoLock.  `MutualExclusion` alone is not inductive:
  it says nothing of the calls that wait.  `MutexInv` adds that of two calls of a
  key one was made earlier (`OrderInv`), that the predecessor a call waits for
  was itself made after all the other earlier calls (`ChainInv`), and that an
  entry of the map that is gone means that every call of the key has settled
  (`TailInv`).  The last is what makes the cleanup safe, and what fails when an
  entry is dropped too soon.  For the refinement, the queue of a key is the
  enumeration of its waiting calls by when they were made; an enumeration is
  unique because a call's position is the number of calls before it, so a new call
  is appended, the one that may start is the head, and a finished one was.
- **KeyMutexProofs, stock.**  `NoDuplicateLevel`, no lost update, no
  over-reservation, and that the engine implements StockBook.  `StockInv` joins
  `MutexInv` with types, the relation of a call's outcome to its place in the
  chain, `NoDuplicateLevel` and `CopyIsCurrent`: a copy stays current because the
  only sections that could change the level are kept out, so exclusion is needed
  at every step.  The types give that no quantity is negative.  `SaveLevel` is the
  step at which a mutation takes effect.
- **InventoryCountingProofs.**  Movements: types and `FailedMovesNothing`, on their
  own and beside a count.  `LegInv` says how far a movement's mutations are at each
  of its stages; a transfer's second one is an increase, which StockBook never
  refuses, so a failure has no first one to undo.  Counting: `CompletionAdjustsAll`
  without condition, `CompletedIsFinal` and `RecordedCountsKept` of calls that do
  not overlap.  `AdjustInv` says that a completion has adjusted every varying line
  before the one it is at, which needs the next line to be the smallest left;
  `CurrentInv` that without overlap what a call has read is still stored.
  `LedgerBalances` for movements alone and beside a count: `BookInv` says that
  at every step what is on hand is the opening quantity and what the mutations of the
  movements begun so far have done, and that these are the ones the requests call for;
  once no movement is under way, that is what the records say.
  `CompletedIsReconciled`: `StartedInv` says that a completion adjusts only lines that
  vary in the copy it read, and by what they vary; `OneCompletionInv` that without
  overlap one completion at most was saved and the count is what it saved.
- **KeyMutexProofs, planning.**  Planning uses the mutex as the FifoLock it
  implements, only a stale update reopens an assignment, and `WithinCapacity`.
  `SectionInv`: a section is under way only while its call runs, an assignment
  exists only once its `assign` has saved, and whatever is changed or closed exists.
  `CapacityInv`: while a section is under way, what its assignee carries without the
  assignment it works on is at most what it has read, because the lock keeps other
  sections of the assignee out and closing only takes away.
- **PaymentsProofs.**  `BalanceNeverNegative`, `AppliedNoteCredited`,
  `LossOnlyByOverwrite`, and the refinement of PaymentLedger.  `PaymentsInv` adds
  that a call inside `applyToInvoice` is at the head of its invoice's queue
  (`LockInv`), what an invoice's status says of what is paid (`InvoiceInv`), and
  that the copy a guarded call holds is at least as paid as the stored invoice,
  and the stored one where no issue or cancellation overwrites it (`CopyInv`).
- **MissionSchedulerProofs.**  All four safety properties of the run.  A copy may be
  old, so what is true of a mission must be true of every row a request holds:
  `AttemptsInv` bounds its attempts by the retries accepted, `RunningInv` ties
  RUNNING to a request that still has to save an outcome or to a fault,
  `OutcomeInv` says what an execution holds after it, and `HistoryInv` that records
  and requests still to record add up to the executions.
- **JournalEntriesProofs.**  All four properties of the run, and that balanced
  templates are enough for `EntriesBalance` (`OnlyTemplatesUnbalance`), which no run
  checks: it fails with any template that does not balance.  `FreshInv`, `SeenInv` and `SavedInv`
  say what the records of calls that have not begun, that have read and that have
  saved once look like; `SequentialInv` adds, while nothing overlaps, that what
  was read is current and an entry has one reversing entry; `GenerationInv` that
  the entries of a template are as old as its last date says.
- **CoordinationProofs.**  All five properties of the run, and that a mission under
  way is planned unless a caller of the lifecycle began it; for moves to any status.
  `StepCallInv` and `MoveCallInv` say what the copies of a
  caller imply of the stored steps and mission, `StoreInv` what executions imply
  of steps, `SoloInv` that on a step no two callers worked on at once, a copy is
  current and the instances started are the one the step names or is about to, and
  the orphaned ones.

- **SetSums.**  A sum over a finite set is a fold that chooses its next element, and
  the library's induction theorems are out of the provers' reach.  The lemmas argue
  by a smallest counterexample instead: among the subsets for which a claim fails
  there is one that holds no other (`SmallestSubset`, from the well-foundedness of
  the naturals), and taking one element away from it gives a contradiction.  So a
  partial sum exists for every subset and is unique (`SumsExist`, `SumsAreUnique`),
  it is what the fold computes (`SumsAreTheFold`), and one term can be taken out,
  changed or bounded (`SumWithout`, `SumChange`, `SumsAtMost`).
- **WorkflowProofs.**  The eight safety properties of the two runs, for any graph,
  handlers, policies and bounds.  See below.

**The executor.**  `BaseInv` holds without any hypothesis, of overlapping calls too:
types (`WorkflowTypeOK`), who is behind or inside the lock (`ChainInv`), where a task's
record is or will be stored (`PlaceInv`), what exists before the start (`StartedInv`),
and that no record, stored or held, counts more attempts than its policy allows
(`RecordInv`).  It gives `ExecutorRecordsAreWellFormed` and `AttemptsStayWithinPolicy`.

Every other property of the executor fails in general, in ways section 4 lists: whole
records are written back from copies, and the lock lets callers through.  So each
theorem names the discipline under which it holds.  The disciplines are conditions on
the constants, the code does not enforce them, and each is met by the run that checks
the property.

| Theorem | Property | Holds when | Met by |
| --- | --- | --- | --- |
| `TerminalStays` | `TerminalIsFinal` | there are no calls or they are awaited one by one (`SoloClient`), and no two handlers run beside each other (`Sequential`: no forks, or no step with a handler runs it) | `workflow_manual` |
| `ResolvedStepsStay` | `ResolvedStepsAreFinal` | `Undisturbed`: no calls at all, forks allowed; or calls one by one and `Sequential` | both |
| `FailureTakesEveryAttempt` | `FailedOnLastAttempt` | `Undisturbed` | both |
| `JoinsWaitForBranches` | `JoinQuorum` | no calls; `OnlyJoined`: the step of a join is started by nothing else | `workflow_handlers` |
| `RunningIsNeverStranded` | `RunningHasWork` | `SoloClient`; no calls, or `Unconditional`: no conditions; `Uninterrupted`: nobody suspends the instance or cancels a step | `workflow_handlers` |
| `HandlersAreGivenOutputs` | `HandlersSeeOutputs` | `Orderly`: calls one by one, `Sequential`, and waits without output; or no calls, whatever branches merge | `workflow_handlers` |
| `CompensationsGoBack` | `CompensationReversed` | no calls | `workflow_handlers` |
| `FailureIsCompensated` | `FailedMeansCompensated` | no calls; the graph has no cycle (`Ranks`), since a step done twice is compensated twice | `workflow_handlers` |

Why they are needed: two failing branches fail an instance that a third has completed,
and overlapping calls write back what they read (section 4).  A call may start the step
of a join itself.  After a suspension, or a thrown condition, an instance is left
running with nothing to do: the property excepts a condition behind the step stored
last, and with calls it may be behind an earlier one.  A call that is
let through the lock overwrites merged output.  `RunningHasWork` and
`CompensationReversed` speak of instances without branches only: beside branches a lost
merge leaves a status that was over, and compensation goes by the time of completion.

The inductive invariants, each on top of `BaseInv`:

- `CalmInv`: under the first discipline there is one activity at a time and its copy of
  the instance is the stored one.  `ChosenInv` says what a decision looks like.
- `OwnInv`: no two activities work on one step instance, and the status each holds is
  the stored one.  This is what branches keep from each other although they share no
  lock, and what a second call on the step destroys.
- `GaveUpInv`: there is a step that failed on its last attempt, or no task has begun to
  handle a failure, no copy of the instance is failed and nothing is compensated.
- `JoinInv`: the step of a join exists, or is decided on, only with its quorum; the
  quorum stays because, by `OwnInv`, what is completed stays completed.
- `WorkInv`: a running instance has work left, a task that is advancing or failing, or a
  condition behind its last record has thrown.  `LastInv` makes it the last: in a
  sequence without calls, what advances is the step stored last.
- `OutputInv`: in a sequence, the output of a completed step is stored or about to be
  merged by the one task that carries it.  `EarlyInv`: once branches have been started,
  the outputs of the steps before them are in the stored instance and in every copy a
  task holds, so no merge, however stale, can lose one.
- `OrderInv`: while there are no branches, what is still to be compensated is ordered by
  completion and lies no later than what was compensated already; compensation begins
  with nothing compensated, because only one failure is ever handled.  `RisingInv` adds
  that steps complete in the order they are stored in, so only the instant can tie.
- `RankInv`: the steps stored later have a higher rank, so no step is there twice.
- `CompInv`: every completed step that declares a compensation is either marked and has
  one compensation, or is in what the task has still to do and has none, but for the
  one that is being compensated.

**Only model-checked.**  Liveness, because fairness and ENABLED are beyond the prover:
`OtherKeysProceed`, `EveryMovementEnds`, `RunningEnds`, `EventuallySettled`.

## 6. The plan

1. *Done*: mutex, stock, movements, counting, executor; payments, resource
   planning, journal entries, mission scheduler, coordination; the proofs of
   section 5.
2. `CostLayers` for valuation: layers consumed once, value conserved; what an
   overlap of two issues loses.
3. `RefreshTokens` for the identity service: a rotated token used twice.
4. The executor: overlapping operator calls, commands on branches, suspension
   during a failure; Coordination over it instead of over any outcome.
5. Proofs: *done* for every safety property the runs check.  Left: what holds
   of a running instance beside branches, and weaker disciplines where an overlap of
   calls is harmless.

## 7. Not modelled, and why

- Inside the modelled components: definitions and templates of workflows and
  recurring entries (constants of the models), workflow histories and read models
  (written, never read by the executor), condition evaluation and decimal
  formatting (pure), repositories (Maps: a read or save is one step), domain
  events (synchronous notifications with no effect on the publisher), the
  scheduler's schedules, triggers and event listener (they only add missions, or
  have no caller), `escalate` of the coordination (a request in another service),
  customers, vendors and aging.
- Components with shared state that are left: valuation and identity, in the plan.
- The rest: `PROJECT.json` lists it with status `not_modelled`.  Most of the
  repository's lines are controllers, pages, seeds and validators, engines that
  compute over data, and independent records with the last writer winning; a
  model of them would restate them and has no behaviour for a checker to explore.
