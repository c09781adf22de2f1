------------------------- MODULE WorkflowProperties -------------------------
(***************************************************************************)
(* What the workflow executor should guarantee, and the fairness under     *)
(* which it makes progress.                                                *)
(***************************************************************************)
EXTENDS WorkflowOrchestrator

\* The event loop goes on while any activity can: pending reactions run, and
\* handlers settle.  Nothing is assumed of callers or of the clock.
Fairness == WF_vars(StartWorkflow \/ \E t \in DOMAIN tasks : TaskStep(t))

FairSpec == Spec /\ Fairness

-----------------------------------------------------------------------------

Terminal == {"completed", "failed", "cancelled"}

Quiet == \A t \in DOMAIN tasks : tasks[t].pc = "done"

Compensations(s) == {n \in DOMAIN steps : steps[n].compensationOf = s}

\* No branches have been started.
InSequence == \A f \in Forks : \A b \in ToSet(f.branches) : FirstMain(b) = {}

\* A failed instance has had every completed step that declares a compensation
\* compensated, exactly once ("on irrecoverable failure, completed steps are
\* compensated"), as long as no branches ran beside each other; and nothing is
\* compensated unless a step has failed for good.
FailedMeansCompensated ==
    /\ (instance.status = "failed" /\ Quiet /\ InSequence) =>
          \A n \in DOMAIN steps :
             (Main(n) /\ steps[n].status = "completed" /\ CompensatedBy[steps[n].step] # NoStep)
                => steps[n].compensated /\ Cardinality(Compensations(steps[n].step)) = 1
    /\ (\E n \in DOMAIN steps : ~ Main(n)) =>
          \E n \in DOMAIN steps : Main(n) /\ steps[n].status = "failed"

\* Steps are compensated in the reverse of the order they were executed in,
\* except that steps completed in the same instant keep that order, unless
\* branches run.
CompensationReversed ==
    InSequence => \A m, n \in DOMAIN steps : (~ Main(m) /\ ~ Main(n) /\ m < n) =>
        \E i \in FirstMain(steps[m].compensationOf), j \in FirstMain(steps[n].compensationOf) :
            i > j \/ steps[i].completedAt = steps[j].completedAt

\* No branch was started before the n-th record.
Early(n) == \A k \in 1..n : \A f \in Forks : steps[k].step \notin ToSet(f.branches)

\* A handler, of a branch or a join too, is given the outputs of all the steps
\* completed before it began and before any branch: whatever branches do to
\* each other's output, they never lose an earlier one.
HandlersSeeOutputs ==
    \A t \in DOMAIN tasks : tasks[t].pc = "handler" =>
        \A n \in 1..(tasks[t].at - 1) :
            (Main(n) /\ Early(n) /\ steps[n].status = "completed") =>
                WithOutput \cap {steps[n].step} \subseteq tasks[t].instance.variables

\* The doc's "concurrent branches never clobber each other's output".
OutputsKept == [][instance.variables \subseteq instance'.variables]_vars

\* A step that an external report, a retry or the clock can move.
HasWork ==
    \E n \in DOMAIN steps : Main(n) /\
        \/ steps[n].status \in {"active", "waiting"}
        \/ steps[n].status = "failed" /\ CanRetry(steps[n].step, steps[n].attempt)

\* A condition behind the step completed last has thrown: nothing goes on.
Stranded ==
    /\ Quiet
    /\ \E n \in DOMAIN steps : /\ n = Len(steps) /\ Main(n) /\ steps[n].status = "completed"
                               /\ <<"error">> \in Resolutions(steps[n].step)

\* A sequence shown as running has an activity in progress or a step to move,
\* unless a condition has thrown.
RunningHasWork ==
    (instance.status = "running" /\ Quiet /\ InSequence) => HasWork \/ Stranded

\* The step after a join starts only once the required branches have completed;
\* in particular never after a failure leaves too few of them.
JoinQuorum ==
    \A f \in Forks : FirstMain(f.to) # {} =>
        Cardinality(CompletedBranches(f)) >= f.required

\* A join is never triggered twice.
JoinOnce == \A f \in Forks : Cardinality(FirstMain(f.to)) <= 1

\* A failed instance has a step that failed on its last attempt, and attempts
\* are never more than its policy allows: failures with attempts left wait for
\* a retry.
FailedOnLastAttempt ==
    /\ instance.status = "failed" =>
          \E n \in DOMAIN steps : Main(n) /\ steps[n].status = "failed"
                                     /\ ~ CanRetry(steps[n].step, steps[n].attempt)
    /\ \A n \in DOMAIN steps : steps[n].attempt <= MaxAttempts[steps[n].step]

\* completed, failed and cancelled are final.
TerminalIsFinal ==
    [][instance.status \in Terminal => instance'.status = instance.status]_vars

\* A completed, skipped or cancelled step instance stays so, and a failed one is
\* only ever made active again.
ResolvedStepsAreFinal ==
    [][\A n \in DOMAIN steps :
          /\ steps[n].status \in {"completed", "skipped", "cancelled"} =>
                steps'[n].status = steps[n].status
          /\ steps[n].status = "failed" =>
                steps'[n].status \in {"failed", "active"}]_vars

\* What an instance may come to without callers: it is over, a step without a
\* handler waits for its report, or a condition has thrown.
Settled ==
    \/ instance.status \in {"completed", "failed"}
    \/ \E n \in DOMAIN steps :
          Main(n) /\ steps[n].step \notin Handled /\ steps[n].status = "active"
    \/ Stranded

\* The branches of a fork have come to their join, or one of them has failed;
\* the status may be lost by then, as a late merge saves the instance it read.
BranchesOver ==
    Quiet /\ \E f \in Forks :
        \/ FirstMain(f.to) # {}
        \/ \E b \in ToSet(f.branches) : \E n \in FirstMain(b) : steps[n].status = "failed"

\* Every started workflow settles for good, and its branches always come to
\* their join unless one fails.
EventuallySettled == <>[](Settled \/ BranchesOver)

=============================================================================
