------------------------------ MODULE AgentLoop ------------------------------
(***************************************************************************)
(* The step loop of an agent run over the tasks of an approved plan        *)
(* (modules/agent/service.py execute_run and _run_step, selection.py,      *)
(* decisions.py, limits.py).                                               *)
(*                                                                         *)
(* One worker drives a run; the races of several are AgentRun's subject.   *)
(* The assignment may have several runs, which share the statuses of the   *)
(* plan's tasks: the model follows the one in hand and keeps the others    *)
(* aside, and the requests turn from one to another between steps.         *)
(* What is modelled here is the content of a step: which task is selected, *)
(* which decisions are accepted, what each writes, and when the writes are *)
(* committed.  The worker's transaction is the variable txn: a step writes *)
(* txn, and db, the committed rows, takes its value at each commit.  An    *)
(* advancing step commits nothing: its writes ride on the next claim.      *)
(*                                                                         *)
(* Tasks are numbered in selection order (priority, position, key).        *)
(* Ledger rows are kept as the counts the code derives from them.          *)
(***************************************************************************)
EXTENDS AgentStatus, Integers, FiniteSets, Functions

CONSTANTS
    Tasks,           \* the plan's tasks, numbered in selection order
    Submit,          \* those of a type only the student may complete
    Decisions,       \* what a step may meet: answers, failures, or no model at all
    Supervised,      \* the run's mode
    MaxIterations,   \* run.max_iterations
    MaxAttempts,     \* agent_max_task_attempts
    MaxFailures,     \* agent_max_consecutive_failures
    MaxDrafts,       \* MAX_REVISIONS_PER_TASK
    MaxArtifacts,    \* agent_max_artifacts
    MaxStepTools,    \* agent_max_tool_calls_per_step
    MaxRunTools,     \* agent_max_tool_calls_per_run
    MaxRuns,         \* bound: runs created over the plan
    MaxAside         \* bound: iterations of a run the requests turn away from

AllDecisions == {"fail", "tool", "sandbox", "draft", "ask", "block", "complete",
                 "review", "pause", "overspend", "no provider"}

ASSUME AgentLoopAssumption ==
    /\ Tasks \subseteq Nat /\ Tasks # {} /\ IsFiniteSet(Tasks)
    /\ Submit \subseteq Tasks
    /\ Decisions \subseteq AllDecisions
    /\ Supervised \in BOOLEAN
    /\ {MaxIterations, MaxAttempts, MaxFailures, MaxArtifacts, MaxRuns} \subseteq Nat \ {0}
    /\ {MaxDrafts, MaxStepTools, MaxRunTools, MaxAside} \subseteq Nat

VARIABLES
    deps,      \* the plan's dependency edges: task -> set of predecessors
    db,        \* what is committed of the run in hand, and the tasks' statuses
    txn,       \* what the worker's session holds
    work,      \* the worker: where it is in its loop
    ending,    \* how the last worker on the run in hand ended
    run,       \* the run in hand
    aside      \* what is committed of the other runs

vars == <<deps, db, txn, work, ending, run, aside>>

-----------------------------------------------------------------------------
(* The plan graph (validate_graph accepts only acyclic plans).             *)

\* In every set of tasks some task has no predecessor inside the set.
Acyclic(d) ==
    \A S \in SUBSET Tasks : S # {} => \E t \in S : d[t] \cap S = {}

Finished(task) == {t \in Tasks : task[t] = "COMPLETED"}

\* Mutant: the graph flows around a blocked task.
RunnablePastWall(task) ==
    {t \in Tasks : /\ task[t] \in {"PENDING", "IN_PROGRESS"}
                   /\ \A p \in deps[t] : task[p] \in {"COMPLETED", "BLOCKED"}}

\* executable_keys: a task in hand stays executable, a blocked one is a wall.
Runnable(task) ==
    {t \in Tasks : task[t] \in {"PENDING", "IN_PROGRESS"} /\ deps[t] \subseteq Finished(task)}

\* Mutant: tasks nobody has touched go first.
SelectedUntouchedFirst(task) ==
    LET fresh == {t \in Runnable(task) : task[t] = "PENDING"}
        from  == IF fresh = {} THEN Runnable(task) ELSE fresh
    IN  CHOOSE t \in from : \A u \in from : t <= u

\* select_next_task takes the first in order.
Selected(task) == CHOOSE t \in Runnable(task) : \A u \in Runnable(task) : t <= u

-----------------------------------------------------------------------------
(* The rows of a run, and the plan's task statuses, which outlive it.      *)

Runs == 1..MaxRuns

FreshRun(task) ==
    [status |-> "CREATED", iter |-> 0, task |-> task,
     attempts |-> [t \in Tasks |-> 0],    \* agent_task_executions, per task
     streak |-> 0,                        \* executions since the last success
     drafts |-> [t \in Tasks |-> 0],      \* agent_artifacts, per task
     calls |-> 0]                         \* agent_tool_invocations

NoTask == [t \in Tasks |-> "PENDING"]

\* A run that is not created yet, or over, or in hand, is kept by a status alone.
StatusOnly(status) == [status |-> status]

NoWork == [pc |-> "off", node |-> 0, seen |-> "PENDING", steps |-> 0, tools |-> 0]

Init ==
    /\ deps \in {d \in [Tasks -> SUBSET Tasks] : Acyclic(d)}
    /\ db = FreshRun(NoTask)
    /\ txn = db
    /\ work = NoWork
    /\ ending = "none"
    /\ run = 1
    /\ aside = [r \in Runs |-> StatusOnly("NONE")]

Off == work.pc = "off"

\* A count that is only ever compared with a limit is kept up to one past it.
UpTo(n, limit) == IF n > limit THEN limit ELSE n

Commit(row) == db' = row /\ txn' = row

\* The worker commits and returns its StepOutcome.
Return(row) ==
    /\ Commit(row)
    /\ work' = NoWork
    /\ ending' = "returned"
    /\ UNCHANGED <<deps, run, aside>>

\* The step advanced: its writes stay in the transaction, the loop goes on.
Advanced(row) ==
    /\ txn' = row
    /\ work' = [work EXCEPT !.pc = "head"]
    /\ UNCHANGED <<deps, db, ending, run, aside>>

\* _close_execution with SUCCESS or PARTIAL_SUCCESS ends the streak that
\* _consecutive_failures counts; any other closing status, a question's or a
\* block's included, lengthens it.
Succeeded(row) == [row EXCEPT !.streak = 0]

-----------------------------------------------------------------------------
(* The student and the sweep, while no worker is on the run.               *)

\* execute_run commits what its caller did and enters the loop RUNNING.
Enter(committed) ==
    /\ db' = [db EXCEPT !.status = committed]
    /\ txn' = [db EXCEPT !.status = "RUNNING"]
    /\ work' = [NoWork EXCEPT !.pc = "head"]
    /\ UNCHANGED <<deps, ending, run, aside>>

Start  == Off /\ db.status = "CREATED" /\ Enter("STARTING")

WallGone == \A t \in Tasks : db.task[t] # "BLOCKED"

\* A paused, waiting or blocked run; a blocked one only if nothing is still blocked.
Resume ==
    /\ Off /\ db.status \in ResumableStatuses
    /\ db.status = "BLOCKED" => WallGone
    /\ Enter("RUNNING")

Answer == Off /\ db.status = "WAITING_FOR_USER" /\ Enter("RUNNING")

\* Mutant: a status is written without asking the table.
SetStatusUnchecked(status) ==
    /\ Commit([db EXCEPT !.status = status])
    /\ UNCHANGED <<deps, work, ending, run, aside>>

SetStatus(status) ==
    /\ CanMove(db.status, status)
    /\ Commit([db EXCEPT !.status = status])
    /\ UNCHANGED <<deps, work, ending, run, aside>>

Pause  == Off /\ SetStatus("PAUSED")

Cancel == Off /\ SetStatus("CANCELLED")

\* The last open question expires (_release_waiting_run).
Expire == Off /\ db.status = "WAITING_FOR_USER" /\ SetStatus("PAUSED")

\* pause_stale_run, for a run whose worker is gone.
Recover == Off /\ db.status \in RecoverableStatuses /\ SetStatus("PAUSED")

\* active_run finds nothing: runs that are still CREATED, or over, do not count.
NoneActive ==
    db.status \notin ActiveStatuses /\ \A r \in Runs : aside[r].status \notin ActiveStatuses

SetAside(row) ==
    IF row.status \in TerminalStatuses THEN StatusOnly(row.status)
    ELSE [row EXCEPT !.task = NoTask]

\* The run in hand is put aside for run r.
TurnTo(r, row) ==
    /\ Commit(row)
    /\ run' = r
    /\ aside' = [aside EXCEPT ![run] = SetAside(db), ![r] = StatusOnly("NONE")]
    /\ ending' = "none"
    /\ UNCHANGED <<deps, work>>

\* Mutant: a new run starts the plan over.
NewRunFromScratch ==
    /\ Off /\ NoneActive
    /\ \E r \in Runs \ {run} : aside[r].status = "NONE" /\ TurnTo(r, FreshRun(NoTask))

\* create_run over the same approved plan.
NewRun ==
    /\ Off /\ NoneActive
    /\ \E r \in Runs \ {run} : aside[r].status = "NONE" /\ TurnTo(r, FreshRun(db.task))

\* The next request names another run, one that is not over.
Switch ==
    /\ Off /\ (db.iter <= MaxAside \/ db.status \in TerminalStatuses)
    /\ \E r \in Runs \ {run} :
          /\ aside[r].status \in Statuses \ TerminalStatuses
          /\ TurnTo(r, [aside[r] EXCEPT !.task = db.task])

-----------------------------------------------------------------------------
(* The loop: budget, claim, selection.                                     *)

AtHead == work.pc = "head" /\ work.steps < MaxIterations

\* _fail_run, from wherever a budget is found spent.
FailRun(row) == Return([row EXCEPT !.status = "FAILED"])

IterationsSpent == AtHead /\ txn.iter >= MaxIterations /\ FailRun(txn)

\* Mutant: a claim that does not count.
ClaimUncounted ==
    /\ AtHead /\ txn.iter < MaxIterations
    /\ Commit(txn)
    /\ work' = [work EXCEPT !.pc = "claimed"]
    /\ UNCHANGED <<deps, ending, run, aside>>

\* The claim commits the counter, and with it whatever the previous step wrote.
Claim ==
    /\ AtHead /\ txn.iter < MaxIterations
    /\ Commit([txn EXCEPT !.iter = @ + 1])
    /\ work' = [work EXCEPT !.pc = "claimed", !.steps = @ + 1]
    /\ UNCHANGED <<deps, ending, run, aside>>

\* Mutant: the loop just falls out of its range.
StepLimitUnsaid ==
    /\ work.pc = "head" /\ work.steps = MaxIterations
    /\ Return(txn)

\* The loop ran out of steps with the run still RUNNING.
StepLimit ==
    /\ work.pc = "head" /\ work.steps = MaxIterations
    /\ Return([txn EXCEPT !.status = "PAUSED"])

\* Nothing is runnable: done, or behind a wall.
FinishRun ==
    /\ work.pc = "claimed" /\ Runnable(txn.task) = {}
    /\ IF Finished(txn.task) = Tasks
       THEN Return([txn EXCEPT !.status = "COMPLETED"])
       ELSE Return([txn EXCEPT !.status = "BLOCKED"])

\* _run_step opens an execution row, FAILED until closed, and takes the task in hand.
OpenStep ==
    /\ work.pc = "claimed" /\ Runnable(txn.task) # {}
    /\ LET t == Selected(txn.task) IN
       /\ txn' = [txn EXCEPT !.attempts[t] = UpTo(@ + 1, MaxAttempts + 1),
                             !.streak = UpTo(@ + 1, MaxFailures + 1),
                             !.task[t] = "IN_PROGRESS"]
       /\ work' = [work EXCEPT !.pc = "deciding", !.node = t, !.tools = 0,
                               !.seen = txn.task[t]]
    /\ UNCHANGED <<deps, db, ending, run, aside>>

-----------------------------------------------------------------------------
(* The step: one accepted decision, or a failure.                          *)

Deciding(decision) == work.pc = "deciding" /\ decision \in Decisions

\* The statuses the decision is validated against were loaded before the step
\* took its task in hand.
SeenTasks == [txn.task EXCEPT ![work.node] = work.seen]

MayRetry(row) == row.attempts[work.node] < MaxAttempts /\ row.streak < MaxFailures

BlockTask(row) == [row EXCEPT !.task[work.node] = "BLOCKED", !.status = "BLOCKED"]

\* _record_step_failure: retry, or block the task and with it the run.
RecordFailure(row) ==
    IF MayRetry(row)
    THEN Advanced([row EXCEPT !.task[work.node] = "PENDING"])
    ELSE Return(BlockTask(row))

Called(row) == [row EXCEPT !.calls = UpTo(@ + 1, MaxRunTools)]

\* The provider fails, the answer is refused, the work is, or the model asks for
\* another attempt; a refused tool call leaves a row in the invocation log.
StepFails ==
    /\ Deciding("fail")
    /\ \E row \in {txn, Called(txn)} : RecordFailure(row)

\* A cost or token budget refuses the decision call.
BudgetSpent == Deciding("overspend") /\ FailRun(txn)

\* The same refusal of the call that produces the work is caught by nobody: the
\* request fails and its transaction is rolled back.
BudgetEscapes ==
    /\ Deciding("overspend") /\ "draft" \in Decisions
    /\ txn' = db
    /\ work' = NoWork
    /\ ending' = "error"
    /\ UNCHANGED <<deps, db, run, aside>>

ToolsLeft == txn.calls < MaxRunTools /\ work.tools < MaxStepTools

RunToolsSpent ==
    /\ Deciding("tool") /\ txn.calls >= MaxRunTools
    /\ FailRun(txn)

StepToolsSpent ==
    /\ Deciding("tool") /\ txn.calls < MaxRunTools /\ work.tools = MaxStepTools
    /\ RecordFailure(txn)

\* A reading tool feeds its result back for another decision.
CallTool ==
    /\ Deciding("tool") /\ ToolsLeft
    /\ txn' = Called(txn)
    /\ work' = [work EXCEPT !.tools = @ + 1]
    /\ UNCHANGED <<deps, db, ending, run, aside>>

\* An execution tool runs its job in this session, which commits the open step.
CallSandbox ==
    /\ Deciding("sandbox") /\ ToolsLeft
    /\ db' = txn
    /\ txn' = Called(txn)
    /\ work' = [work EXCEPT !.tools = @ + 1]
    /\ UNCHANGED <<deps, ending, run, aside>>

\* _create_checkpoint stops the run in the transaction that asks the question.
Ask(row) == Return([row EXCEPT !.status = "WAITING_FOR_USER"])

Drafts(row) == FoldFunction(+, 0, row.drafts)

\* A draft, from the executor or through the write_artifact tool.  Past the cap
\* the draft is dropped and the student is asked.
Draft(row) ==
    IF row.drafts[work.node] >= MaxDrafts
    THEN Ask(Succeeded(row))
    ELSE IF Drafts(row) >= MaxArtifacts
    THEN FailRun(row)
    ELSE Advanced([Succeeded(row) EXCEPT !.drafts[work.node] = @ + 1])

DraftByExecutor == Deciding("draft") /\ Draft(txn)

DraftByTool == Deciding("draft") /\ ToolsLeft /\ Draft(Called(txn))

\* ASK_USER and REQUEST_APPROVAL.
AskStudent == Deciding("ask") /\ Ask(txn)

AskByTool == Deciding("ask") /\ ToolsLeft /\ Ask(Called(txn))

\* MARK_BLOCKED, which the runtime answers itself when no provider is configured.
MarkBlocked ==
    /\ Deciding("block") \/ Deciding("no provider")
    /\ Return(BlockTask(txn))

\* COMPLETE_TASK is validated against the task the decision names: executable, in
\* hand when the statuses were loaded, and not a submission.
MayComplete == \E key \in Runnable(SeenTasks) \ Submit : SeenTasks[key] = "IN_PROGRESS"

\* ... and completes the task the step selected.
CompleteTask ==
    /\ Deciding("complete") /\ MayComplete
    /\ Advanced([Succeeded(txn) EXCEPT !.task[work.node] = "COMPLETED"])

Review == Deciding("review") /\ Advanced(Succeeded(txn))

\* PAUSE_RUN, refused in autonomous mode; the execution row stays as it was opened.
PauseRun ==
    /\ Deciding("pause") /\ Supervised
    /\ Return([txn EXCEPT !.status = "PAUSED"])

-----------------------------------------------------------------------------

\* The process dies: the open transaction is rolled back.
Crash ==
    /\ ~Off
    /\ txn' = db
    /\ work' = NoWork
    /\ ending' = "crash"
    /\ UNCHANGED <<deps, db, run, aside>>

Student == Start \/ Resume \/ Answer \/ Pause \/ Cancel \/ NewRun \/ Switch

Sweep == Expire \/ Recover

Decide ==
    \/ StepFails \/ BudgetSpent \/ BudgetEscapes
    \/ RunToolsSpent \/ StepToolsSpent \/ CallTool \/ CallSandbox
    \/ DraftByExecutor \/ DraftByTool \/ AskStudent \/ AskByTool
    \/ MarkBlocked \/ CompleteTask \/ Review \/ PauseRun

Work == IterationsSpent \/ Claim \/ StepLimit \/ FinishRun \/ OpenStep \/ Decide

Next == Student \/ Sweep \/ Work \/ Crash

Spec == Init /\ [][Next]_vars

\* A worker runs on until it returns or dies: provider calls time out.
FairSpec == Spec /\ WF_vars(Work)


-----------------------------------------------------------------------------
(* Properties.                                                             *)

TaskStatuses == {"PENDING", "IN_PROGRESS", "COMPLETED", "BLOCKED"}

RunRows ==
    [status : Statuses, iter : 0..MaxIterations, task : [Tasks -> TaskStatuses],
     attempts : [Tasks -> 0..(MaxAttempts + 1)],
     streak : 0..(MaxFailures + 1), drafts : [Tasks -> 0..MaxDrafts],
     calls : 0..MaxRunTools]

\* The types of the rows and of the worker's state.
TypeOK ==
    /\ deps \in [Tasks -> SUBSET Tasks]
    /\ db \in RunRows /\ txn \in RunRows
    /\ work \in [pc : {"off", "head", "claimed", "deciding"}, node : Tasks \cup {0},
                 seen : TaskStatuses, steps : 0..MaxIterations, tools : 0..MaxStepTools]
    /\ ending \in {"none", "returned", "error", "crash"}
    /\ run \in Runs
    /\ aside \in [Runs -> RunRows \cup {StatusOnly(s) : s \in TerminalStatuses \cup {"NONE"}}]

\* A task in hand is always the one the loop selects next, whatever retries,
\* questions, crashes and earlier runs left behind: COMPLETE_TASK, validated
\* against the task the decision names, completes the task it was validated for
\* (validate_semantics and _apply_decision look at two different tasks).
TaskInHandIsSelected ==
    \A row \in {db, txn} : \A t \in Tasks :
        row.task[t] = "IN_PROGRESS" => t \in Runnable(row.task) /\ t = Selected(row.task)

\* No work is done on a task before every predecessor is completed, in any order
\* of retries, blocks and runs (executable_keys: "a blocked task is a wall").
PredecessorsFirst ==
    \A row \in {db, txn} : \A t \in Tasks :
        row.task[t] # "PENDING" \/ row.attempts[t] > 0 \/ row.drafts[t] > 0
            => deps[t] \subseteq Finished(row.task)

\* The rows fit their types and the work done fits the plan.
WorkFitsPlan == TypeOK /\ PredecessorsFirst

\* The runtime never completes a submission by itself, whichever task the decision
\* names (validate_permissions: "self-approval is never permitted").
SubmitIsTheStudents == \A t \in Submit : txn.task[t] # "COMPLETED"

\* Which task a decision falls on, however it names one: the task the loop would
\* select, and never, to completion, a submission.
DecisionsFallWhereTheyMay == TaskInHandIsSelected /\ SubmitIsTheStudents

\* A blocked run has a blocked task to show for it: _finish_run's other reading,
\* "waiting on unfinished earlier tasks", is never the reason a run is blocked.
BlockedRunHasWall == db.status = "BLOCKED" => ~WallGone

\* Whenever a worker is on the run, the committed status is one the sweep looks
\* for, so a crash anywhere leaves a recoverable run (execute_run).
WorkedRunIsRecoverable == ~Off => db.status \in RecoverableStatuses

\* A worker that returned did not leave the run claiming to be worked on
\* (execute_run: "The loop knows it stopped, so it must say so").
LoopSaysItStopped ==
    Off /\ ending = "returned" => db.status \notin RecoverableStatuses

\* The committed status tells who works on the run: a worker, or nobody since a
\* crash, exactly while it is one the sweep looks for; and one that says BLOCKED
\* has a blocked task to show for it.
StatusTellsWhoWorks == BlockedRunHasWall /\ WorkedRunIsRecoverable /\ LoopSaysItStopped

\* Completed work is kept over resumes, crashes and new runs, and a run's drafts as
\* long as it is the one in hand (resume: "work already done is not redone").
WorkIsKept ==
    [][\A t \in Tasks :
          /\ db.task[t] = "COMPLETED" => db'.task[t] = "COMPLETED"
          /\ run' = run => db'.drafts[t] >= db.drafts[t]]_vars

\* Every run of the assignment moves along the transition table only, whichever
\* run the requests turn to, and a run is created only while none is active; two
\* runs created before either was started may both be active.
LC == INSTANCE AgentLifecycle
        WITH status <- [r \in Runs |-> IF r = run THEN db.status ELSE aside[r].status]

FollowsLifecycle == LC!Spec

\* A worker always returns: no loop of tool calls, retries, reviews or redrafts
\* keeps a run busy for ever (agent-runtime.md: "all bound a run independently").
LoopEnds == ~Off ~> Off

=============================================================================
