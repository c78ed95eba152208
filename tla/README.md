# StudyOS in TLA+

StudyOS turns an assignment a student uploads into an analysis, a plan and, with the student's
approval, a supervised run of an *agent* that works through the plan task by task. This directory
models the parts of it in which something can go wrong that no unit test would reach: requests
that overlap on one row, workers that die, sweeps that mistake a live worker for a dead one, two
edits that are right apart and wrong together, algorithms whose hand-kept stacks and caps meet
inputs nobody tried, migrations undone and applied again.

Paths below are relative to `src/apps/api/app/` unless they start with `src/`.

* [1. The system](#1-the-system): inventory of components, state, interactions
* [2. What is modelled](#2-what-is-modelled): module by module, against the code
* [3. What is checked](#3-what-is-checked): runs, bounds, fairness
* [4. What is proved](#4-what-is-proved)
* [5. Where the code and its documentation part](#5-where-the-code-and-its-documentation-part)
* [6. What is not modelled, and the plan](#6-what-is-not-modelled-and-the-plan)

`PROJECT.json` holds the same facts for tools: the map from each definition to the lines it
translates, the mutants that show each property can fail, and the hazards with their lines.

## 1. The system

Three kinds of process share one PostgreSQL database: the API (FastAPI, one asyncio process per
replica), the execution worker (`modules/execution/worker.py`, restarted by compose whenever it
dies) and the student's browser (`src/apps/web`), which polls. There is no message broker and no
in-memory state shared between requests; **rows are the only shared state**, and all
coordination happens through them. Three facts of `db/session.py` shape every interaction:

* each request and each worker cycle owns one `AsyncSession`, at PostgreSQL's READ COMMITTED;
* `expire_on_commit=False`: what a session has read stays as it was read, also over commits;
* an UPDATE writes the columns that differ *from that view*, over whatever the row has become,
  and its row lock is held until the transaction ends. A session that is closed without a commit
  is rolled back.

So every handler is a read, a decision on what was read, and a later write, and what protects it
must be a conditional UPDATE or a unique constraint.

| Component | State | Operations | Talks to | What is hard |
| --- | --- | --- | --- | --- |
| **Agent runs** `modules/agent/service.py`, `router.py`, `state_machine.py` | `agent_runs` (status, `lock_version`, iteration counter, heartbeat), `agent_events` (unique `(run, sequence)`), `agent_checkpoints` | create, start, pause, resume, cancel, resolve a checkpoint; `execute_run`, the worker loop inside the request that started it | plan tasks, providers, execution jobs | any two requests on one run; the loop survives only as long as its request; compare-and-swap claim per step; a provider call inside a transaction |
| **Agent step** `_run_step`, `selection.py`, `decisions.py`, `limits.py`, `executors.py`, `tools.py` | `agent_task_executions`, `agent_artifacts`, `agent_tool_invocations`, the plan's task statuses | select a task, take a decision, validate it, apply it, record a failure | model providers, execution gateway | which writes are committed when; retries, budgets, questions and crashes in any order over an arbitrary task graph |
| **Recovery** `modules/agent/recovery.py`, `main.py` | none of its own | sweep of stale runs and expired questions, from an endpoint and at boot | agent runs | a live worker that looks dead; a question answered while it expires |
| **Execution plane** `modules/execution/{queue,orchestrator,worker,service,gateway}.py` | `execution_jobs` (status, attempts, lease, cleanup, `lock_version`), `execution_attempts` (unique `(job, attempt)`), the event log | submit (queued or inline), claim, execute, cancel, recover | agent tools (inline, in the run's own session), sandbox backends | workers, inline requests, cancellations and the sweep on one row, with crashes between any two commits |
| **Execution backends** `modules/execution/backends/*`, `adapters.py`, `policies.py` | containers | run a submission in a sandbox | Docker | I/O; container names per job |
| **Planning** `modules/planning/*` | `plans` (version, status, stale flag), milestones, tasks, edges, `planning_runs` (idempotency key) | generate, approve, edit the graph, mark stale | analysis, agent runs | version numbers and keys under retries; two edits that are acyclic apart and a cycle together |
| **Analysis** `modules/analysis/*` | `analyses` (revision, status, overlay), `analysis_runs` | run, edit, review, confirm | specification, planning | one run at a time, lost updates of the overlay, staleness |
| **Assignments** `modules/assignments/*` | assignments, requirements, criteria, versions | specification edits, readiness, lifecycle, versions | everything below it | version numbering, the readiness gate that takes a status back |
| **Documents** `modules/documents`, `storage/` | rows and files | upload, delete | assignments | two stores without a common transaction |
| **Auth, rate limit** `modules/auth`, `core/` | users, one in-process sliding window | log in, register | all | per-process window |
| **Courses, dashboard, notifications, health** | single rows | CRUD | | |
| **Providers and heuristics** `ai/` | none | complete a prompt | agent, analysis, planning | external; may fail, time out, answer anything |
| **Web client** `src/apps/web/lib/use-*.ts` | component state | read, poll, act | the API | answers that arrive in another order than they were asked for |

**What would make each of them correct.** An agent run has one writer at a time, keeps to its
transition table and its budgets, keeps its order of work, never sits in a state nobody will
move it out of, and never loses what the student said. An execution job is executed by one
session at a time, is never lost, ends with its evidence recorded and its sandbox accounted for,
and stays ended. A plan is acyclic, has one approved version, and is not edited once approved. An
analysis has one run at a time and loses no edit. Version numbers and idempotency keys mean what
they say when requests are repeated. A page never shows an older state after a newer one.

`PROJECT.json` lists forty hazards at their lines with the properties that would catch them. Two
have no property: that handlers overwrite what they did not read (the code does not prevent it;
section 5 says what comes of it) and that two runs created over one plan can be worked on at the same
time (`AgentLoop` lets them take turns; the composition that would let them overlap is the next step
of the plan, section 6).

## 2. What is modelled

| Module | Models | EXTENDS / uses |
| --- | --- | --- |
| `AgentStatus` | the run's status vocabulary and transition table, as data | |
| `AgentLifecycle` | abstract: what the statuses of an assignment's runs promise | `AgentStatus` |
| `AgentRun` | one run, as its row and overlapping requests see it | `AgentStatus` |
| `AgentLoop` | what a step does to tasks, ledger and run, over an arbitrary plan; implements `AgentLifecycle` | `AgentStatus`, `INSTANCE AgentLifecycle` |
| `ToolCalls` | the tool loop inside a run's steps: gates, cache, allowances, lost transactions | |
| `Calculations` | the exact tools of the mathematics worker, turn by turn | |
| `ContextAssembly` | the text a model is given at each step, under its limit | |
| `ExecutionQueue` | execution jobs: requests, workers, sweeps, crashes | |
| `PlanGraph` | what a sound dependency graph is, and the order the keys allow | |
| `GraphSearch` | the two graph traversals of the code, step by step | `PlanGraph` |
| `Planner` | from an analysis, as validated or as the student edited it, to a plan, one step per item | `PlanGraph` |
| `PlanHistory` | abstract: what the versions of a plan promise | |
| `PlanVersions` | one assignment's plan under overlapping requests; implements `PlanHistory` | `PlanGraph`, `INSTANCE PlanHistory` |
| `AssignmentLifecycle` | the assignment's status table, as data | |
| `Readiness` | the readiness gate and the score | |
| `Specification` | one assignment's specification and files under overlapping requests | the two above, `PlanGraph` |
| `AnalysisRuns` | one assignment's analyses under overlapping requests | `AssignmentLifecycle` |
| `DeclaredSchema` | the schema the entities declare, as a set of facts | |
| `Migrations` | the twelve migrations, up and down, on a database with rows | `DeclaredSchema` |
| `AgentRunProofs`, `AgentLoopProofs`, `ExecutionQueueProofs`, `SpecificationProofs`, `SequentialProofs`, `AgentToolsProofs`, `AnalysisRunsProofs`, `PlanVersionsProofs` | theorems | the module they are about |
| `MC*` | instances for TLC | |

A definition whose comment begins with "Mutant:" is no part of the model. It is the definition
that follows it with a plausible bug put in, and is kept to show that some property would notice.

Three shapes recur. A **request** is read at one step, and flushed or committed at later ones, with
anything of anybody in between; history variables (`overtaken`, `raced`, `moved`, `disturbed`, `stray`)
record which overlaps happened, so that a property can say precisely what is kept *unless* one
did. An **algorithm** takes one step per turn of its loop, with the loop's own variables as state,
so that its invariants can be stated at every turn and not only of its answer. A **table** of the
code (statuses, transitions, weights, schema) is data.

### `AgentRun`: one run, many requests

| Variable | Code |
| --- | --- |
| `row` | the committed `agent_runs` row: status, `lock_version`, iteration counter; `beat` says whether its heartbeat is inside the staleness window |
| `log` | the sequences of its committed events |
| `question` | its checkpoints' statuses, in the order they were asked |
| `wall` | some task of the plan is BLOCKED |
| `lock` | the session that has flushed an UPDATE of the row and not yet committed |
| `sess` | per request: what it has read (status, version, iteration counter, the selected questions) and flushed |
| `claimant` | history: whose claim committed last |
| `stray` | history: an answer was taken to a question the run did not wait for, or a resume to a run in STARTING |

A short request is two steps, the read (`Receive`, `ReceiveAnswer`, `ReceiveSweep`) and the
commit (`CommitPause`, `CommitCancel`, `CommitStart`, ...), with anything of anybody in between.
A request refused on what it read changes nothing and is not a step. `start`, `resume` and
`resolve` then become the run's worker (`HandOver`) as `execute_run` does: `Claim` is
`claim_step`'s UPDATE with `WHERE lock_version = :seen`, `OpenStep` the flush that takes the row
lock, `CommitMidStep` the execution tools' commit in the middle of a step, `Advance` a step whose
writes are committed by the next claim, `StopWith*`, `Finish` and `FailUnclaimed` the ways out of
the loop, and `Conflict` the 409 when another session has used the next event number. The event
log is what makes an unconditional write by a stale session mostly harmless: its status change
and its event are one transaction, and the event number it computed from what it had read is
usually taken. The properties say where "mostly" and "usually" stop: `stray` becomes TRUE when one of
the two requests is served that the code accepts and its claim does not arbitrate, and what
the code keeps only until then is stated for runs nobody has strayed into. All seven kinds of request
are in the run that checks those properties; nothing is left out of it.

`CommitAnswer` writes `row.status` back when the run was not seen waiting because the ORM leaves
an unchanged column alone.

### `AgentLoop`: the content of a step

The runs over one plan, of which one is in hand at a time: its worker, and one student's requests
between the worker's steps. `db` is what is committed, `txn` what the worker's session holds: each step writes `txn`, and only `Commit` moves it to `db`. This is
what the code does (an advancing step flushes and does not commit), and it is where crashes
bite. `deps` is chosen in `Init` among *all* acyclic graphs over the tasks, which is what
`validate_graph` leaves of the plans. A task's number is its place in `select_next_task`'s order.
The decision is any that the validation of `decisions.py` lets through, each with its effect, and
each failure `_record_step_failure` distinguishes. `"overspend"` stands for the token and cost
budgets, `"no provider"` for a deployment without a model. Ledger rows are kept as the counts the
code derives from them (`_attempt_number`, `_consecutive_failures`, drafts per task, tool calls),
and each count up to one past the limit it is compared with (`UpTo`).

`NewRun` is `create_run`: it asks `active_run`, whose list leaves CREATED out, so a second run can be
created while the first waits to be started, and both can be open. `Switch` is the student turning to
another run: its rows come from `aside`, the run in hand goes there, and the task statuses, which are
the plan's, stay. A run that is over, or not created, is kept by its status alone. What is left
out is a request on one run while a worker is inside another.

`FollowsLifecycle` is the refinement: `AgentLoop`, with the status of every run, implements
`AgentLifecycle!Spec`: a run is created only when none is active in the code's sense, and each moves
along the table. It does not promise that one run is open at a time, because the code does not keep
that. Concurrent requests on one run, which are `AgentRun`'s subject, do not always keep the
table (section 5).

### `ToolCalls`, `Calculations`, `ContextAssembly`: inside a step

`ToolCalls` is the inner loop of `_run_step`. The model proposes a call (`Propose`), which the
decision check may refuse (`Reject`, by `Gate`: for the task the decision names, the tool, or a
permission, in the order of `validate_semantics`; such a refusal is logged too, before any allowance is
looked at); the call is answered from the step's cache
(`AnswerFromCache`), declined by an allowance (`Decline`), answered (`Answer`) or refused
(`Refuse`) by `invoke_tool`'s own gates. `log` is `agent_tool_invocations`, of which the first
`saved` rows are committed: a crash, a claim lost to another worker between two steps, or an escaping exception takes the rest
(`Crash`, `CrashInSandbox`, `RiskEscapes`). `slots` are the unique slots of the step's decision rows,
the final decision's included, and
`told` is what the model has been given back. Each answer carries its number (`served`), so that
a stale one can be recognised.

`Calculations` has trial division, Gauss-Jordan elimination over fractions and the iterated
divisor and multiple, each turn of their loops a step; `CalculationsAreExact` compares with the
textbook definitions. A coefficient is converted as the code converts it: to a float
(`AsFloat`, a number of `FloatDigits` significant decimal digits, because `str` of a float is its
shortest decimal), then to the nearest fraction with a denominator up to `MaxDenominator`
(`Limited`, the continued-fraction search of `limit_denominator`); and the values returned are rounded to
`Places` places. `ContextAssembly` keeps texts as lengths and does what the assembler does
with them: shares of the budget, cuts at section boundaries, the last trim at the tail. The one
character that `wrap_untrusted` adds for each closing marker inside a text is left out: it is paid from
the 1500 characters reserved for the frame, and the last trim keeps the limit whatever they come to.

### `ExecutionQueue`: jobs, workers, requests, sweeps

| Variable | Code |
| --- | --- |
| `rows` | `execution_jobs`: status, attempts, whether there is a lease, cleanup status, `lock_version` |
| `ledger` | `execution_attempts` |
| `queued` | EXECUTION_QUEUED events of the job |
| `sess` | per worker cycle and per request: phase, job, what it read, its attempt number, its result |
| `disturbed` | history, see below |

`Flush` is the ORM's UPDATE: of the columns, those that differ from the session's view. A phase
of `ExecutionOrchestrator.execute` between two commits is one action: `Begin`, `Launch`,
`Collect` or `CollectBare`, `Finalise`, with `Reject`, `ExecuteCancel`, `ExecuteReturns` and
`RecordConflict` its other exits. The claim is three steps (`ClaimSelect`, `ClaimUpdate`,
`ClaimRefresh`), cancellation two, the sweep two. The lease is a BOOLEAN because the code writes
*the current time* as its expiry wherever it writes one, so that a lease has expired as soon as
the clock moves. `CREATED`, `QUEUED` and so on are the code's; `"ABSENT"` is a row not yet
inserted.

`disturbed[j]` becomes TRUE when something happens to the job that no guard of the code prevents:
a commit through a view that is no longer what the row holds, a sweep of a job whose holder is
alive, a repeated idempotent request that executes a job somebody may be executing. The
properties that the code keeps only without these are stated for undisturbed jobs; those it keeps
whatever happens (`ClaimedOncePerQueueing`, `EndedJobIsAccounted`) are not. A crash never disturbs a job: recovery from dead workers is covered in full. What a disturbed job
can do is shown by the run `queue_lease`.

### `PlanGraph`, `GraphSearch`, `Planner`: from an analysis to a plan

`PlanGraph!Cyclic` says a set of nodes is on a cycle when each has a predecessor in it; that is the
reference. `GraphSearch` is the code: colours, the explicit path, the iterators left open
(`pending`), then Kahn's order. Roots and children come in any order because Python sets do;
`strict` is the copy in `requirements.py`, which counts a dangling dependency as unmet.

`Planner` is `synthesize_plan`. An analysis comes to it in one of two ways (`Entries`): as the provider
returned it, which `validate_analysis` has passed, or with a student's edits over it
(`effective_payload`), which have met the schema only, so that keys may repeat and dependencies be cyclic or
name nothing. Then there is one step for each item it makes
a task of, layer by layer (`Orient`, `Develop`, `Assemble`, `Arrange`, `Verify`), with the caps,
the deduplication and the traceability references, and `validate_graph`'s verdict on the result.
A dependency between two contract keys is applied to one pair of tasks per step (`linked` holds the
pairs done), because the code asks anew at each pair whether the opposite order already follows.
`Analysis` is what `AnalyzerOutput` lets an analyzer return, as far as a plan is made of it.

### `PlanVersions`: one plan, many requests

| Variable | Code |
| --- | --- |
| `plans` | `academic_work_plans` by version: tasks (`mine`: written by the student; `body`: which edit wrote it), edges, milestones, status, the analysis it was made from, its idempotency key |
| `runs` | `planning_runs` that have a key |
| `analyses` | the analyses by revision: each describes the assignment as it is ("current"), as it was ("changed": the hash differs, and an edit that takes the brief back makes it current again) or is flagged for ever ("flagged") |
| `sess`, `served` | the requests: what they have read and flushed; how many there were |
| `raced`, `moved` | history: versions changed behind another edit's back; requests during which the analysis or the brief moved |

`Generate` and `Regenerate` look the key up and load, `Generate` from the analysis the request names or
the latest (`Contract` is `_contract_for`, which accepts any that is not stale, and an older one when only
the latest is), `Regenerate` and `Rederive` from the latest; `Answer` is the provider's plan, numbered and
stored with the student's tasks carried over; `CommitPlan`, or `VersionTaken` when another request
has the number. `Refuse` and `CommitRefusal` are the failed attempt, whose run row keeps the key.
`Rederive` copies a version under new milestones. `Edit` and `CommitEdit` or `EditConflict`,
`Agree` and `CommitApproval` are the endpoints of `router.py`; `Abandon` a request that dies.
`HistoryKept` is the refinement: the versions implement `PlanHistory!Spec`.

### `Specification`: one assignment, many requests, two stores

| Variable | Code |
| --- | --- |
| `row` | the assignment: status, `readiness_score`, `requirement_sequence` (`issued`) |
| `content` | its rows: text, deadline, requirements with parents and prerequisites, criteria, listed entries, links, documents |
| `version`, `snapshot` | the newest `assignment_versions` row and what it holds |
| `files` | the files in storage |
| `sess`, `served` | the requests: what they loaded (`graph`, status, score) and flushed; how many there were |
| `changes`, `forsaken`, `strays` | history: changes committed; files removed by a deletion of the assignment; files whose removal nobody is left to do |

Every endpoint that changes the specification is `Begin` (load and check), `Flush` (its rows, then
`record_specification_change`: score, demotion, version number, snapshot) and `Commit` or
`RollBack`; `Applied` says what each of the nineteen kinds of request makes of the content, and
`InMemory` what the session evaluates, which for three routers lacks the new row. `CommitDeletion`,
`RemoveFile` and `Abandon` complete the documents. `Readiness` is the gate and its score in
integers, with the code's rounding; `AssignmentLifecycle` the table.

### `AnalysisRuns`: one assignment, many analyses

| Variable | Code |
| --- | --- |
| `status`, `history` | the assignment's status; what its specification hashes to, by version |
| `analyses` | `assignment_analyses`: key, content, notes, revision, version, flag, overlay, review, question |
| `runs` | `analysis_runs` that are committed |
| `sess`, `served`, `moves` | the requests; how many; how often the assignment was changed by others |
| `reused` | history: what was asked for and the analysis that was given for it |

`Load` reads the assignment; `RefuseBusy`, `Reuse`, `RefuseBare`, `RefuseKey` are the early returns;
`Start` inserts the RUNNING row, `Answer` is the provider, `Succeed` and `Fail` the two outcomes,
`CommitRefused` the run whose transition the table refused. `Correct` and `Say` are the student's
edit, review or answer, read and commit. `EditSpecification` and `SetStatus` are other requests.

### `DeclaredSchema`, `Migrations`

`DeclaredSchema!Declared` is the set of facts (tables, references with their ON DELETE, unique
keys, indexes) `models/entities.py` states. `Migrations` keeps a `schema` of such facts, the
`revision`, and the rows whose contents a migration rewrites or is refused for; `Upgrade` and
`Downgrade` are the twelve files, and in between the program of each revision adds and removes
rows.

### External

Modelled from how `src/` uses them: the row lock and unique constraints of the
database, the rollback of a closed session, process death, and the model provider and the
sandbox, which may answer anything their callers accept.

## 3. What is checked

Every property of a passing run has a mutant in `PROJECT.json`: a plausible bug in a definition
of the model under which TLC finds that property violated.

| Run | Question | Instance |
| --- | --- | --- |
| `agent_run_all` | Does a waiting run always have a question, and a failed or cancelled one none; is there one writer at a time, is the budget kept and does recovery park the run of a dead worker, until a request strays? (`TypeOK`, `WaitingHasQuestion`, `ClosedRunHasNoQuestion`, `OneWriterUnlessStray`, `BudgetUnlessStray`, `SweepParks`) | 4 requests of any of the seven kinds, resumes of STARTING included, budget 2, 2 questions, no tool calls; 520k states |
| `agent_run_fair` | Does every request end? (`RequestsFinish`) | 3 requests, fair; 157k states |
| `agent_run_leftover` | *violated:* the claim's single-writer promise, once a resumed run's question is answered (`StepWriterIsClaimant`) | 4 requests |
| `agent_run_boot` | *violated:* "sweeping at boot parks such runs" (`BootSweepParks`) | 2 requests: a start, a boot sweep |
| `loop_all` | Order of work, submissions, recoverability, kept work, the lifecycle, and does a worker always return? (six properties) | every acyclic graph of 2 tasks, task 2 a submission; 2 runs of 3 iterations, one after the other or in turns; every decision; 405k states |
| `queue_all` | Claims, evidence and cleanup, one runner, recovery, finality (`TypeOK` and five properties) | 1 job, 2 workers with their sweeps, 2 requests; 1.40M states |
| `queue_lease` | *violated:* "cannot start two sandboxes" (`OneSandboxPerJob`) | 1 job, 1 worker, 1 request |
| `plan_all` | Are stored graphs sound, keys, human work and approvals kept, and do the versions implement `PlanHistory`? (five properties) | 3 requests at a time, 5 in all, those to the analyses and the brief included, 1 key, 2 analyses, a proposal of 2 tasks, 2 milestones; 164k states |
| `spec_all` | Do rows, files, versions, the gate and the two graphs stay right when requests overlap? (four properties) | 2 requests at a time, 3 in all, from a ready and from an analysed assignment; 643k states |
| `analysis_all` | Do analyses, runs and the assignment's status say what happened? (three properties) | 2 requests at a time, 3 in all, 2 moves of the assignment, 2 contents, 2 notes; 2.97M states |
| `sequential_all` | Are the algorithms and the migrations right, at every turn? (nine invariants) | six parts, one of them running; see the bounds; 872k states |
| `tools_answer` | *violated:* a tool's answer is what the model decides on next (`AnswerIsFedBack`) | two steps |

The properties, and what each would catch.

*Agent.*

* `WaitingHasQuestion` relates two tables: a run WAITING_FOR_USER has a pending checkpoint. An
  answer, an expiry sweep in two parts, a cancellation and a resumed worker may all be under way.
  Without it the student sees a run that waits for nothing.
* `ClosedRunHasNoQuestion`: nor does a question outlive a run that failed or was cancelled.
* `OneWriterUnlessStray` (`StepWriterIsClaimant`): the transaction that writes a step is the one whose
  claim committed last, so two workers never interleave steps on a run. It holds for all requests in any
  order, ordinary answers and boot sweeps included, until an answer is taken to a question the
  run does not wait for (`agent_run_leftover` shows what happens then) or a resume to a run in STARTING.
* `BudgetUnlessStray`: nor does a run take more steps than its budget until then, although each worker
  checks the budget on its own in-memory counter.
* `SweepParks`: a recovery request that has read a run which claims to be worked on, while nobody else is
  at work, takes it out of that status, and is not refused. `BootSweepParks` asks the same of the sweep
  at boot, in whatever state, and is violated: that sweep never commits.
* `RequestsFinish`: no row lock is waited for for ever.
* `DecisionsFallWhereTheyMay`: `COMPLETE_TASK` is validated against the task the decision *names*
  and completes the task the step *selected*; they are the same because a task in hand is always
  the one selected next, over retries, questions, crashes and earlier runs; and no submission is
  completed by the runtime, whichever task is named.
* `WorkFitsPlan`: no work on a task before its predecessors, over any order of retries, blocks,
  resumes and runs.
* `StatusTellsWhoWorks`: a blocked run has a blocked task; a crash anywhere leaves a status the
  sweep looks for; a worker that returned leaves none.
* `WorkIsKept`: completed tasks survive rollbacks, resumes, new runs and turns between runs.
* `FollowsLifecycle`: refinement of `AgentLifecycle`, for all runs of the assignment at once.
* `LoopEnds`: no combination of retries, redrafts, reviews and tool calls keeps a worker going.
* `CatalogueIsTheBoundary`: the catalogue a worker is offered and the gates on the way to a tool are
  separate code; no call runs that the catalogue hides, and one that it shows is refused for the task the
  decision names or for its arguments, never for the tool.
* `CallsAreAccounted`: one row per answer while nothing was lost, cached answers only from the same
  step and call, the run's allowance of dispatched calls over all steps and losses, one decision row per
  slot. Calls refused by the decision check are logged without regard to the allowance and use it up.
* `CalculationsAreExact`: factors are primes and multiply to the number at every turn; divisor greatest,
  multiple least; a system has a solution exactly when the determinant of its *converted* coefficients is
  not zero, and the values given are Cramer's, to half a digit of the last place kept.
* `ContextIsBounded`: the limit is kept, the instructions are whole, "truncated" is said exactly when
  something is missing, and with an ample limit the last trim, which cuts the task description,
  has nothing to do.

*Execution.*

* `ClaimedOncePerQueueing`: claims of a job never outnumber its queueings.
* `EndedJobIsAccounted`: a job that says its program ended has the attempt that says so, and on each
  of the five ways to end the sandbox is accounted for.
* `RunsAlone`, `RecoverySafe`, `EndedJobStays`: one session runs an undisturbed job at a time;
  crashes buy it no extra attempts and leave it where the sweep sees it; an ended job stays ended.

*Planning.*

* `PlansAreSound`: a stored version can be executed, unless two edits of it (or of the version it
  was made from) were validated without each other's edges; milestones that are re-derived lose no
  task.
* `KeyHasOneOutcome`: a request key names the version its run produced or a failed run, and not both,
  whatever is retried, forced or sent twice.
* `MadeByPeopleIsKept`: the student's tasks survive regeneration, an approved version keeps what it
  says. The exceptions are the overlaps the code leaves open: a
  task written after the request read the list, an edit loaded while the version was under review.
* `CurrentUnlessMoved`: a version is added from an analysis that describes the assignment at that moment,
  and from an older one only if the latest does not; it is approved only when its analysis is the latest and
  does; unless an analysis or the brief moved during the request. An analysis that an edit made outdated
  and another brought back counts as current again, one that was flagged does not.
* `HistoryKept`: refinement of `PlanHistory`.
* `SearchIsRight`, `OrderIsRight`: the search reports a cycle, a real one, exactly when there is one;
  the order places nothing twice or before what it depends on, is short exactly when there is a cycle
  (or, for the strict copy, a dangling reference), and is *the* order the keys allow (`OrderIsKahns`).
* `PlanFitsContract`: what the planner returns validates unless one of four named things is so; it is
  never cyclic; no work area is lost without being reported, and the analysis's ordering is kept, but
  for areas that a student's edit has made impossible to order (`AreasOrderable`), of which those past
  the cap are lost (section 5); milestones share no task; checks come last.

*Assignments and analysis.*

* `RowsAndVersionsFit`: foreign keys, types, and one version number per committed change.
* `RecordsAreKept`: after a request nobody overtook, the gate's promise holds, score and snapshot are
  those of the committed rows; and whatever overlaps, a number given up is never given again.
* `AloneKeepsGraph`: prerequisites and nesting stay acyclic unless requests overlap.
* `FilesAccounted`: a document has its file, a file its document, but for named leftovers.
* `AnalysesAreWhatTheySay`: revisions without gap or tie, the version named is the one analyzed, and
  an analysis given again is of what was asked about.
* `OutcomesAreTrue`: a run is SUCCEEDED exactly when there is an analysis of its key; none is left
  RUNNING but by the one path that commits before it may fail; ANALYZED means there is an analysis.
* `RequestsKeepToThemselves`: a request that nothing overtook moves the status only to ANALYZED and
  only with an analysis, flags only outdated analyses, and loses nothing the student said.

*Migrations.*

* `RevisionMeansSchema`: by whatever ups and downs, the last revision's schema is what the entities
  declare; each downgrade undoes its upgrade (but for one named index); numbers, revisions and what
  is kept of deleted plans are as the code of that revision expects.
* `ChainIsPassable`: the database refuses a migration in four named cases, in both dialects, and in
  no other.

### Bounds, and why they are enough

* `Session`, `Sessions`: a session of `AgentRun` serves one request; the shortest counterexamples
  take two or three, and four leaves room for one more of any kind. In `spec_all` and `analysis_all` two sessions, in `plan_all` three, serve `MaxRequests` requests between
  them (in `plan_all` analyses and edits of the brief are among the five): every hazard listed for those
  modules is about two overlapping requests and what a third meets.
  `MaxQuestions` bounds the checkpoints of a behaviour; two are needed for "an older question is
  still open". `agent_run_all` has four sessions and no tool call within a step, `agent_run_fair` three and
  one (the commit in the middle of a step): the theorems about `AgentRun` have any number of both.
* `MaxIterations`, `MaxToolCalls`, `MaxAttempts`, `MaxFailures`, `MaxDrafts`, `MaxArtifacts`,
  `MaxStepTools`, `MaxRunTools`, `MaxMilestones`, the planner's four caps and `DisplayLimit` are
  parameters of the code and not bounds of the model; the small values make every limit be reached,
  alone and with the others.
* `MaxRuns` (2): a second run over the same plan meets everything the first left, or is open beside it.
* Two tasks give a chain and an independent pair, a task before a wall and one behind it, a task
  of the runtime and one the student submits; larger plans are the theorems' (section 4), which leave the
  plan open. `MaxAside` bounds the iterations of a run when the student turns to another: one is enough for
  it to have attempts, drafts, a question or a blocked task. `GraphSearch` takes *every* graph of three nodes and a dangling
  reference, with cycles and self-loops, and every order of roots and children.
* `queue_all` has one job: jobs share no state but the claim's order of candidates, which the
  model leaves open. `MaxClaims` bounds claims of a job. `MaxNumber` bounds the attempts of a
  *disturbed* job, which nothing in the code bounds; those of an undisturbed one are not cut
  (`RecoverySafe` must find them). `Results` is {SUCCEEDED} and `Duds` is {FAILED}, because the
  code treats the other results the same way; the theorems have them all.
* `plan_all`: one proposal of two tasks and `MaxListed` 2 are enough for an edit to close a cycle
  alone or with another's edge; two analyses, so that there is an older one to name. The fallback planner
  is off: with it on a refusal becomes a second answer.
* `spec_all` starts from a ready assignment with a document and from an analysed one with nesting and
  a prerequisite, so that demotion, both cycle checks and both file deletions are one request away.
  Two criteria of half the total make the weight check pass, fail and pass again.
* `analysis_all`: one content too bare to analyze and one that passes the gate; `MaxMoves` 2 lets the
  specification move away and back.
* `sequential_all`: planner caps 2, 2, 2 and 6, with keys repeated within and between kinds, and three
  areas in a ring for the entry that skips validation; numbers -1..250 with `MaxFactored` 240; systems of one
  to three unknowns with entries -1..2, and of one and two with entries that three digits
  or a denominator of ten cannot hold (333/1000, 1/25, 201/200), a half and no number; `Limits` 2000 (the least the setting allows), 3000, 5000 and
  24000 (its default); two steps of the tool loop with one loss; migrations in both dialects with up
  to two rows in all, which is what the four refusals need (one row of a table, or the same key twice in
  one of 0007's four tables, among them a plan's and a planning run's; two analyses of one instant).
  The six parts share no variable, and a behaviour runs one of them.
* `ResumeOffered`: in `agent_run_all` a resume is sent from every status the API accepts it in, STARTING
  included; `agent_run_fair` and the two violations send it only from the three statuses in which the client
  offers the button (`src/apps/web/components/agent/agent-panel.tsx`).
* Symmetry (`Permutations` of sessions, workers, requests) is used in runs of state and action
  properties that name no session outside a quantifier, and of `HistoryKept`, whose
  specification has no fairness; never in a run of liveness properties.
* `CHECK_DEADLOCK FALSE`: a behaviour with finitely many requests ends when all are served, an
  algorithm when it has answered, and a plan whose runs are all finished stays finished.

### Fairness, and why the code justifies it

`AgentRun!FairSpec` has weak fairness of `Handle(s) \/ Work(s)` for each session: asyncio
resumes a handler whose await has completed, provider calls time out, and PostgreSQL grants a row
lock that is released. Nothing is assumed of `Request`, `Crash` or `HeartbeatAges`: requests need
not come, and no process must die. `AgentLoop!FairSpec` is weak fairness of the worker's own steps, for the
same reasons. The provider may choose any decision for ever; `LoopEnds` must hold anyway. The other
modules state no fairness: nothing in them is scheduled, and what they promise is safety.

## 4. What is proved

TLAPS proves the following for every value of the constants that meets the named assumptions of
the module: any number of requests, workers and jobs, any limits, any registry of tools, any finite
graph. TLC evaluates those assumptions in every run.

| Theorem | Module | States |
| --- | --- | --- |
| `TypeCorrect` | `AgentRunProofs` | `Spec => []TypeOK` |
| `WaitingRunHasQuestion` | `AgentRunProofs` | `Spec => [](WaitingInv /\ WaitingHasQuestion)` |
| `ClosedRunsAskNothing` | `AgentRunProofs` | `Spec => []ClosedRunHasNoQuestion` |
| `OneWriterPerRun` | `AgentRunProofs` | `Spec => []OneWriterUnlessStray` |
| `RunsStayInBudget` | `AgentRunProofs` | `Spec => []BudgetUnlessStray` |
| `SweepsAlwaysPark` | `AgentRunProofs` | `Spec => SweepParks` |
| `PlanOrderIsKept` | `AgentLoopProofs` | `Spec => []WorkFitsPlan` |
| `DecisionsFallRight` | `AgentLoopProofs` | `Spec => []DecisionsFallWhereTheyMay` |
| `StatusIsTrue` | `AgentLoopProofs` | `Spec => []StatusTellsWhoWorks` |
| `WorkIsNeverRedone` | `AgentLoopProofs` | `Spec => WorkIsKept` |
| `ImplementsLifecycle` | `AgentLoopProofs` | `Spec => FollowsLifecycle` |
| `TypeCorrect` | `ExecutionQueueProofs` | `Spec => []TypeOK` |
| `JobClaimedOncePerQueueing` | `ExecutionQueueProofs` | `Spec => [](ClaimInv /\ ClaimedOncePerQueueing)` |
| `UndisturbedJobRunsAlone` | `ExecutionQueueProofs` | `Spec => [](OwnerInv /\ RunsAlone)` |
| `UndisturbedJobRecovers` | `ExecutionQueueProofs` | `Spec => []RecoverySafe` |
| `UndisturbedJobStaysEnded` | `ExecutionQueueProofs` | `Spec => EndedJobStays` |
| `EndedJobsAreAccounted` | `ExecutionQueueProofs` | `Spec => []EndedJobIsAccounted` |
| `KeyAlwaysHasOneOutcome` | `PlanVersionsProofs` | `Spec => []KeyHasOneOutcome` |
| `VersionsKeepTheirHistory` | `PlanVersionsProofs` | `Spec => HistoryKept` |
| `PlansAreCurrent` | `PlanVersionsProofs` | `Spec => CurrentUnlessMoved` |
| `WhatPeopleMadeIsKept` | `PlanVersionsProofs` | `Spec => MadeByPeopleIsKept` |
| `PlansStaySound` | `PlanVersionsProofs` | `Spec => []PlansAreSound` |
| `GraphStaysAcyclicAlone` | `SpecificationProofs` | `Spec => AloneKeepsGraph` |
| `RecordsStayTrue` | `SpecificationProofs` | `Spec => RecordsAreKept` |
| `FilesStayAccounted` | `SpecificationProofs` | `Spec => []FilesAccounted` |
| `RowsAlwaysFit` | `SpecificationProofs` | `Spec => []RowsAndVersionsFit` |
| `AnalysesAlwaysAreWhatTheySay` | `AnalysisRunsProofs` | `Spec => []AnalysesAreWhatTheySay` |
| `OutcomesAreAlwaysTrue` | `AnalysisRunsProofs` | `Spec => []OutcomesAreTrue` |
| `RequestsAlwaysKeepToThemselves` | `AnalysisRunsProofs` | `Spec => RequestsKeepToThemselves` |
| `CycleVerdictIsRight` | `SequentialProofs` | `SearchSpec => []SearchIsRight` |
| `OrderIsAlwaysRight` | `SequentialProofs` | `SearchSpec => []OrderIsRight` |
| `PlansFitTheirContract` | `SequentialProofs` | `PlannerSpec => []PlanFitsContract` |
| `RevisionAlwaysMeansSchema` | `SequentialProofs` | `MigrationsSpec => []RevisionMeansSchema` |
| `CatalogueIsTheBoundaryAlways` | `AgentToolsProofs` | `ToolsSpec => []CatalogueIsTheBoundary` |
| `CallsAreAccountedAlways` | `AgentToolsProofs` | `ToolsSpec => []CallsAreAccounted` |
| `ContextIsAlwaysBounded` | `AgentToolsProofs` | `ContextSpec => []ContextIsBounded` |

The assumptions are `AgentRunAssumption`, `AgentLoopAssumption`, `ExecutionQueueAssumption`,
`SpecificationAssumption` and `SeedsAssumption`, `NodesAssumption` and `MissingAssumption`, `AnalysesAssumption` and `CapsAssumption`,
`RegistryAssumption` and `BoundsAssumption`, `LimitsAssumption` and `WorksAssumption`,
`AnalysisRunsAssumption`, `AnalysisRuns`' own `SeedsAssumption`, `PlanVersionsAssumption` and
`RowsAssumption`. They say what the code's
configuration and schemas enforce: limits are numbers, caps are positive, request bodies have the
types their schemas declare, titles and keys fit their columns, the setting of the context's limit is
within its declared range, an analysis has the fields and types of `AnalyzerOutput`, and a provider's plan has passed `validate_graph` (its edges are
between its own tasks and acyclic) before it is stored. `RowsAssumption` is about the model's own bounds:
there is a number for each requirement a database may hold. Each argument is an inductive invariant, one
lemma per group of actions, and a last temporal step.

* **`AgentRun`, types.** `TypeOK` is inductive. Its one part that is more than a type, "the lock
  is held exactly by a session in phase `working`", is what lets the later proof assume that a
  step's commit is by the lock holder.
* **`AgentRun`, waiting.** "A waiting run has a pending question" is not inductive: a request that
  read the run earlier may be about to close the question without moving the run. `WaitingInv`
  adds why it cannot: the question a waiting run waits for is the latest one; whoever has selected
  it, for an answer or for expiry, also read the run as WAITING_FOR_USER and will move it; and a
  sweep that has selected a question has selected every older one that is open, so that when the
  latest goes, the "are any left?" test of `_release_waiting_run` answers no. The last part needs
  that all questions have one TTL and expire in the order they were asked (`Expirable`); with
  expiry in any order TLC breaks it, which is the mutant `ExpirableInAnyOrder`.
* **`AgentRun`, closed runs.** `ClosedRunHasNoQuestion` is inductive beside `TypeOK`: the writes that
  fail or cancel a run expire its questions in the same transaction.
* **`AgentRun`, one writer.** That the writer of a step is the last claimant is a statement about
  numbers. `NumbersInv` says there is a `top` no number has passed, such that every number up to it is
  an event's or was consumed by a claim (`GapsAreClaims`: two claims are never neighbours, because
  a claim is made on a version whose event is in the log); whoever is about to claim wrote the event
  its version is the number of (`ReadyWrote`), so no two claim on one version; and the worker in a step
  has the next free number (`OneWriter`). Every write of the event log with an older view then meets
  a taken number and fails. The budget is `StepsCounted`: who may still claim counts as the row
  does. `SweepParks` needs `LiveIsLatest`: a run that says it is worked on has the latest number,
  so that a sweep's event finds its number free. The invariant is `NumbersInv` *or* `stray`, over every
  kind of request: an answer to a question the run waits for keeps the numbers, because it moves the run
  with an event of its own; one to a leftover question does not, and from there on nothing is
  claimed (section 5). `stray` is set by the two actions themselves, from the status their sessions have
  read, so that the theorems say nothing less of runs in which no such request was served.
* **`AgentLoop`.** `LoopInv` is about both copies of the rows, the committed one and the open
  transaction's. `WorkFits`: work on a task means its predecessors are finished, the task in hand is
  the least runnable one, no submission is completed. `KeptWork`: the transaction keeps what is
  committed. `WorkerInv`: what the worker's place in its loop says of the status. That the task in
  hand stays least when others finish rests on a selected task having no unfinished predecessor and
  on the plan being acyclic. `AsideInv`: a run put aside fits the task statuses as they have become since,
  because no code takes a task out of COMPLETED or BLOCKED. Each step is cut down to what it does to
  status and rows, and the refinement is read off: the status of the run in hand moves only as
  `AgentLifecycle!Move` allows, and turning to another run moves none.
* **`ExecutionQueue`, types.** `TypeInv` strengthens `TypeOK`: a session is on at most one job,
  its view has that job's row exactly in the phases that use it, and a session that has collected
  a sandbox has a result to finalise with.
* **`ExecutionQueue`, claims.** `ClaimInv` adds to "claims never outnumber queueings" that a
  QUEUED row has a queueing that is not claimed yet. The step that needs care is a commit through
  an old view: it writes only what differs from that view, no handler but the claim changes
  `lock_version`, and none but submission and the sweep writes QUEUED, both with their event.
  `queued` is kept up to `MaxClaims`, hence the disjunct `lock = MaxClaims`.
* **`ExecutionQueue`, one runner.** `RunsAlone` counts the sessions that run an attempt. `OwnerInv`
  is about those that *may come to*: the owners of a job are the sessions that hold it and did
  not find it finished. An undisturbed job has at most one; while it has one, it is neither absent
  nor QUEUED, so it is not on offer to another; and whoever is past `Begin` is an owner.
* **`ExecutionQueue`, recovery.** `RecoveryInv` adds what each session's view tells: whoever is in a
  phase of `execute` holds a view whose status is that phase's, an undisturbed commit therefore
  writes exactly the row the session computed, and whoever may still take an attempt of an
  undisturbed job has one left to take. The steps are cut down to what they may do to a row
  (`Moves`), and each such move keeps the three parts; that an ended job stays ended is read off the
  same moves.
* **`ExecutionQueue`, accounts.** This one holds of disturbed jobs too. `AccountInv`: what a session has
  seen settled of a job's clean-up is settled in the row, and a session that has collected a result
  sees the clean-up settled and has the attempt with that result in the ledger. Clean-up never goes
  back to PENDING, whatever view it is written from.
* **`Specification`, graphs.** A session nobody overtook checked the graph it commits to. That its
  check is enough is graph theory: an edge whose head is not reached from its tail closes no cycle.
  For nesting `Upwards` is the intersection of the closed sets around a requirement, and
  `NestingNoCycle` shows that a cycle through the new parent would be inside it.
* **`Specification`, records.** `SpecInv` has four parts. `Fits`: rows fit their types. `OneNumbers`:
  at most one session has flushed a requirement number, because the counter's UPDATE holds the row
  lock until commit. `Counted`: versions are changes. `Current`: a session nobody overtook has
  loaded, and computed from, what is committed.
* **`Specification`, rows.** `RowsInv` adds that contents are of their types, that a requirement has
  one parent, and that a flushed score is a percentage. `ScoreIsAPercentage` shows the last from the
  weights: the ten of them add up to 100 points, of which half a check's are given for a warning, and
  the clamp in `build_report` therefore never acts.
* **`Specification`, files.** `FilesInv`: a file being uploaded belongs to one session and to no row
  (`Private`), and a file about to be removed is still accounted to whoever removes it (`Held`).
* **`GraphSearch`, the search.** `StackInv`: the path is a walk of distinct grey nodes, each with
  its unvisited rest in `pending`. `BlackInv`: what is black depends on black nodes only, and no set of
  black nodes is cyclic (`NoCycleByAdding`: a node whose dependencies are all outside a cycle through
  it closes none). `AnswerInv`: a cycle that was found is the part of the path from the node met
  again. When no white node is left, all are black.
* **`GraphSearch`, the order.** `CountInv`: `unmet` counts the dependencies that are not placed,
  `ready` is exactly what has none left. `PlacedInv`: what is placed has its dependencies before it.
  The set of nodes left out is cyclic, being one in which each has a predecessor; for the converse,
  the first node of a cycle to be placed would have been placed before its predecessor. That
  the order is the one the keys allow compares it with the recursive function `TopologicalOrder`.
  `LeastFirst` says every node placed was the least of those free at that point; `OrderIsTheOne`
  shows that this determines the order, by taking a first position at which the two would part (an
  argument by least counterexample, which needs no induction over an operator).
* **`Planner`.** `PlannerInv` goes along the stages. `BuilderInv`: dependencies, index and layers are
  about tasks there are, the closed layers are disjoint and together the first tasks, and the graph is
  acyclic. `AreasInv`: what is true of the areas, by the validation or, where there was none, as far as
  they can be ordered. `OrientInv`, `OrientedInv`: each
  area met so far has a task or is reported, and the orientation tasks already depend on one another
  as the analysis says. `ReferencesInv`, `CoverageInv`: tasks refer to nothing else than the analysis
  names, and while there is room each requirement and deliverable met so far is referred to.
  `ArrangeInv`: the orderings applied so far hold, or their opposite does. `ChecksInv`: no task
  waits on a check. That the graph stays acyclic rests on facts about graphs: a new task closes no
  cycle, an edge whose converse does not follow closes none, and what follows from some edges follows
  from more. That no area is lost, where the areas can be ordered, needs Kahn's order to place every key when the
  dependencies are acyclic; `OrderExtends` adds one key to a prefix of it, and a least counterexample takes it through
  all lengths. Two orientation tasks are in the analysis's order when `Arrange` comes to them, so
  no refusal concerns them: this is why `OrderingKept` allows the opposite order for other pairs only.
  `RequiredFirst` puts "yes" requirements at the head of the list, so the cap cuts one only when there
  are more than it allows.
* **`Migrations`, rows.** `RowsInv` counts the rows of the four keyed tables one by one (`KeyedRows`): numbers are distinct and none is above the mark, analyses are listed in
  the order of their instants, and from 0004 on their revisions are 1, 2, ... in that order. The mark has to
  be 0 before 0002 has run, and the rows have to stay within the bound, or the number the next one gets
  would not be the next number. That 0004's ranking of n rows uses every one of the first n numbers is a
  pigeonhole argument (`RankingIsFull`).
* **`Migrations`, schema.** `SchemaInv` is `DownUndoesUp` and "the index that undoing 0007 leaves is there
  only at revisions 5 and 6". A fact is in the schema of a revision exactly when some migration up
  to it added the fact and none since has dropped it (`SchemaIs`, an argument by least counterexample over the
  twelve). What a migration adds was never there before it (`NotYet`, `NoTableYet`), and it takes
  away all it added when it is undone (`AddsGo`): so undoing restores what was (`UndoneIs`). The head is
  compared with the entities one by one, in both directions (`AddedIsDeclared`, `DeclaredIsAdded`), and
  no declared fact is one that was dropped (`Lasting`). Since 0008 the tables of a task, a plan and an
  analysis own nothing but one another, so no cascade leaves them (`StaysInside`).
* **`ToolCalls`.** `ToolInv` carries: typed state, no more rows of dispatched calls than were counted, answers
  numbered once (`Fresh`: while nothing is lost, exactly one row gave each answer), cache entries
  whose row is in the log, and the allowance with the call in hand set aside, which is the step at
  which the code has checked it and not yet written the row. A loss cuts the log to `saved`, and
  every part survives the cut (`Cut`, `LoseKeeps`).
* **`ContextAssembly`.** A context that is shown is the one its task, limit and drafts determine, so the
  property is about one assembly. What a section adds is at most what it would add uncut, with
  equality exactly when nothing of it is cut, and at most its share or 200 and its wrapper; the rest
  is arithmetic over the seven sections and the column widths of the titles. That the sum over a
  list of items is a number (`SumIsNat`) is again an argument by least counterexample.
* **`AnalysisRuns`.** `AnalysisInv` adds to the properties what a request in progress knows
  (`SessionFits`): what it loaded is what is there now unless something was committed since, a
  status `ANALYZED` it may write back has an analysis behind it, the version it read is of its
  content unless the assignment moved in between, and the run it has flushed has a key no committed
  run and no other pending request has. That last part keeps one analysis and one outcome per key
  although nobody sees a run before it has ended. Flagging and the student's word rewrite rows without
  touching key or revision (`Rewritten`); that such a rewriting keeps the numbering is a bijection
  argument (`Recount`).
* **`PlanVersions`, keys and history.** `PlanInv`: stored versions have distinct keys, each with the run
  of its key, and every run that has not failed has its version; a request in progress asks under a
  key that is still free, and two requests never under the same. The refinement then reads off each
  step what it does to the history: a commit appends one entry, an approval sets one flag, the rest
  stutters.
* **`PlanVersions`, what is current and what is kept.** `CurrentInv`: a request during which nothing
  moved holds an analysis that is current among those there are, the latest if it is approving. `OwedInv`: the student's tasks a request has read are in
  the version it will add; carried tasks are renumbered, and that no two fall together is an injection
  argument.
* **`PlanVersions`, graphs.** `SoundInv`: a stored version nobody raced is acyclic, its edges are
  between its tasks, and a request holds what it will store in the same shape; an edit that has been
  validated is sound for the version as read, which is the version stored unless another edit went
  behind its back (`raced`). Re-derived milestones
  divide the tasks: the stored ones cut down to the tasks are disjoint because the
  stored ones are, dropping the empty ones loses nothing, and what none of them has comes last.

**Only model-checked:** liveness (`RequestsFinish`, `LoopEnds`), since fairness is beyond the backends
of TLAPS; `ChainIsPassable`, which is about ENABLED; and `CalculationsAreExact`, whose subject is arithmetic
the provers have no decision procedure for (primes, greatest common divisors, exact fractions)
and, for the product of the factors, a fold over data. Every other property of a passing run is
stated by a theorem. No module here has a RECURSIVE operator.

## 5. Where the code and its documentation part

Four runs show the code doing what a doc or a comment says it does not; `findings` quotes both.

| Run | What happens |
| --- | --- |
| `agent_run_leftover` | Resuming a WAITING run leaves its question pending. Answering it later starts a second worker on a run that has one. |
| `agent_run_boot` | `_run_recovery_sweep` (`main.py`) parks the runs of dead workers in a session it never commits: the run is still STARTING or RUNNING when the first request is served. |
| `queue_lease` | Leases are written with the current time as expiry (`execution_lease_seconds` is read nowhere), so each live job looks abandoned to the next sweep, which requeues it and starts a second sandbox. |
| `tools_answer` | After a successful call the model decides again, but of the answer it is given only the payload's `text`, which two of the tools have: what a calculation, a check or a sandboxed program answered is replaced by an empty text, under the heading "Tool result from read_context". |

Seen while modelling and not kept as runs of their own. The models contain each of these
behaviours; the properties of section 3 are stated so that they say what is kept beside them.

* *Agent runs.* "Terminal really is terminal" (`state_machine.py`) fails: a cancellation or pause read
  before a claim and committed after the run completed overwrites COMPLETED, because the claims in
  between consumed `lock_version` numbers and no event numbers. The expiry sweep selects questions,
  then writes EXPIRED with no condition, over an answer given in between. `resume_run` consults the transition table and not `RESUMABLE_STATUSES`, so a run
  in STARTING can be resumed and gets a second worker. A stale pause writes `lock_version` back,
  against "dense, strictly increasing"; so does an answer to a leftover question, while the run stays
  RUNNING, after which every later event of the run, recovery's included, meets a taken number (409)
  and no sweep can park it (TLC finds this with four requests; this is what `stray` in
  `SweepParks` excludes). Pause followed by resume passes `_assert_block_resolved` by.
  `active_run` does not count CREATED runs, so two can be created and started on one plan, and both are
  then open (`AgentLoop` has them). "No
  lock is held while the model is thinking" holds for the claim and not for the step, which
  flushes its first event before it calls the provider.
* *The loop.* The budget check of the call that *produces the work* (`_gate_provider_call` in
  `_execute_and_finish`) raises past every handler: the request fails, nothing is recorded, and the
  run stays RUNNING until a sweep. The pause at the end of the step allowance says "Resume to
  continue", but the run's iteration budget is the same number, so the resume fails the run. No
  code moves a task out of BLOCKED, so a blocked run can never be resumed as such.
  `_consecutive_failures` counts questions and blocks as failures. Successful steps take
  `_attempt_number` past `agent_max_task_attempts` unchecked. A crash before the next claim loses
  the previous step's attempt row. PAUSE_RUN leaves its execution row FAILED. Without a provider
  the first task is blocked, where the docs promise the deterministic executors. A plan with a
  submission task never completes. `agent-runtime.md`'s "one transaction each" is not so for steps
  that run a sandbox.
* *Tools.* A CALL_TOOL that names a task the plan does not have is logged as a BLOCKED call of a tool that
  was never in question, whatever the allowance, and the row counts against the allowance of the steps that
  follow. The linear solver, described as solving "exactly", converts each number through a float and
  a denominator of at most 10^9 and rounds what it returns to ten places: [[1e-10, 0], [0, 1]] has "no unique
  solution". `execute_code` is answered from the step's cache although `execution_tools.py` says it
  never is. A crash renews the tool allowance of the step it lost. `ToolRiskError` is not caught
  where a tool is dispatched (unreachable with the registry as shipped). `describe()` is narrowed
  neither by availability nor by grants. `CheckSyntaxBalance` compares an opening bracket with a
  closing one, so "()" is unbalanced.
* *Context.* `_build_context` hands requirements over as pairs with an empty second part, and `_pairs`
  drops those, so the requirements section is always empty; constraints always are; reference
  material and the student's guidance are never passed, so an answer to a checkpoint reaches no later
  prompt, although `agent-context.md` says so. The final trim cuts the tail, which is the task
  description that TRUNCATION_ORDER calls least expendable, whenever the limit is below about 5000;
  provenance is not updated after it. Drafts are cut to 4000 characters without a word, and "the
  remainder is redistributed" is not done.
* *Execution.* A cancellation committed while the sandbox runs is overwritten by the worker's view;
  one read before the end and written after it turns a terminal status into CANCEL_REQUESTED with
  no lease, which no sweep selects. A repeated synchronous request executes the existing job
  whatever its state. A CREATED row whose process died is never swept and counts against the
  quota. Two sessions can run one attempt number, of which the second loses its result. The
  container's name is the job's, so a second run collides with the live container and its reap
  removes it.
* *Planner.* The result is not "guaranteed to validate": a reference to a requirement dropped as a
  duplicate, more than 24 required requirements, the cap on tasks, and an analysis without work (an
  IndexError) are the four ways out that `ValidatesUnless` names. Checks depend on one another when
  no deliverable was assembled. A direct contradiction between two orderings is dropped without a
  note, and orderings between requirements served by an orientation task are not applied. A student's edits of the analysis meet
  the schema only (`analysis/service.py`, `apply_edits`), so dependencies that are cyclic, or
  area keys that repeat, reach the planner; it then takes the first ten areas as listed and drops the rest without a
  note (`planner.py`, `work_areas[:_MAX_ORIENTATION_TASKS]`), although the comments there say
  "rather than dropping areas" and "Recorded, not dropped in silence" (`CutOff` is that exception of
  `NoAreaIsLost`).
  Keys are checked to be unique within a kind only: a requirement or deliverable with a work area's
  key shares its entry of the index, and an ordering of the areas then also applies to that task,
  which waits on every orientation task, so it is refused with a note (`OrderingKept` promises an
  order between tasks of work areas only).
  `validate_analysis` does not look at an area's related requirements. The orchestrator validates
  with the default cap of 60 and not with the configured one. Confidence in the complexity score is
  1.0 outside 25..75.
* *Plans.* Two edits validated apart can commit a cycle, which no later edit or approval gets past.
  `mark_stale_plans` is never called, and the flag `approve_plan` sets is rolled back with its own 409.
  `persist_plan`'s PlanGraphError escapes the handler that records failures, and the router commits a
  run that stays RUNNING; a FAILED run keeps its unique key, so that the retry it invites
  conflicts. A comment in `router.py` says `_contract_for` refuses an analysis that is no longer current; it
  accepts an older one that the brief has come back to while the latest is stale, and a plan made
  from it can never be approved, which asks for the latest. A re-derived version inherits the analysis of the one it copies. What the agent did to
  tasks while a plan was regenerated is not carried over. `validate_graph` accepts two milestones
  with one key.
* *Assignments.* Two requests can commit a cycle of prerequisites or of nesting; two can commit
  duplicate titles, after which nothing can be added to that section. Whoever overlaps a demotion
  may write the status back. Three routers evaluate the gate, the score and the snapshot without the
  row they add. A status set to DRAFT leaves `ready_for_analysis_at`. Score and "deadline
  passed" age without a request. The retry of SEQUENCE_ATTEMPTS is never reached: the insert it
  guards is serialised by the counter's row lock. `delete_assignment` removes files before its commit,
  which may fail; the clean-up of a failed upload (`except Exception`) misses a cancelled request.
* *Analysis.* ANALYSIS_IN_PROGRESS is never visible to another request, nor is the RUNNING row that
  should refuse a second analysis, so two run side by side. The status is written as loaded, or
  ANALYZED, over a concurrent change. Requesting an analysis of a COMPLETED or ARCHIVED assignment
  leaves a run RUNNING for ever, and every later request is refused as busy. A flagged analysis is
  never unflagged and its key blocks analyzing the same specification again without `force`; a
  FAILED run's key does the same to its "Please try again". A request that read an old
  specification may flag a current analysis. What keeps revisions apart is the row lock that the
  outcome's first query happens to take by autoflush.
* *Migrations.* 0002 writes `is_required = 1`, which PostgreSQL refuses for a boolean as soon as there
  is a row. 0007's four unique indexes are refused when a content hash repeats in any of their tables: the same content
  planned twice, an analysis tried again after a failure, a start clicked twice; and "the content hash moves
  to input_fingerprint" copies nothing. 0007 cannot be undone once a plan was generated without a
  key, nor 0009 once a step called a tool, although `setup.md` documents `downgrade base`. Undoing
  0007 leaves an index 0005 never made. Between 0007 and 0008 a task with attempts cannot be deleted;
  undoing 0008 deletes attempts whose task is gone. A round trip through 0011 makes USER_OWNED
  tasks AGENT_OWNED, one through 0002 renumbers requirements. Ties in `created_at` make 0004's
  revisions arbitrary. `User.owned_workspaces` deletes orphans past the RESTRICT below it. The
  repository's tests migrate empty databases only.

## 6. What is not modelled, and the plan

Left out on purpose: pure I/O and text (backends, providers, prompts, extraction, rendering),
single-row CRUD (courses, notifications, dashboard), authentication, the evaluation harness, token
and cost arithmetic beyond "a budget refuses the call", quotas (documented as checked, not
reserved), reads, SQLite's behaviour where it differs from PostgreSQL's beyond the two migrations
above (partial DDL rollback, foreign keys off by default). `PROJECT.json` gives each component's
reason.

The order of what is left, most important first:

1. **`AgentPlane`**: two runs over one plan, which the CREATED gap of `active_run` allows, and
   `AgentLoop`'s sandbox step composed with `ExecutionQueue`'s inline session. It would give the
   hazard of `create_run` a property.
2. **`WebPolling`** (`src/apps/web/lib/use-*.ts`): reads, polls and actions whose answers
   arrive in any order.
3. **`SlidingWindow`** (`core/rate_limit.py`), small.
