------------------------------ MODULE AgentRun ------------------------------
(***************************************************************************)
(* One agent run as the database and its concurrent requests see it        *)
(* (modules/agent/service.py, router.py, recovery.py).                     *)
(*                                                                         *)
(* Every request owns a session: it reads the run row once, keeps the      *)
(* attributes in memory (the session factory sets expire_on_commit=False)  *)
(* and writes back absolute values, at READ COMMITTED.  A flushed UPDATE   *)
(* holds the row lock until its transaction ends.  Two things arbitrate    *)
(* between writers: the compare-and-swap of claim_step, and the unique     *)
(* constraint on (run_id, sequence) of the event log, whose sequence is    *)
(* the in-memory lock_version plus one.                                    *)
(*                                                                         *)
(* A short request is two steps, the read and the commit; a worker is a    *)
(* loop of claims and steps.  What a step decides is AgentLoop's subject;  *)
(* here it is any of the outcomes the step code can commit, and the run of *)
(* events of one flush is counted as one event.                            *)
(***************************************************************************)
EXTENDS AgentStatus, Naturals, Sequences

CONSTANTS
    Session,          \* the requests (and boot sweeps) of a behaviour, each with a DB session
    NoSession,        \* nobody holds the row lock
    Requests,         \* the endpoints an instance exercises
    ResumeOffered,    \* statuses from which a client sends a resume request
    MaxIterations,    \* run.max_iterations, the run's own step budget
    MaxToolCalls,     \* tool calls a step may make
    MaxQuestions      \* bound: checkpoints raised in a behaviour

ASSUME AgentRunAssumption ==
    /\ NoSession \notin Session
    /\ MaxIterations \in Nat \ {0}
    /\ MaxToolCalls \in Nat
    /\ MaxQuestions \in Nat
    /\ ResumeOffered \subseteq Statuses

RequestKinds == {"start", "pause", "resume", "cancel", "resolve", "recover", "boot"}

VARIABLES
    row,        \* the committed agent_runs row
    log,        \* sequences of the committed agent_events rows
    question,   \* status of each agent_checkpoints row, in the order they were asked
    wall,       \* some task of the plan is committed BLOCKED; nothing ever unblocks one
    lock,       \* the session whose transaction holds the row lock
    sess,       \* what each request has read, and what it has flushed
    claimant,   \* history: the session whose claim_step committed last
    stray       \* history: an answer or a resume went to a run that did not wait for one

vars == <<row, log, question, wall, lock, sess, claimant, stray>>

Idle == [pc |-> "idle", op |-> "none", status |-> "CREATED", version |-> 0,
         iter |-> 0, steps |-> 0, tools |-> 0, dirty |-> FALSE, pend |-> {}, seen |-> {}]

Done == [Idle EXCEPT !.pc = "done"]

Init ==
    /\ row = [status |-> "CREATED", version |-> 1, iter |-> 0, beat |-> "fresh"]
    /\ log = {1}                                   \* RUN_CREATED
    /\ question = << >>
    /\ wall = FALSE
    /\ lock = NoSession
    /\ sess = [s \in Session |-> Idle]
    /\ claimant = NoSession
    /\ stray = FALSE

-----------------------------------------------------------------------------
(* The storage layer: reads, event numbers, the row lock.                  *)

Pending == {q \in DOMAIN question : question[q] = "PENDING"}

Close(qs, outcome) ==
    [q \in DOMAIN question |-> IF q \in qs THEN outcome ELSE question[q]]

\* Mutant: a sweep that expires open questions in any order.
ExpirableInAnyOrder == SUBSET Pending

\* What an expiry sweep may select: every question has the same TTL, so they
\* expire in the order they were asked.
Expirable == {{q \in Pending : q <= n} : n \in 0..Len(question)}

Live(s) == sess[s].pc \notin {"idle", "done"}

\* The sequences the next n appends of this session will use.
NextSeqs(s, n) == (sess[s].version + 1)..(sess[s].version + n)

\* Mutant: an event table without the unique constraint.
FitsUnchecked(s, n) == TRUE

\* The unique constraint accepts them; otherwise the flush raises IntegrityError.
Fits(s, n) == NextSeqs(s, n) \cap log = {}

Unlocked == lock = NoSession

\* The run row as the session loads it at the start of a request.
Snapshot(s, op, pc, seen) ==
    sess' = [sess EXCEPT ![s] = [Idle EXCEPT !.pc = pc, !.op = op,
                 !.status = row.status, !.version = row.version,
                 !.iter = row.iter, !.seen = seen]]

EndRequest(s) == sess' = [sess EXCEPT ![s] = Done]

\* Commit n appended events with a new status: lock_version is written as an
\* absolute value computed from what this session read.
CommitRow(s, status, n) ==
    /\ row' = [row EXCEPT !.status = status, !.version = sess[s].version + n]
    /\ log' = log \cup sess[s].pend \cup NextSeqs(s, n)

-----------------------------------------------------------------------------
(* Requests: load the run (and what else the handler reads), then commit.  *)
(* A request refused on what it loaded changes nothing and is not a step.  *)

Admissible(op) ==
    CASE op = "start"   -> CanMove(row.status, "STARTING")
      [] op = "pause"   -> CanMove(row.status, "PAUSED")
      [] op = "cancel"  -> CanMove(row.status, "CANCELLED")
      [] op = "resume"  -> /\ row.status \in ResumeOffered
                           /\ CanMove(row.status, "RUNNING")
                           /\ row.status = "BLOCKED" => ~wall
      [] OTHER          -> FALSE

Receive(s, op) ==
    /\ op \in Requests /\ sess[s].pc = "idle"
    /\ Admissible(op)
    /\ Snapshot(s, op, "loaded", {})
    /\ UNCHANGED <<row, log, question, wall, lock, claimant, stray>>

\* The checkpoint is loaded with the run.  An answer to a run that is paused,
\* blocked or finished is rolled back when execute_run refuses the run.
ReceiveAnswer(s, q) ==
    /\ "resolve" \in Requests /\ sess[s].pc = "idle"
    /\ row.status \in {"STARTING", "RUNNING", "WAITING_FOR_USER"}
    /\ Snapshot(s, "resolve", "loaded", {q})
    /\ UNCHANGED <<row, log, question, wall, lock, claimant, stray>>

\* recover_stale_runs, from the endpoint or from the boot hook: the stale run is
\* selected first; with none, the expired questions are.
ReceiveSweep(s, op) ==
    /\ op \in Requests \cap {"recover", "boot"}
    /\ sess[s].pc = "idle"
    /\ IF row.status \in RecoverableStatuses /\ row.beat = "stale"
       THEN Snapshot(s, op, "loaded", {})
       ELSE \E expired \in Expirable \ {{}} : Snapshot(s, op, "swept", expired)
    /\ UNCHANGED <<row, log, question, wall, lock, claimant, stray>>

CommitPause(s) ==
    /\ sess[s].pc = "loaded" /\ sess[s].op = "pause"
    /\ Unlocked /\ Fits(s, 1)
    /\ CommitRow(s, "PAUSED", 1)
    /\ EndRequest(s)
    /\ UNCHANGED <<question, wall, lock, claimant, stray>>

\* Mutant: the open questions of the run are forgotten.
CancelKeepsQuestions(s) ==
    /\ sess[s].pc = "loaded" /\ sess[s].op = "cancel"
    /\ Unlocked /\ Fits(s, 1)
    /\ CommitRow(s, "CANCELLED", 1)
    /\ EndRequest(s)
    /\ UNCHANGED <<question, wall, lock, claimant, stray>>

CommitCancel(s) ==
    /\ sess[s].pc = "loaded" /\ sess[s].op = "cancel"
    /\ Unlocked /\ Fits(s, 1)
    /\ CommitRow(s, "CANCELLED", 1)
    /\ question' = Close(Pending, "CANCELLED")
    /\ EndRequest(s)
    /\ UNCHANGED <<wall, lock, claimant, stray>>

\* The handler hands its run to execute_run, whose first act is to commit what
\* the handler did; the session goes on as the run's worker.
HandOver(s, n, dirty) ==
    sess' = [sess EXCEPT ![s] = [Idle EXCEPT !.pc = "ready", !.status = "RUNNING",
                 !.version = sess[s].version + n, !.iter = sess[s].iter, !.dirty = dirty]]

\* STARTING is committed; RUNNING is set in memory and flushed with the claim.
CommitStart(s) ==
    /\ sess[s].pc = "loaded" /\ sess[s].op = "start"
    /\ Unlocked /\ Fits(s, 1)
    /\ CommitRow(s, "STARTING", 1)
    /\ HandOver(s, 1, TRUE)
    /\ UNCHANGED <<question, wall, lock, claimant, stray>>

CommitResume(s) ==
    /\ sess[s].pc = "loaded" /\ sess[s].op = "resume"
    /\ Unlocked /\ Fits(s, 1)
    /\ row' = [row EXCEPT !.status = "RUNNING", !.version = sess[s].version + 1,
                          !.beat = "fresh"]
    /\ log' = log \cup NextSeqs(s, 1)
    /\ HandOver(s, 1, FALSE)
    /\ stray' = (stray \/ sess[s].status = "STARTING")
    /\ UNCHANGED <<question, wall, lock, claimant>>

\* The answer appends CHECKPOINT_RESOLVED, and RUN_RESUMED if the run was seen
\* waiting.
CommitAnswer(s) ==
    LET waiting == sess[s].status = "WAITING_FOR_USER"
        n       == IF waiting THEN 2 ELSE 1
    IN  /\ sess[s].pc = "loaded" /\ sess[s].op = "resolve"
        /\ Unlocked /\ Fits(s, n)
        /\ CommitRow(s, IF waiting THEN "RUNNING" ELSE row.status, n)
        /\ question' = Close(sess[s].seen, "RESOLVED")
        /\ HandOver(s, n, sess[s].status = "STARTING")
        /\ stray' = (stray \/ ~waiting)
        /\ UNCHANGED <<wall, lock, claimant>>

\* Mutant: the endpoint, like the boot hook, never commits its sweep.
RecoveryUncommitted(s) ==
    /\ sess[s].pc = "loaded" /\ sess[s].op = "recover"
    /\ EndRequest(s)
    /\ UNCHANGED <<row, log, question, wall, lock, claimant, stray>>

\* pause_stale_run decides on the status it loaded, then the same transaction
\* expires questions; the run it holds in memory is PAUSED, so none releases it.
CommitRecovery(s) ==
    /\ sess[s].pc = "loaded" /\ sess[s].op = "recover"
    /\ Unlocked /\ Fits(s, 1)
    /\ CommitRow(s, "PAUSED", 1)
    /\ \E expired \in Expirable : question' = Close(expired, "EXPIRED")
    /\ EndRequest(s)
    /\ UNCHANGED <<wall, lock, claimant, stray>>

\* _release_waiting_run loads the run after the questions were selected.
SweepLoadsRun(s) ==
    /\ sess[s].pc = "swept"
    /\ Snapshot(s, sess[s].op, "release", sess[s].seen)
    /\ UNCHANGED <<row, log, question, wall, lock, claimant, stray>>

LastQuestionExpires(s) ==
    sess[s].status = "WAITING_FOR_USER" /\ Pending \subseteq sess[s].seen

CommitExpiry(s) ==
    /\ sess[s].pc = "release" /\ sess[s].op = "recover"
    /\ IF LastQuestionExpires(s)
       THEN Unlocked /\ Fits(s, 1) /\ CommitRow(s, "PAUSED", 1)
       ELSE UNCHANGED <<row, log>>
    /\ question' = Close(sess[s].seen, "EXPIRED")
    /\ EndRequest(s)
    /\ UNCHANGED <<wall, lock, claimant, stray>>

\* The boot hook opens a session, sweeps and leaves the session without a
\* commit, so everything the sweep flushed is rolled back.
BootSweepEnds(s) ==
    /\ sess[s].pc \in {"loaded", "release"} /\ sess[s].op = "boot"
    /\ EndRequest(s)
    /\ UNCHANGED <<row, log, question, wall, lock, claimant, stray>>

-----------------------------------------------------------------------------
(* The worker: execute_run's loop of claims and steps.                     *)

Working(s)    == sess[s].pc = "working"

\* Mutants: a budget, or a tool allowance, that lets one more through.
BudgetLeftPlusOne(s) == sess[s].iter <= MaxIterations
ToolsLeftPlusOne(s)  == sess[s].tools <= MaxToolCalls

BudgetLeft(s) == sess[s].iter < MaxIterations      \* assert_iteration_budget
ToolsLeft(s)  == sess[s].tools < MaxToolCalls      \* assert_tool_budget, per step

\* claim_step's compare-and-swap commits together with whatever the session has
\* flushed; a worker that lost it answers BUSY and drops its transaction.
ClaimWins(s) == row.version = sess[s].version

Claim(s) ==
    /\ sess[s].pc = "ready" /\ BudgetLeft(s)
    /\ Unlocked
    /\ IF ClaimWins(s)
       THEN /\ row' = [row EXCEPT !.status = IF sess[s].dirty THEN "RUNNING" ELSE @,
                                  !.version = @ + 1, !.iter = @ + 1, !.beat = "fresh"]
            /\ claimant' = s
            /\ sess' = [sess EXCEPT ![s].pc = "claimed", ![s].version = @ + 1,
                                    ![s].iter = @ + 1, ![s].steps = 1, ![s].dirty = FALSE]
       ELSE EndRequest(s) /\ UNCHANGED <<row, claimant>>
    /\ UNCHANGED <<log, question, wall, lock, stray>>

\* The step's first event is flushed: from here to the commit the run row is
\* locked, provider call included.  The same happens again after a commit in the
\* middle of the step has let the lock go.
OpenStep(s) ==
    /\ sess[s].pc \in {"claimed", "offlock"}
    /\ Unlocked /\ Fits(s, 1)
    /\ lock' = s
    /\ sess' = [sess EXCEPT ![s].pc = "working", ![s].version = @ + 1,
                            ![s].pend = NextSeqs(s, 1)]
    /\ UNCHANGED <<row, log, question, wall, claimant, stray>>

\* An execution tool runs its job on the run's own session and commits it.
CommitMidStep(s) ==
    /\ Working(s) /\ ToolsLeft(s)
    /\ row' = [row EXCEPT !.version = sess[s].version]
    /\ log' = log \cup sess[s].pend
    /\ lock' = NoSession
    /\ sess' = [sess EXCEPT ![s].pc = "offlock", ![s].tools = @ + 1, ![s].pend = {}]
    /\ UNCHANGED <<question, wall, claimant, stray>>

\* The step advanced: its writes are committed by the next claim, which matches
\* the version this very transaction wrote.
Advance(s) ==
    /\ Working(s) /\ BudgetLeft(s) /\ sess[s].steps < MaxIterations
    /\ row' = [row EXCEPT !.version = sess[s].version + 1, !.iter = @ + 1, !.beat = "fresh"]
    /\ log' = log \cup sess[s].pend
    /\ lock' = NoSession
    /\ claimant' = s
    /\ sess' = [sess EXCEPT ![s].pc = "claimed", ![s].version = @ + 1, ![s].iter = @ + 1,
                            ![s].steps = @ + 1, ![s].tools = 0, ![s].pend = {}]
    /\ UNCHANGED <<question, wall, stray>>

\* A step that stops the run commits its own status change.
StopWith(s, status) ==
    /\ Working(s) /\ Fits(s, 1)
    /\ CommitRow(s, status, 1)
    /\ lock' = NoSession
    /\ EndRequest(s)
    /\ UNCHANGED <<claimant, stray>>

\* _create_checkpoint: the question and the status change are one transaction.
StopWithQuestion(s) ==
    /\ Len(question) < MaxQuestions
    /\ StopWith(s, "WAITING_FOR_USER")
    /\ question' = Append(question, "PENDING")
    /\ UNCHANGED wall

\* PAUSE_RUN, or the loop ending with its step allowance spent.
StopPaused(s)  == StopWith(s, "PAUSED") /\ UNCHANGED <<question, wall>>

StopBlocked(s) == StopWith(s, "BLOCKED") /\ wall' = TRUE /\ UNCHANGED question

\* _fail_run closes the questions a failed run will never answer.
StopFailed(s) ==
    /\ StopWith(s, "FAILED")
    /\ question' = Close(Pending, "RESOLVED")
    /\ UNCHANGED wall

\* A worker entering the loop with the run's budget already spent fails the run,
\* without a claim.
FailUnclaimed(s) ==
    /\ sess[s].pc = "ready" /\ ~BudgetLeft(s)
    /\ Unlocked /\ Fits(s, 1)
    /\ CommitRow(s, "FAILED", 1)
    /\ question' = Close(Pending, "RESOLVED")
    /\ EndRequest(s)
    /\ UNCHANGED <<wall, lock, claimant, stray>>

\* No task is left to select: _finish_run completes the run, or blocks it when
\* what is left is behind a blocked task.
Finish(s) ==
    /\ sess[s].pc = "claimed"
    /\ Unlocked /\ Fits(s, 1)
    /\ CommitRow(s, IF wall THEN "BLOCKED" ELSE "COMPLETED", 1)
    /\ EndRequest(s)
    /\ UNCHANGED <<question, wall, lock, claimant, stray>>

\* How many events the session's next flush appends.
NextAppend(s) ==
    IF sess[s].op = "resolve" /\ sess[s].status = "WAITING_FOR_USER" THEN 2 ELSE 1

\* Mutant: the error is answered and the transaction is left open.
ConflictWithoutRollback(s) ==
    /\ sess[s].pc \in {"claimed", "offlock", "working"}
    /\ lock \in {NoSession, s}
    /\ ~Fits(s, NextAppend(s))
    /\ lock' = s
    /\ EndRequest(s)
    /\ UNCHANGED <<row, log, question, wall, claimant, stray>>

\* The unique constraint refuses the event: the request is answered 409 and its
\* transaction, the status change included, is rolled back.
Conflict(s) ==
    /\ \/ sess[s].pc = "loaded" /\ sess[s].op # "boot"
       \/ sess[s].pc = "release" /\ sess[s].op # "boot" /\ LastQuestionExpires(s)
       \/ sess[s].pc \in {"claimed", "offlock", "working"}
       \/ sess[s].pc = "ready" /\ ~BudgetLeft(s)
    /\ lock \in {NoSession, s}
    /\ ~Fits(s, NextAppend(s))
    /\ lock' = NoSession
    /\ EndRequest(s)
    /\ UNCHANGED <<row, log, question, wall, claimant, stray>>

-----------------------------------------------------------------------------
(* The environment.                                                        *)

\* The process serving the request dies: its transaction is rolled back.
Crash(s) ==
    /\ Live(s)
    /\ lock' = IF lock = s THEN NoSession ELSE lock
    /\ EndRequest(s)
    /\ UNCHANGED <<row, log, question, wall, claimant, stray>>

\* The heartbeat (or, before the first one, created_at) leaves the window.  A
\* live step may outlast it: five provider calls of a minute each and a backoff.
HeartbeatAges ==
    /\ row.beat = "fresh"
    /\ row' = [row EXCEPT !.beat = "stale"]
    /\ UNCHANGED <<log, question, wall, lock, sess, claimant, stray>>

Request(s) ==
    \/ \E op \in RequestKinds : Receive(s, op) \/ ReceiveSweep(s, op)
    \/ \E q \in Pending : ReceiveAnswer(s, q)

Handle(s) ==
    \/ CommitPause(s) \/ CommitCancel(s) \/ CommitStart(s) \/ CommitResume(s)
    \/ CommitAnswer(s) \/ CommitRecovery(s) \/ SweepLoadsRun(s) \/ CommitExpiry(s)
    \/ BootSweepEnds(s) \/ Conflict(s)

Work(s) ==
    \/ Claim(s) \/ OpenStep(s) \/ CommitMidStep(s) \/ Advance(s)
    \/ StopWithQuestion(s) \/ StopPaused(s) \/ StopBlocked(s) \/ StopFailed(s)
    \/ FailUnclaimed(s) \/ Finish(s)

Next ==
    \/ HeartbeatAges
    \/ \E s \in Session : Request(s) \/ Handle(s) \/ Work(s) \/ Crash(s)

Spec == Init /\ [][Next]_vars


\* Every request that was received runs on: a handler is never abandoned by its
\* server other than by Crash, and a step's provider calls time out.
FairSpec == Spec /\ \A s \in Session : WF_vars(Handle(s) \/ Work(s))

-----------------------------------------------------------------------------
(* Properties.                                                             *)

SessionType ==
    [pc : {"idle", "loaded", "swept", "release", "ready", "claimed", "offlock",
           "working", "done"},
     op : RequestKinds \cup {"none"}, status : Statuses, version : Nat, iter : Nat,
     steps : Nat, tools : 0..MaxToolCalls, dirty : BOOLEAN,
     pend : SUBSET Nat, seen : SUBSET Nat]

RowType == [status : Statuses, version : Nat, iter : Nat, beat : {"fresh", "stale"}]

QuestionStatus == {"PENDING", "RESOLVED", "EXPIRED", "CANCELLED"}

ColumnsOK ==
    /\ row \in RowType
    /\ log \subseteq Nat
    /\ question \in Seq(QuestionStatus)
    /\ wall \in BOOLEAN
    /\ lock \in Session \cup {NoSession}
    /\ sess \in [Session -> SessionType]
    /\ claimant \in Session \cup {NoSession}
    /\ \A s \in Session : lock = s <=> sess[s].pc = "working"

\* The types of the columns and of the in-memory state; a session is inside its
\* per-step allowance of tool calls, and only a worker in a step holds the lock.
TypeOK == ColumnsOK /\ stray \in BOOLEAN

\* A run that says "waiting for you" has a question to answer
\* (_create_checkpoint's promise), whatever answers, sweeps, cancellations and
\* resumed workers overlap.
WaitingHasQuestion == row.status = "WAITING_FOR_USER" => Pending # {}

\* Why it holds, as an inductive invariant: the question a waiting run waits for is
\* the latest one; whoever has selected it for an answer or for expiry also read
\* the run as waiting, and so moves the run when it closes the question; and a
\* sweep that selected a question selected every older one still open.
WaitingInv ==
    /\ \A s \in Session : sess[s].seen \subseteq DOMAIN question
    /\ \A s \in Session : sess[s].pc \in {"swept", "release"} =>
           \A p \in Pending, q \in sess[s].seen : p <= q => p \in sess[s].seen
    /\ row.status = "WAITING_FOR_USER" =>
           /\ Len(question) \in Pending
           /\ \A s \in Session :
                  sess[s].pc \in {"loaded", "release"} /\ Len(question) \in sess[s].seen
                     => sess[s].status = "WAITING_FOR_USER"

\* No question outlives a run that failed or was cancelled: "leaving it pending
\* would show the student a question that will never be answered" (cancel_run).
ClosedRunHasNoQuestion == row.status \in {"FAILED", "CANCELLED"} => Pending = {}

\* The transaction that writes a step is the one whose claim committed last: two
\* workers never interleave steps on one run (claim_step's single-writer promise).
StepWriterIsClaimant == lock # NoSession => lock = claimant

\* The promise is kept by every interleaving of starts, answers, resumes, sweeps,
\* pauses and cancellations, until an answer is taken to a question the run does not
\* wait for, or a resume to a run that is only starting.
OneWriterUnlessStray == ~stray => StepWriterIsClaimant

\* Nor does the run take more steps than its budget until then, though each worker
\* checks the budget on its own in-memory counter (assert_iteration_budget).
BudgetUnlessStray == ~stray => row.iter <= MaxIterations

\* Every request ends: no interleaving leaves a handler or a worker waiting for a
\* row lock forever (execute_run, get_db's rollback).
RequestsFinish == \A s \in Session : Live(s) ~> ~Live(s)

\* The sweep s has selected a run whose worker is gone.
Abandoned(s) ==
    /\ row.status \in RecoverableStatuses
    /\ sess[s].op \in {"recover", "boot"} /\ sess[s].pc = "loaded"
    /\ sess[s].version = row.version
    /\ \A t \in Session \ {s} : ~Live(t)

\* A recovery request that found a run whose worker is gone parks it
\* (recover_stale_runs, "paused, never auto-resumed"), unless it dies itself or a
\* stray answer has put the row's version below the last event: then every later
\* event of the run is refused.
SweepParks ==
    [][\A s \in Session :
          ~stray /\ Abandoned(s) /\ sess[s].op = "recover" /\ Handle(s)
             => row'.status \notin RecoverableStatuses]_vars

\* "Sweeping at boot parks such runs before the first request"
\* (_run_recovery_sweep): so does a boot sweep that found one.
BootSweepParks ==
    [][\A s \in Session : Abandoned(s) /\ sess[s].op = "boot" /\ Handle(s)
          => row'.status \notin RecoverableStatuses]_vars

=============================================================================
