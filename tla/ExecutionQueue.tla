--------------------------- MODULE ExecutionQueue ---------------------------
(***************************************************************************)
(* The execution queue: jobs are rows, a worker claims one with a          *)
(* conditional UPDATE, the orchestrator drives it through the sandbox with *)
(* a commit at each phase, and a sweep reclaims what a dead worker left    *)
(* (modules/execution/queue.py, orchestrator.py, worker.py, service.py).   *)
(*                                                                         *)
(* A session is one AsyncSession: that of a worker's cycle or of one HTTP  *)
(* request.  It reads a row once and keeps what it read (the session does  *)
(* not expire on commit); when it commits it writes the columns it changed *)
(* relative to that view, over whatever the row holds by then.             *)
(*                                                                         *)
(* Every lease is written with the current time as its expiry, so a lease  *)
(* has expired as soon as the clock moves: the column is kept as a         *)
(* BOOLEAN, NULL or not, and the sweep may take every row that has one.    *)
(***************************************************************************)
EXTENDS Integers, FiniteSets, Functions

CONSTANTS
    Jobs,
    Workers,       \* worker processes; each also runs the sweep, between jobs
    Clients,       \* HTTP requests (and the agent's gateway): one session each
    Results,       \* what a sandbox may report
    Duds,          \* what a backend may report without a sandbox
    Reaps,         \* whether removing a sandbox may succeed, fail, or both
    MaxAttempts,   \* execution_max_attempts
    MaxNumber,     \* bound: attempts of a job that was disturbed
    MaxClaims      \* bound: claims per job

ASSUME ExecutionQueueAssumption ==
    /\ Workers \cap Clients = {}
    /\ Results \subseteq {"SUCCEEDED", "FAILED", "TIMED_OUT", "RESOURCE_LIMIT_EXCEEDED"}
    /\ Duds \subseteq {"FAILED", "REJECTED"}
    /\ Reaps \subseteq BOOLEAN
    /\ {MaxAttempts, MaxNumber, MaxClaims} \subseteq Nat \ {0}

Sessions == Workers \cup Clients

VARIABLES
    rows,       \* execution_jobs
    ledger,     \* execution_attempts: <<attempt, status>>
    queued,     \* EXECUTION_QUEUED events in each job's log
    sess,       \* the sessions
    disturbed   \* history: what the code does not guard against happened to the job

vars == <<rows, ledger, queued, sess, disturbed>>

-----------------------------------------------------------------------------
(* The job state machine.                                                  *)

Terminal == {"SUCCEEDED", "FAILED", "TIMED_OUT", "RESOURCE_LIMIT_EXCEEDED", "REJECTED", "CANCELLED"}

Active == {"STARTING", "RUNNING", "COLLECTING_RESULTS"}

\* "ABSENT" stands for a row that is not there yet.
Statuses == {"ABSENT", "CREATED", "QUEUED", "CANCEL_REQUESTED"} \cup Active \cup Terminal

Cleanups == {"PENDING", "CLEANED", "FAILED", "SKIPPED"}

\* TRANSITIONS, restricted to the statuses some code writes.
Targets(status) ==
    CASE status = "CREATED"  -> {"QUEUED", "STARTING", "REJECTED", "CANCELLED"}
      [] status = "QUEUED"   -> {"STARTING", "CANCELLED"}
      [] status = "STARTING" -> {"RUNNING", "QUEUED", "REJECTED", "FAILED", "CANCEL_REQUESTED"}
      [] status = "RUNNING"  -> {"COLLECTING_RESULTS", "QUEUED", "FAILED", "CANCEL_REQUESTED"}
      [] status = "COLLECTING_RESULTS" -> {"CANCEL_REQUESTED", "QUEUED"} \cup Terminal
      [] status = "CANCEL_REQUESTED"   -> {"CANCELLED", "FAILED"}
      [] OTHER -> {}

\* transition: staying put is not a move.
MayMove(from, to) == from = to \/ to \in Targets(from)

NoRow == [status |-> "ABSENT", attempts |-> 0, lease |-> FALSE, cleanup |-> "PENDING", lock |-> 0]

\* Finished and abandoned requests are "done"; a worker starts over at "idle".
Rest(s) == [pc |-> IF s \in Workers THEN "idle" ELSE "done",
            job |-> {}, view |-> [j \in {} |-> NoRow], number |-> 0, result |-> "none"]

Init ==
    /\ rows = [j \in Jobs |-> NoRow]
    /\ ledger = [j \in Jobs |-> {}]
    /\ queued = [j \in Jobs |-> 0]
    /\ sess = [s \in Sessions |-> [Rest(s) EXCEPT !.pc = "idle"]]
    /\ disturbed = [j \in Jobs |-> FALSE]

-----------------------------------------------------------------------------
(* Sessions and their views.                                               *)

At(s, pc) == sess[s].pc = pc

On(s, j) == sess[s].job = {j}

View(s, j) == sess[s].view[j]

\* Mutant: the row is not read.
KeepUnread(s, pc, j, row) == sess' = [sess EXCEPT ![s].pc = pc, ![s].job = {j}]

Keep(s, pc, j, row) ==
    sess' = [sess EXCEPT ![s] = [@ EXCEPT !.pc = pc, !.job = {j}, !.view = [i \in {j} |-> row]]]

End(s) == sess' = [sess EXCEPT ![s] = Rest(s)]

\* The ORM's UPDATE: the columns that differ from the view.
Flush(row, view, new) == [c \in DOMAIN row |-> IF new[c] = view[c] THEN row[c] ELSE new[c]]

\* A session commits; the job is disturbed when the view was out of date.
Commit(s, j, new) ==
    /\ rows' = [rows EXCEPT ![j] = Flush(@, View(s, j), new)]
    /\ disturbed' = [disturbed EXCEPT ![j] = @ \/ rows[j] # View(s, j)]

\* The same, with lease_expires_at = now: a new value whatever the view holds.
CommitLeased(s, j, new) ==
    /\ rows' = [rows EXCEPT ![j] = [Flush(@, View(s, j), new) EXCEPT !.lease = TRUE]]
    /\ disturbed' = [disturbed EXCEPT ![j] = @ \/ rows[j] # View(s, j)]

\* The phases in which a session is the job's worker, and those between the
\* start of an attempt and the recording of its result.
Holding == {"claimed", "loaded", "begun", "running", "collected"}
Holders(j) == {s \in Sessions : On(s, j) /\ sess[s].pc \in Holding}
Runners(j) == {s \in Sessions : On(s, j) /\ sess[s].pc \in {"begun", "running"}}

-----------------------------------------------------------------------------
(* Requests.                                                               *)

\* create_job: the job is committed CREATED or, for a worker, QUEUED.  A sync
\* request and the agent's gateway then execute it in the same session.
SubmitQueued(c, j) ==
    /\ At(c, "idle") /\ rows[j].status = "ABSENT"
    /\ rows' = [rows EXCEPT ![j].status = "QUEUED"]
    /\ queued' = [queued EXCEPT ![j] = @ + 1]
    /\ End(c)
    /\ UNCHANGED <<ledger, disturbed>>

SubmitInline(c, j) ==
    /\ At(c, "idle") /\ rows[j].status = "ABSENT"
    /\ rows' = [rows EXCEPT ![j].status = "CREATED"]
    /\ Keep(c, "loaded", j, rows'[j])
    /\ UNCHANGED <<ledger, queued, disturbed>>

\* The same request again: create_job returns the job the idempotency key
\* names, and a sync request goes on to execute it, whoever else does.
SubmitAgain(c, j) ==
    /\ At(c, "idle") /\ rows[j].status # "ABSENT"
    /\ Keep(c, "loaded", j, rows[j])
    /\ disturbed' = [disturbed EXCEPT ![j] = @ \/ rows[j].status \notin Terminal]
    /\ UNCHANGED <<rows, ledger, queued>>

\* load_owned_job, and then cancel_job on what it returned.
CancelLoad(c, j) ==
    /\ At(c, "idle") /\ rows[j].status # "ABSENT"
    /\ Keep(c, "cancelling", j, rows[j])
    /\ UNCHANGED <<rows, ledger, queued, disturbed>>

Skipped(cleanup) == IF cleanup = "PENDING" THEN "SKIPPED" ELSE cleanup

CancelWrite(c, j) ==
    LET view == View(c, j) IN
    /\ At(c, "cancelling") /\ On(c, j)
    /\ view.status \notin Terminal
    /\ Commit(c, j, IF view.status \in {"QUEUED", "CREATED"}
                    THEN [view EXCEPT !.status = "CANCELLED", !.cleanup = Skipped(@)]
                    ELSE [view EXCEPT !.status = "CANCEL_REQUESTED"])
    /\ End(c)
    /\ UNCHANGED <<ledger, queued>>

CancelRefused(c) ==
    /\ At(c, "cancelling")
    /\ \E j \in Jobs : On(c, j) /\ View(c, j).status \in Terminal
    /\ End(c)
    /\ UNCHANGED <<rows, ledger, queued, disturbed>>

-----------------------------------------------------------------------------
(* claim_job.                                                              *)

\* The candidate is selected (any QUEUED row stands for the first in order) ...
ClaimSelect(w, j) ==
    /\ At(w, "idle") /\ rows[j].status = "QUEUED" /\ rows[j].lock < MaxClaims
    /\ sess' = [sess EXCEPT ![w].pc = "picked", ![w].job = {j}]
    /\ UNCHANGED <<rows, ledger, queued, disturbed>>

Claimed(row) == [row EXCEPT !.status = "STARTING", !.lock = @ + 1, !.lease = TRUE]

\* Mutant: UPDATE ... WHERE id = :id, without the status.
ClaimUpdateUnchecked(w, j) ==
    /\ At(w, "picked") /\ On(w, j) /\ rows[j].lock < MaxClaims
    /\ rows' = [rows EXCEPT ![j] = Claimed(@)]
    /\ sess' = [sess EXCEPT ![w].pc = "claimed"]
    /\ UNCHANGED <<ledger, queued, disturbed>>

\* ... and taken, if it is still QUEUED.
ClaimUpdate(w, j) ==
    /\ At(w, "picked") /\ On(w, j)
    /\ rows[j].status = "QUEUED" /\ rows[j].lock < MaxClaims
    /\ rows' = [rows EXCEPT ![j] = Claimed(@)]
    /\ sess' = [sess EXCEPT ![w].pc = "claimed"]
    /\ UNCHANGED <<ledger, queued, disturbed>>

ClaimLost(w) ==
    /\ At(w, "picked")
    /\ \E j \in Jobs : On(w, j) /\ rows[j].status # "QUEUED"
    /\ End(w)
    /\ UNCHANGED <<rows, ledger, queued, disturbed>>

\* The claimed row is read back after the commit.
ClaimRefresh(w, j) ==
    /\ At(w, "claimed") /\ On(w, j)
    /\ Keep(w, "loaded", j, rows[j])
    /\ UNCHANGED <<rows, ledger, queued, disturbed>>

-----------------------------------------------------------------------------
(* ExecutionOrchestrator.execute, from what the session has read.          *)

\* Already finished, or a status from which STARTING and REJECTED are refused.
ExecuteReturns(s) ==
    /\ At(s, "loaded")
    /\ \E j \in Jobs : /\ On(s, j)
                       /\ View(s, j).status # "CANCEL_REQUESTED"
                       /\ ~MayMove(View(s, j).status, "STARTING")
    /\ End(s)
    /\ UNCHANGED <<rows, ledger, queued, disturbed>>

ExecuteCancel(s, j) ==
    /\ At(s, "loaded") /\ On(s, j) /\ View(s, j).status = "CANCEL_REQUESTED"
    /\ Commit(s, j, [View(s, j) EXCEPT !.status = "CANCELLED", !.cleanup = Skipped(@)])
    /\ End(s)
    /\ UNCHANGED <<ledger, queued>>

\* No adapter, no plan or no backend.
Reject(s, j) ==
    /\ At(s, "loaded") /\ On(s, j) /\ MayMove(View(s, j).status, "REJECTED")
    /\ View(s, j).status \notin Terminal
    /\ Commit(s, j, [View(s, j) EXCEPT !.status = "REJECTED", !.cleanup = "SKIPPED"])
    /\ End(s)
    /\ UNCHANGED <<ledger, queued>>

\* The attempt is counted, and committed before anything runs.
Started(view) == [view EXCEPT !.status = "STARTING", !.attempts = @ + 1, !.lease = TRUE]

\* Mutant: the lease is left to the claim.
BeginUnleased(s, j) ==
    LET new == [Started(View(s, j)) EXCEPT !.lease = View(s, j).lease] IN
    /\ At(s, "loaded") /\ On(s, j) /\ MayMove(View(s, j).status, "STARTING")
    /\ disturbed[j] => new.attempts <= MaxNumber
    /\ Commit(s, j, new)
    /\ sess' = [sess EXCEPT ![s].pc = "begun", ![s].view = [i \in {j} |-> new], ![s].number = new.attempts]
    /\ UNCHANGED <<ledger, queued>>

Begin(s, j) ==
    LET new == Started(View(s, j)) IN
    /\ At(s, "loaded") /\ On(s, j) /\ MayMove(View(s, j).status, "STARTING")
    /\ disturbed[j] => new.attempts <= MaxNumber
    /\ CommitLeased(s, j, new)
    /\ sess' = [sess EXCEPT ![s].pc = "begun", ![s].view = [i \in {j} |-> new], ![s].number = new.attempts]
    /\ UNCHANGED <<ledger, queued>>

\* RUNNING is committed, and the sandbox is started in a thread.
Launch(s, j) ==
    LET new == [View(s, j) EXCEPT !.status = "RUNNING", !.lease = TRUE] IN
    /\ At(s, "begun") /\ On(s, j)
    /\ CommitLeased(s, j, new)
    /\ Keep(s, "running", j, new)
    /\ UNCHANGED <<ledger, queued>>

Recorded(j, number) == \E r \in Results \cup Duds : <<number, r>> \in ledger[j]

\* _record_attempt: (job_id, attempt) is unique.
Record(s, j, r) ==
    /\ ~Recorded(j, sess[s].number)
    /\ ledger' = [ledger EXCEPT ![j] = @ \cup {<<sess[s].number, r>>}]

\* The result is recorded and the sandbox reaped, in one transaction.
Collect(s, j, r, reaped) ==
    LET new == [View(s, j) EXCEPT !.status = "COLLECTING_RESULTS",
                                  !.cleanup = IF reaped THEN "CLEANED" ELSE "FAILED"] IN
    /\ At(s, "running") /\ On(s, j)
    /\ Record(s, j, r)
    /\ Commit(s, j, new)
    /\ sess' = [sess EXCEPT ![s].pc = "collected", ![s].view = [i \in {j} |-> new], ![s].result = r]
    /\ UNCHANGED queued

\* _finalise.
Finalise(s, j) ==
    /\ At(s, "collected") /\ On(s, j)
    /\ Commit(s, j, [View(s, j) EXCEPT !.status = sess[s].result, !.lease = FALSE])
    /\ End(s)
    /\ UNCHANGED <<ledger, queued>>

\* No sandbox came to be: nothing to reap, and one commit for both.
CollectBare(s, j, r) ==
    /\ At(s, "running") /\ On(s, j)
    /\ Record(s, j, r)
    /\ Commit(s, j, [View(s, j) EXCEPT !.status = r, !.cleanup = "SKIPPED", !.lease = FALSE])
    /\ End(s)
    /\ UNCHANGED queued

\* The unique constraint fails: the session is rolled back and closed.
RecordConflict(s) ==
    /\ At(s, "running")
    /\ \E j \in Jobs : On(s, j) /\ Recorded(j, sess[s].number)
    /\ End(s)
    /\ UNCHANGED <<rows, ledger, queued, disturbed>>

-----------------------------------------------------------------------------
(* recover_stale_jobs, run by a worker between two jobs.                   *)

Stale(row) == row.status \in Active \cup {"CANCEL_REQUESTED"} /\ row.lease

SweepSelect(w) ==
    LET stale == {j \in Jobs : Stale(rows[j])} IN
    /\ At(w, "idle") /\ stale # {}
    /\ sess' = [sess EXCEPT ![w].pc = "sweeping", ![w].view = [j \in stale |-> rows[j]]]
    /\ UNCHANGED <<rows, ledger, queued, disturbed>>

Retried(view) == view.status # "CANCEL_REQUESTED" /\ view.attempts < MaxAttempts

\* Mutant: a failed job keeps its cleanup column.
ReclaimedUncleaned(view) ==
    IF view.status = "CANCEL_REQUESTED"
    THEN [view EXCEPT !.status = "CANCELLED", !.cleanup = "SKIPPED"]
    ELSE IF Retried(view) THEN [view EXCEPT !.status = "QUEUED", !.lease = FALSE]
    ELSE [view EXCEPT !.status = "FAILED"]

Reclaimed(view) ==
    IF view.status = "CANCEL_REQUESTED"
    THEN [view EXCEPT !.status = "CANCELLED", !.cleanup = "SKIPPED"]
    ELSE IF Retried(view) THEN [view EXCEPT !.status = "QUEUED", !.lease = FALSE]
    ELSE [view EXCEPT !.status = "FAILED", !.cleanup = "FAILED"]

\* Mutant: the event is left out.
LogUnqueued(jobs) == queued' = queued

\* The count is compared with lock_version alone, and kept up to its bound.
LogQueued(jobs) ==
    queued' = [j \in Jobs |-> IF j \in jobs /\ queued[j] < MaxClaims
                              THEN queued[j] + 1 ELSE queued[j]]

\* One commit for everything selected.  A job is disturbed when its row has
\* changed since, or when the session that holds it is alive.
SweepCommit(w) ==
    LET view == sess[w].view IN
    /\ At(w, "sweeping")
    /\ rows' = [j \in Jobs |-> IF j \in DOMAIN view
                               THEN Flush(rows[j], view[j], Reclaimed(view[j])) ELSE rows[j]]
    /\ LogQueued({j \in DOMAIN view : Retried(view[j])})
    /\ disturbed' = [j \in Jobs |-> disturbed[j] \/
                        (j \in DOMAIN view /\ (rows[j] # view[j] \/ Holders(j) # {}))]
    /\ End(w)
    /\ UNCHANGED ledger

-----------------------------------------------------------------------------

\* A process dies, or a step raises, with a transaction open: nothing of it
\* is committed.  A worker process is restarted.
Crash(s) ==
    /\ sess[s].pc \notin {"idle", "done"}
    /\ End(s)
    /\ UNCHANGED <<rows, ledger, queued, disturbed>>

Request(c) ==
    \/ \E j \in Jobs : \/ SubmitQueued(c, j) \/ SubmitInline(c, j) \/ SubmitAgain(c, j)
                       \/ CancelLoad(c, j) \/ CancelWrite(c, j)
    \/ CancelRefused(c)

Claim(w) ==
    \/ \E j \in Jobs : ClaimSelect(w, j) \/ ClaimUpdate(w, j) \/ ClaimRefresh(w, j)
    \/ ClaimLost(w)

Execute(s) ==
    \/ \E j \in Jobs :
          \/ ExecuteCancel(s, j) \/ Reject(s, j) \/ Begin(s, j) \/ Launch(s, j) \/ Finalise(s, j)
          \/ \E r \in Results, reaped \in Reaps : Collect(s, j, r, reaped)
          \/ \E r \in Duds : CollectBare(s, j, r)
    \/ ExecuteReturns(s)
    \/ RecordConflict(s)

Sweep(w) == SweepSelect(w) \/ SweepCommit(w)

Next ==
    \/ \E c \in Clients : Request(c)
    \/ \E w \in Workers : Claim(w) \/ Sweep(w)
    \/ \E s \in Sessions : Execute(s) \/ Crash(s)

Spec == Init /\ [][Next]_vars

-----------------------------------------------------------------------------
(* Properties.                                                             *)

Row == [status : Statuses, attempts : Nat, lease : BOOLEAN,
        cleanup : Cleanups, lock : 0..MaxClaims]

\* Types: a session that is on a job has read it, unless it is still claiming.
TypeOK ==
    /\ rows \in [Jobs -> Row]
    /\ \A j \in Jobs : ledger[j] \subseteq Nat \X (Results \cup Duds)
    /\ queued \in [Jobs -> Nat]
    /\ disturbed \in [Jobs -> BOOLEAN]
    /\ \A s \in Sessions :
          /\ sess[s].job \in {{}} \cup {{j} : j \in Jobs}
          /\ sess[s].number \in Nat
          /\ sess[s].pc \in {"loaded", "begun", "running", "collected", "cancelling"} =>
                sess[s].job # {} /\ sess[s].job = DOMAIN sess[s].view
          /\ \A j \in DOMAIN sess[s].view : sess[s].view[j] \in Row

\* A job is claimed at most once each time it is queued, whatever the workers,
\* the sweeps and the cancellations do in between: lock_version, which only the
\* claim's conditional UPDATE moves, never overtakes the log's EXECUTION_QUEUED
\* events.
ClaimedOncePerQueueing == \A j \in Jobs : rows[j].lock <= queued[j]

\* Why it holds, as an inductive invariant: no old view ever writes the lock back,
\* and QUEUED is only written together with the event.
ClaimInv ==
    \A j \in Jobs :
        /\ rows[j].lock <= queued[j]
        /\ rows[j].status = "QUEUED" => rows[j].lock < queued[j] \/ rows[j].lock = MaxClaims

\* A job that says its program ran to an end has the attempt that says so:
\* no overlap of two workers, crash or conflict on the attempt number leaves
\* the verdict without its record.
OutcomeHasEvidence ==
    \A j \in Jobs : rows[j].status \in {"SUCCEEDED", "TIMED_OUT", "RESOURCE_LIMIT_EXCEEDED"} =>
        \E a \in ledger[j] : a[2] = rows[j].status

\* By whichever of its five ways a job has ended (finished, rejected, cancelled
\* by request, by a worker or by the sweep, given up by the sweep), what became
\* of its sandbox has been settled.
EndedJobHasCleanup ==
    \A j \in Jobs : rows[j].status \in Terminal => rows[j].cleanup # "PENDING"

\* A job that has ended is accounted for: its verdict has an attempt, and its
\* sandbox has been settled.
EndedJobIsAccounted == OutcomeHasEvidence /\ EndedJobHasCleanup

\* Unless the job was disturbed, one session at a time runs an attempt of it.
RunsAlone == \A j \in Jobs : ~disturbed[j] => Cardinality(Runners(j)) <= 1

\* The sessions that may go on to write the job's attempt: those that hold it,
\* but for the ones that found it finished.
Owners(j) == {s \in Holders(j) : At(s, "claimed") \/ View(s, j).status \notin Terminal}

\* Why it holds, as an inductive invariant: an undisturbed job has one owner, and
\* while it has one it is not on offer to another.
OwnerInv ==
    \A j \in Jobs :
        /\ ~disturbed[j] => \A s, t \in Owners(j) : s = t
        /\ ~disturbed[j] /\ Owners(j) # {} => rows[j].status \notin {"ABSENT", "QUEUED"}
        /\ \A s \in Holders(j) : sess[s].pc \in {"begun", "running", "collected"} => s \in Owners(j)

\* Unless the job was disturbed, crashes never buy it more attempts than it has.
AttemptsBounded == \A j \in Jobs : ~disturbed[j] => rows[j].attempts <= MaxAttempts

\* Unless the job was disturbed, a worker that dies at any point leaves a row
\* the sweep can see: what is neither waiting nor finished has a lease.
UnfinishedIsSweepable ==
    \A j \in Jobs :
        ~disturbed[j] /\ rows[j].status \in Active \cup {"CANCEL_REQUESTED"} => rows[j].lease

\* Crashes, unless the job was disturbed, neither hide it from the sweep nor buy
\* it attempts.
RecoverySafe == AttemptsBounded /\ UnfinishedIsSweepable

\* Unless the job was disturbed, an ended job never leaves its status.
EndedJobStays ==
    [][\A j \in Jobs : ~disturbed'[j] /\ rows[j].status \in Terminal =>
           rows'[j].status = rows[j].status]_vars

\* What queue.py promises of the claim and the lease: two sandboxes are never
\* started for one job.
OneSandboxPerJob == \A j \in Jobs : Cardinality({s \in Runners(j) : At(s, "running")}) <= 1
=============================================================================
