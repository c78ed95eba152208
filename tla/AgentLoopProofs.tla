--------------------------- MODULE AgentLoopProofs ---------------------------
(***************************************************************************)
(* Proofs about AgentLoop for any plan, any selection of decisions and any *)
(* limits: the order of the plan, the task a decision falls on, what the   *)
(* status tells of the worker, that work is kept, and that the runs of an  *)
(* assignment implement AgentLifecycle.                                    *)
(***************************************************************************)
EXTENDS AgentLoop, TLAPS, WellFoundedInduction

-----------------------------------------------------------------------------
(* The inductive invariant.                                                *)

\* The work a row records: nothing is done on a task before its predecessors are
\* finished, a task in hand comes first, and no submission is completed.
WorkFits(row) ==
    \A t \in Tasks :
        /\ row.task[t] # "PENDING" \/ row.attempts[t] > 0 \/ row.drafts[t] > 0
              => deps[t] \subseteq Finished(row.task)
        /\ row.task[t] = "IN_PROGRESS" => \A u \in Runnable(row.task) : t <= u
        /\ t \in Submit => row.task[t] # "COMPLETED"

\* What the newer row must keep of the older one.
KeptWork(old, new) ==
    \A t \in Tasks :
        /\ old.task[t] \in {"COMPLETED", "BLOCKED"} => new.task[t] = old.task[t]
        /\ new.drafts[t] >= old.drafts[t]

Wall(row) == \E t \in Tasks : row.task[t] = "BLOCKED"

\* What the worker's place in its loop says about the rows: nothing is uncommitted
\* while no worker is on the run or a step was just claimed, and a deciding worker
\* has the task of its step in hand.
WorkerInv ==
    /\ Off => /\ txn = db
              /\ db.status = "BLOCKED" => Wall(db)
              /\ ending = "returned" => db.status \notin RecoverableStatuses
    /\ ~Off => db.status \in RecoverableStatuses /\ txn.status = "RUNNING"
    /\ work.pc \in {"claimed", "deciding"} => db.status = "RUNNING"
    /\ work.pc = "claimed" => txn = db
    /\ work.pc = "deciding" => /\ work.node \in Tasks
                               /\ txn.task[work.node] = "IN_PROGRESS"
                               /\ work.seen \in {"PENDING", "IN_PROGRESS"}

\* A run put aside fits the plan's tasks as they have become since.
AsideInv ==
    \A r \in Runs : aside[r].status \in Statuses \ TerminalStatuses =>
        /\ \A t \in Tasks : aside[r].attempts[t] > 0 \/ aside[r].drafts[t] > 0
                             => deps[t] \subseteq Finished(db.task)
        /\ aside[r].status = "BLOCKED" => Wall(db)

LoopInv ==
    /\ TypeOK
    /\ Acyclic(deps)
    /\ WorkFits(db) /\ WorkFits(txn)
    /\ KeptWork(db, txn)
    /\ WorkerInv
    /\ AsideInv

\* What a step does to the committed rows: it keeps the work done, and moves the
\* status of the run in hand along the table or turns to another run.
WorkStays ==
    \A t \in Tasks :
        /\ db.task[t] = "COMPLETED" => db'.task[t] = "COMPLETED"
        /\ run' = run => db'.drafts[t] >= db.drafts[t]

InHandMoves ==
    /\ run' = run /\ aside' = aside
    /\ db'.status = db.status \/ CanMove(db.status, db'.status)

Turns ==
    \E r \in Runs \ {run} :
        /\ run' = r
        /\ aside' = [aside EXCEPT ![run] = SetAside(db), ![r] = StatusOnly("NONE")]
        /\ \/ db'.status = aside[r].status
           \/ aside[r].status = "NONE" /\ NoneActive /\ db'.status = "CREATED"

StatusMoves == InHandMoves \/ Turns

Outcome == LoopInv' /\ WorkStays /\ StatusMoves

-----------------------------------------------------------------------------
(* Selection.                                                              *)

LEMMA LeastTask ==
  ASSUME NEW S \in SUBSET Nat, S # {}
  PROVE  \E t \in S : \A u \in S : t <= u
  <1>1. PICK t \in S : \A u \in S : ~ (<<u, t>> \in OpToRel(<, Nat))
    BY NatLessThanWellFounded, WFMin
  <1>2. \A u \in S : <<u, t>> \in OpToRel(<, Nat) <=> u < t
    BY DEF OpToRel
  <1>3. \A u \in S : ~ (u < t)
    BY <1>1, <1>2, Zenon
  <1>4. \A u \in S : t <= u
    BY <1>3
  <1> QED
    BY <1>4, Zenon

LEMMA SelectedIsFirst ==
  ASSUME NEW task, Runnable(task) # {}
  PROVE  /\ Selected(task) \in Runnable(task)
         /\ \A u \in Runnable(task) : Selected(task) <= u
  <1>1. Runnable(task) \subseteq Nat
    BY AgentLoopAssumption DEF Runnable, AgentLoopAssumption
  <1>2. \E t \in Runnable(task) : \A u \in Runnable(task) : t <= u
    BY <1>1, LeastTask, Zenon
  <1> QED
    BY <1>2, Zenon DEF Selected

\* In a row that fits, a task in hand is runnable, and the one the loop selects.
LEMMA InHand ==
  ASSUME NEW row, WorkFits(row), NEW t \in Tasks, row.task[t] = "IN_PROGRESS"
  PROVE  /\ t \in Runnable(row.task)
         /\ \A u \in Runnable(row.task) : t <= u
         /\ t = Selected(row.task)
  <1>1. t \in Runnable(row.task) /\ \A u \in Runnable(row.task) : t <= u
    BY DEF WorkFits, Runnable
  <1>2. /\ Selected(row.task) \in Runnable(row.task)
        /\ \A u \in Runnable(row.task) : Selected(row.task) <= u
    BY <1>1, SelectedIsFirst, Zenon
  <1>3. Runnable(row.task) \subseteq Nat
    BY AgentLoopAssumption DEF Runnable, AgentLoopAssumption
  <1>4. t <= Selected(row.task) /\ Selected(row.task) <= t
    BY <1>1, <1>2, Zenon
  <1>5. t \in Nat /\ Selected(row.task) \in Nat
    BY <1>1, <1>2, <1>3, Zenon
  <1> QED
    BY <1>1, <1>4, <1>5

\* Behind a wall: where nothing is runnable and something is unfinished, some task
\* is blocked, for the plan has no cycle.
LEMMA NothingRunnable ==
  ASSUME NEW row \in RunRows, deps \in [Tasks -> SUBSET Tasks], Acyclic(deps),
         Runnable(row.task) = {}, Finished(row.task) # Tasks
  PROVE  Wall(row)
  <1> DEFINE open == Tasks \ Finished(row.task)
  <1>1. open \in SUBSET Tasks /\ open # {}
    BY DEF Finished
  <1>2. PICK t \in open : deps[t] \cap open = {}
    BY <1>1, Zenon DEF Acyclic
  <1>3. row.task \in [Tasks -> TaskStatuses]
    BY DEF RunRows
  <1>4. t \in Tasks /\ row.task[t] # "COMPLETED" /\ row.task[t] \in TaskStatuses
    BY <1>3 DEF Finished
  <1>5. deps[t] \subseteq Finished(row.task)
    BY <1>2
  <1>6. row.task[t] \notin {"PENDING", "IN_PROGRESS"}
    BY <1>4, <1>5 DEF Runnable
  <1> QED
    BY <1>4, <1>6 DEF Wall, TaskStatuses

-----------------------------------------------------------------------------
(* The rows a step may leave.                                              *)

LEMMA RowParts ==
  ASSUME NEW row \in RunRows
  PROVE  /\ row.task \in [Tasks -> TaskStatuses]
         /\ row.drafts \in [Tasks -> 0..MaxDrafts]
         /\ row.attempts \in [Tasks -> 0..(MaxAttempts + 1)]
         /\ row.status \in Statuses
         /\ row.streak \in 0..(MaxFailures + 1)
         /\ row.calls \in 0..MaxRunTools
         /\ row.iter \in 0..MaxIterations
  BY DEF RunRows

LEMMA Limits ==
  /\ MaxIterations \in Nat \ {0} /\ MaxAttempts \in Nat \ {0} /\ MaxFailures \in Nat \ {0}
  /\ MaxDrafts \in Nat /\ MaxStepTools \in Nat /\ MaxRunTools \in Nat
  BY AgentLoopAssumption DEF AgentLoopAssumption

LEMMA UpToFits ==
  ASSUME NEW limit \in Nat, NEW n \in 0..limit
  PROVE  UpTo(n + 1, limit) \in 0..limit
  BY DEF UpTo

LEMMA KeptOnTheWay ==
  ASSUME NEW a \in RunRows, NEW b \in RunRows, NEW c \in RunRows,
         KeptWork(a, b), KeptWork(b, c)
  PROVE  KeptWork(a, c)
  <1> SUFFICES ASSUME NEW t \in Tasks
               PROVE  /\ a.task[t] = "COMPLETED" => c.task[t] = "COMPLETED"
                      /\ c.drafts[t] >= a.drafts[t]
    BY DEF KeptWork
  <1>1. a.drafts[t] \in Nat /\ b.drafts[t] \in Nat /\ c.drafts[t] \in Nat
    BY RowParts, Limits
  <1> QED
    BY <1>1 DEF KeptWork

\* A row with the work of another.
SameWork(old, row) ==
    row.task = old.task /\ row.attempts = old.attempts /\ row.drafts = old.drafts

LEMMA SameWorkFits ==
  ASSUME NEW old \in RunRows, NEW row \in RunRows, SameWork(old, row), WorkFits(old)
  PROVE  WorkFits(row) /\ KeptWork(old, row)
  <1>1. \A t \in Tasks : row.drafts[t] \in Nat
    BY RowParts, Limits
  <1> QED
    BY <1>1 DEF SameWork, WorkFits, KeptWork

\* A row in which one task, that comes first among the runnable ones, was worked on.
WorkedOn(n, old, row) ==
    /\ \A t \in Tasks \ {n} : /\ row.task[t] = old.task[t]
                              /\ row.attempts[t] = old.attempts[t]
                              /\ row.drafts[t] = old.drafts[t]
    /\ row.task[n] = "COMPLETED" => n \notin Submit
    /\ row.drafts[n] >= old.drafts[n]

LEMMA WorkedOnFits ==
  ASSUME NEW old \in RunRows, NEW row \in RunRows, WorkFits(old),
         NEW n \in Runnable(old.task), \A u \in Runnable(old.task) : n <= u,
         WorkedOn(n, old, row)
  PROVE  WorkFits(row) /\ KeptWork(old, row)
  <1>1. n \in Tasks /\ old.task[n] \in {"PENDING", "IN_PROGRESS"}
        /\ deps[n] \subseteq Finished(old.task)
    BY DEF Runnable
  <1>2. Finished(old.task) \subseteq Finished(row.task)
    BY <1>1 DEF Finished, WorkedOn
  <1>3. KeptWork(old, row)
    <2>1. \A t \in Tasks : row.drafts[t] \in Nat
      BY RowParts, Limits
    <2> QED
      BY <1>1, <2>1 DEF KeptWork, WorkedOn
  <1>4. ASSUME NEW t \in Tasks,
               row.task[t] # "PENDING" \/ row.attempts[t] > 0 \/ row.drafts[t] > 0
        PROVE  deps[t] \subseteq Finished(row.task)
    <2>1. CASE t = n
      BY <2>1, <1>1, <1>2
    <2>2. CASE t # n
      BY <2>2, <1>4, <1>2 DEF WorkFits, WorkedOn
    <2> QED
      BY <2>1, <2>2
  <1>5. ASSUME NEW t \in Tasks, row.task[t] = "IN_PROGRESS", t # n
        PROVE  FALSE
    <2>1. old.task[t] = "IN_PROGRESS"
      BY <1>5 DEF WorkedOn
    <2>2. t \in Runnable(old.task) /\ t <= n
      BY <2>1, InHand
    <2>3. n <= t /\ n \in Nat /\ t \in Nat
      BY <2>2, <1>1, AgentLoopAssumption DEF AgentLoopAssumption
    <2> QED
      BY <2>2, <2>3, <1>5
  <1>6. ASSUME row.task[n] = "IN_PROGRESS"
        PROVE  Runnable(row.task) \subseteq Runnable(old.task)
    <2>1. Finished(row.task) = Finished(old.task)
      BY <1>1, <1>6 DEF Finished, WorkedOn
    <2> SUFFICES ASSUME NEW t \in Runnable(row.task) PROVE t \in Runnable(old.task)
      OBVIOUS
    <2>2. t \in Tasks /\ row.task[t] \in {"PENDING", "IN_PROGRESS"}
          /\ deps[t] \subseteq Finished(old.task)
      BY <2>1 DEF Runnable
    <2>3. old.task[t] \in {"PENDING", "IN_PROGRESS"}
      BY <2>2, <1>1 DEF WorkedOn
    <2> QED
      BY <2>2, <2>3 DEF Runnable
  <1>7. ASSUME NEW t \in Tasks, row.task[t] = "IN_PROGRESS"
        PROVE  \A u \in Runnable(row.task) : t <= u
    <2>1. t = n
      BY <1>5, <1>7
    <2> QED
      BY <2>1, <1>6, <1>7
  <1>8. ASSUME NEW t \in Submit PROVE row.task[t] # "COMPLETED"
    <2>1. t \in Tasks /\ old.task[t] # "COMPLETED"
      BY AgentLoopAssumption DEF AgentLoopAssumption, WorkFits
    <2> QED
      BY <2>1 DEF WorkedOn
  <1> QED
    BY <1>3, <1>4, <1>7, <1>8, Zenon DEF WorkFits

-----------------------------------------------------------------------------
(* The ways a worker leaves a step.                                        *)

LEMMA Moving ==
  /\ \A from \in RecoverableStatuses :
        \A to \in {"WAITING_FOR_USER", "PAUSED", "BLOCKED", "FAILED"} : CanMove(from, to)
  /\ CanMove("RUNNING", "COMPLETED") /\ CanMove("STARTING", "RUNNING")
  /\ CanMove("CREATED", "STARTING")
  /\ \A from \in ResumableStatuses : CanMove(from, "RUNNING")
  BY DEF CanMove, Transitions, Statuses, RecoverableStatuses, ResumableStatuses

LEMMA InvParts ==
  ASSUME LoopInv
  PROVE  /\ db \in RunRows /\ txn \in RunRows
         /\ work.pc \in {"off", "head", "claimed", "deciding"}
         /\ work.steps \in 0..MaxIterations /\ work.tools \in 0..MaxStepTools
         /\ work.node \in Tasks \cup {0} /\ work.seen \in TaskStatuses
         /\ run \in Runs /\ deps \in [Tasks -> SUBSET Tasks]
         /\ aside \in [Runs -> RunRows \cup {StatusOnly(s) : s \in TerminalStatuses \cup {"NONE"}}]
         /\ WorkFits(db) /\ WorkFits(txn) /\ KeptWork(db, txn)
  BY DEF LoopInv, TypeOK

\* What is kept of the other runs goes on fitting while the work is kept.
LEMMA AsideStays ==
  ASSUME LoopInv, KeptWork(db, db'), deps' = deps, aside' = aside
  PROVE  AsideInv'
  <1> SUFFICES ASSUME NEW r \in Runs, aside[r].status \in Statuses \ TerminalStatuses
               PROVE  /\ \A t \in Tasks : aside[r].attempts[t] > 0 \/ aside[r].drafts[t] > 0
                                           => deps[t] \subseteq Finished(db'.task)
                      /\ aside[r].status = "BLOCKED" => Wall(db')
    BY DEF AsideInv, Finished, Wall
  <1>1. Finished(db.task) \subseteq Finished(db'.task)
    BY DEF Finished, KeptWork
  <1>2. Wall(db) => Wall(db')
    BY DEF Wall, KeptWork
  <1> QED
    BY <1>1, <1>2 DEF LoopInv, AsideInv

\* The committed row after a step keeps what it held, where the step keeps it.
LEMMA KeptStays ==
  ASSUME KeptWork(db, db')
  PROVE  WorkStays
  BY DEF KeptWork, WorkStays

LEMMA KeptItself ==
  ASSUME NEW row \in RunRows
  PROVE  KeptWork(row, row)
  <1>1. \A t \in Tasks : row.drafts[t] \in Nat
    BY RowParts, Limits
  <1> QED
    BY <1>1 DEF KeptWork

\* A worker that returns says so in the committed status.
LEMMA ReturnStep ==
  ASSUME LoopInv, ~Off, NEW row \in RunRows, WorkFits(row), KeptWork(txn, row),
         row.status \in {"WAITING_FOR_USER", "PAUSED", "BLOCKED", "FAILED", "COMPLETED"},
         row.status = "COMPLETED" => db.status = "RUNNING",
         row.status = "BLOCKED" => Wall(row),
         Return(row)
  PROVE  Outcome
  <1>1. /\ db' = row /\ txn' = row /\ work' = NoWork /\ ending' = "returned"
        /\ deps' = deps /\ run' = run /\ aside' = aside
    BY DEF Return, Commit
  <1>2. KeptWork(db, row)
    BY KeptOnTheWay, InvParts
  <1>3. TypeOK'
    <2>1. NoWork \in [pc : {"off", "head", "claimed", "deciding"}, node : Tasks \cup {0},
                      seen : TaskStatuses, steps : 0..MaxIterations, tools : 0..MaxStepTools]
      BY Limits DEF NoWork, TaskStatuses
    <2> QED
      BY <1>1, <2>1, InvParts DEF TypeOK
  <1>4. Acyclic(deps)' /\ WorkFits(db)' /\ WorkFits(txn)'
    BY <1>1 DEF LoopInv, Acyclic, WorkFits, Runnable, Finished
  <1>5. KeptWork(db, txn)'
    BY <1>1, KeptItself
  <1>6. WorkerInv'
    BY <1>1 DEF WorkerInv, Off, NoWork, Wall, RecoverableStatuses
  <1>7. StatusMoves
    <2>1. db.status \in RecoverableStatuses
      BY DEF LoopInv, WorkerInv
    <2> QED
      BY <1>1, <2>1, Moving DEF StatusMoves, InHandMoves
  <1>8. WorkStays
    BY <1>1, <1>2, KeptStays
  <1>9. AsideInv'
    BY <1>1, <1>2, AsideStays
  <1> QED
    BY <1>3, <1>4, <1>5, <1>6, <1>7, <1>8, <1>9 DEF Outcome, LoopInv

\* A step that advances leaves its work to the next claim.
LEMMA AdvanceStep ==
  ASSUME LoopInv, work.pc = "deciding", NEW row \in RunRows, WorkFits(row),
         KeptWork(txn, row), row.status = "RUNNING", Advanced(row)
  PROVE  Outcome
  <1>1. /\ db' = db /\ txn' = row /\ work' = [work EXCEPT !.pc = "head"]
        /\ ending' = ending /\ deps' = deps /\ run' = run /\ aside' = aside
    BY DEF Advanced
  <1>2. KeptWork(db, row)
    BY KeptOnTheWay, InvParts
  <1>3. TypeOK'
    BY <1>1, InvParts DEF TypeOK, LoopInv
  <1>4. Acyclic(deps)' /\ WorkFits(db)' /\ WorkFits(txn)' /\ KeptWork(db, txn)'
    BY <1>1, <1>2 DEF LoopInv, Acyclic, WorkFits, Runnable, Finished, KeptWork
  <1>5. WorkerInv'
    <2>1. work'.pc = "head"
      BY <1>1, InvParts DEF LoopInv, TypeOK
    <2> QED
      BY <1>1, <2>1 DEF WorkerInv, Off, LoopInv
  <1>6. WorkStays /\ StatusMoves
    BY <1>1, InvParts, KeptItself, KeptStays DEF StatusMoves, InHandMoves
  <1>7. AsideInv'
    BY <1>1, InvParts, KeptItself, AsideStays
  <1> QED
    BY <1>3, <1>4, <1>5, <1>6, <1>7 DEF Outcome, LoopInv

-----------------------------------------------------------------------------
(* The rows the decisions write.                                           *)

LEMMA StatusRow ==
  ASSUME NEW row \in RunRows, NEW status \in Statuses
  PROVE  /\ [row EXCEPT !.status = status] \in RunRows
         /\ SameWork(row, [row EXCEPT !.status = status])
         /\ [row EXCEPT !.status = status].status = status
  BY DEF RunRows, SameWork

LEMMA CountRows ==
  ASSUME NEW row \in RunRows
  PROVE  /\ Called(row) \in RunRows /\ SameWork(row, Called(row))
         /\ Called(row).status = row.status
         /\ Succeeded(row) \in RunRows /\ SameWork(row, Succeeded(row))
         /\ Succeeded(row).status = row.status
  <1>1. UpTo(row.calls + 1, MaxRunTools) \in 0..MaxRunTools
    BY RowParts, Limits, UpToFits
  <1>2. 0 \in 0..(MaxFailures + 1)
    BY Limits
  <1> QED
    BY <1>1, <1>2 DEF RunRows, SameWork, Called, Succeeded

\* A row with another status of one task.
WithTask(row, n, x) == [row EXCEPT !.task[n] = x]

LEMMA TaskRow ==
  ASSUME NEW row \in RunRows, NEW n \in Tasks, NEW x \in TaskStatuses
  PROVE  /\ WithTask(row, n, x) \in RunRows
         /\ WithTask(row, n, x).task[n] = x
         /\ \A t \in Tasks \ {n} : WithTask(row, n, x).task[t] = row.task[t]
         /\ WithTask(row, n, x).attempts = row.attempts
         /\ WithTask(row, n, x).drafts = row.drafts
         /\ WithTask(row, n, x).status = row.status
  BY DEF RunRows, WithTask

LEMMA BlockedRow ==
  ASSUME NEW row \in RunRows, work.node \in Tasks
  PROVE  /\ BlockTask(row) \in RunRows
         /\ BlockTask(row).task[work.node] = "BLOCKED"
         /\ \A t \in Tasks \ {work.node} : BlockTask(row).task[t] = row.task[t]
         /\ BlockTask(row).attempts = row.attempts /\ BlockTask(row).drafts = row.drafts
         /\ BlockTask(row).status = "BLOCKED"
  BY DEF RunRows, BlockTask, TaskStatuses, Statuses

\* A row that differs from the worker's in what it counts.
SameRow(row) == row \in RunRows /\ SameWork(txn, row) /\ row.status = txn.status

LEMMA CountedRows ==
  ASSUME LoopInv
  PROVE  /\ SameRow(txn) /\ SameRow(Called(txn)) /\ SameRow(Succeeded(txn))
         /\ \A row : SameRow(row) => SameRow(Succeeded(row))
  <1>1. txn \in RunRows
    BY InvParts
  <1>2. SameRow(txn) /\ SameRow(Called(txn)) /\ SameRow(Succeeded(txn))
    BY <1>1, CountRows DEF SameRow, SameWork
  <1>3. ASSUME NEW row, SameRow(row) PROVE SameRow(Succeeded(row))
    BY <1>3, CountRows DEF SameRow, SameWork
  <1> QED
    BY <1>2, <1>3

\* The task of a deciding worker's step comes first among the runnable ones.
LEMMA Node ==
  ASSUME LoopInv, work.pc = "deciding"
  PROVE  /\ work.node \in Tasks /\ work.node \in Runnable(txn.task)
         /\ \A u \in Runnable(txn.task) : work.node <= u
         /\ txn.task[work.node] = "IN_PROGRESS" /\ work.seen \in {"PENDING", "IN_PROGRESS"}
         /\ txn.status = "RUNNING" /\ db.status = "RUNNING"
  <1>1. /\ work.node \in Tasks /\ txn.task[work.node] = "IN_PROGRESS"
        /\ work.seen \in {"PENDING", "IN_PROGRESS"}
        /\ txn.status = "RUNNING" /\ db.status = "RUNNING"
    BY DEF LoopInv, WorkerInv, Off
  <1>2. WorkFits(txn)
    BY InvParts
  <1> QED
    BY <1>1, <1>2, InHand

LEMMA StopStep ==
  ASSUME LoopInv, ~Off, NEW row, SameRow(row),
         NEW status \in {"WAITING_FOR_USER", "PAUSED", "FAILED"},
         Return([row EXCEPT !.status = status])
  PROVE  Outcome
  <1> DEFINE new == [row EXCEPT !.status = status]
  <1>1. row \in RunRows /\ WorkFits(row) /\ KeptWork(txn, row)
    BY SameWorkFits, InvParts DEF SameRow
  <1>2. new \in RunRows /\ SameWork(row, new) /\ new.status = status
    <2>1. status \in Statuses
      BY DEF Statuses
    <2> QED
      BY <1>1, <2>1, StatusRow, Zenon
  <1>3. WorkFits(new) /\ KeptWork(row, new)
    BY <1>1, <1>2, SameWorkFits, Zenon
  <1>4. KeptWork(txn, new)
    BY <1>1, <1>2, <1>3, InvParts, KeptOnTheWay, Zenon
  <1> QED
    BY <1>2, <1>3, <1>4, ReturnStep

LEMMA SameAdvances ==
  ASSUME LoopInv, work.pc = "deciding", NEW row, SameRow(row), Advanced(row)
  PROVE  Outcome
  BY SameWorkFits, InvParts, Node, AdvanceStep DEF SameRow

LEMMA BlockStep ==
  ASSUME LoopInv, work.pc = "deciding", NEW row \in RunRows, SameRow(row),
         Return(BlockTask(row))
  PROVE  Outcome
  <1>1. WorkFits(row) /\ KeptWork(txn, row)
    BY SameWorkFits, InvParts DEF SameRow
  <1>2. /\ work.node \in Tasks /\ work.node \in Runnable(row.task)
        /\ \A u \in Runnable(row.task) : work.node <= u
    BY Node DEF SameRow, SameWork
  <1>3. row.drafts[work.node] \in Nat
    BY <1>2, RowParts, Limits
  <1>4. WorkedOn(work.node, row, BlockTask(row)) /\ Wall(BlockTask(row))
    BY <1>2, <1>3, BlockedRow DEF WorkedOn, Wall
  <1>5. BlockTask(row) \in RunRows /\ BlockTask(row).status = "BLOCKED"
    BY <1>2, BlockedRow
  <1>6. WorkFits(BlockTask(row)) /\ KeptWork(row, BlockTask(row))
    BY <1>1, <1>2, <1>4, <1>5, WorkedOnFits, Zenon
  <1>7. KeptWork(txn, BlockTask(row))
    BY <1>1, <1>5, <1>6, InvParts, KeptOnTheWay, Zenon
  <1> QED
    BY <1>4, <1>5, <1>6, <1>7, ReturnStep DEF Off

LEMMA FailureStep ==
  ASSUME LoopInv, work.pc = "deciding", NEW row, SameRow(row), RecordFailure(row)
  PROVE  Outcome
  <1>1. row \in RunRows /\ WorkFits(row) /\ KeptWork(txn, row)
    BY SameWorkFits, InvParts DEF SameRow
  <1>2. /\ work.node \in Tasks /\ work.node \in Runnable(row.task)
        /\ \A u \in Runnable(row.task) : work.node <= u
        /\ row.status = "RUNNING"
    BY Node DEF SameRow, SameWork
  <1>3. CASE MayRetry(row)
    <2> DEFINE new == WithTask(row, work.node, "PENDING")
    <2>1. /\ new \in RunRows /\ new.task[work.node] = "PENDING"
          /\ \A t \in Tasks \ {work.node} : new.task[t] = row.task[t]
          /\ new.attempts = row.attempts /\ new.drafts = row.drafts
          /\ new.status = row.status
      <3>1. "PENDING" \in TaskStatuses
        BY DEF TaskStatuses
      <3>2. row \in RunRows /\ work.node \in Tasks
        BY <1>1, <1>2
      <3> QED
        BY <3>1, <3>2, TaskRow
    <2>2. row.drafts[work.node] \in Nat
      BY <1>1, <1>2, RowParts, Limits
    <2>3. WorkedOn(work.node, row, new)
      BY <2>1, <2>2 DEF WorkedOn
    <2>4. WorkFits(new) /\ KeptWork(row, new)
      BY <1>1, <1>2, <2>1, <2>3, WorkedOnFits, Zenon
    <2>5. KeptWork(txn, new)
      BY <1>1, <2>1, <2>4, InvParts, KeptOnTheWay, Zenon
    <2>6. Advanced(new)
      BY <1>3, Zenon DEF RecordFailure, WithTask
    <2> QED
      BY <1>2, <2>1, <2>4, <2>5, <2>6, AdvanceStep
  <1>4. CASE ~MayRetry(row)
    BY <1>1, <1>2, <1>4, BlockStep DEF RecordFailure
  <1> QED
    BY <1>3, <1>4
\* A row with one more draft for a task.
WithDraft(row, n) == [row EXCEPT !.drafts[n] = @ + 1]

LEMMA DraftRow ==
  ASSUME NEW row \in RunRows, NEW n \in Tasks, row.drafts[n] < MaxDrafts
  PROVE  /\ WithDraft(row, n) \in RunRows
         /\ WithDraft(row, n).drafts[n] >= row.drafts[n]
         /\ \A t \in Tasks \ {n} : WithDraft(row, n).drafts[t] = row.drafts[t]
         /\ WithDraft(row, n).task = row.task
         /\ WithDraft(row, n).attempts = row.attempts
         /\ WithDraft(row, n).status = row.status
  <1>1. row.drafts[n] \in 0..MaxDrafts /\ MaxDrafts \in Nat
    BY RowParts, Limits
  <1>2. row.drafts[n] + 1 \in 0..MaxDrafts
    BY <1>1
  <1> QED
    BY <1>1, <1>2 DEF RunRows, WithDraft

LEMMA DraftStep ==
  ASSUME LoopInv, work.pc = "deciding", NEW row, SameRow(row), Draft(row)
  PROVE  Outcome
  <1>1. SameRow(Succeeded(row))
    BY CountedRows
  <1>2. ~Off
    BY DEF Off
  <1>3. CASE row.drafts[work.node] >= MaxDrafts
    <2>1. Return([Succeeded(row) EXCEPT !.status = "WAITING_FOR_USER"])
      BY <1>3 DEF Draft, Ask
    <2> QED
      BY <1>1, <1>2, <2>1, StopStep
  <1>4. CASE FailRun(row)
    BY <1>2, <1>4, StopStep DEF FailRun
  <1>5. CASE /\ ~(row.drafts[work.node] >= MaxDrafts)
             /\ Advanced(WithDraft(Succeeded(row), work.node))
    <2> DEFINE done == Succeeded(row)
               new  == WithDraft(done, work.node)
    <2>1. /\ done \in RunRows /\ WorkFits(done) /\ KeptWork(txn, done)
          /\ done.status = "RUNNING"
      BY <1>1, SameWorkFits, InvParts, Node DEF SameRow
    <2>2. /\ work.node \in Tasks /\ work.node \in Runnable(done.task)
          /\ \A u \in Runnable(done.task) : work.node <= u
          /\ done.task[work.node] = "IN_PROGRESS"
      BY <1>1, Node DEF SameRow, SameWork
    <2>3. done.drafts = row.drafts /\ row.drafts[work.node] \in Nat
      BY <1>1, <2>2, RowParts, Limits DEF SameRow, SameWork
    <2>4. done.drafts[work.node] < MaxDrafts
      BY <1>5, <2>3, Limits
    <2>5. /\ new \in RunRows /\ new.status = done.status
          /\ new.drafts[work.node] >= done.drafts[work.node]
          /\ \A t \in Tasks \ {work.node} : new.drafts[t] = done.drafts[t]
          /\ new.task = done.task /\ new.attempts = done.attempts
      <3>1. done \in RunRows /\ work.node \in Tasks
        BY <2>1, <2>2
      <3> QED
        BY <3>1, <2>4, DraftRow
    <2>6. WorkedOn(work.node, done, new)
      BY <2>2, <2>5 DEF WorkedOn
    <2>7. WorkFits(new) /\ KeptWork(done, new)
      BY <2>1, <2>2, <2>5, <2>6, WorkedOnFits, Zenon
    <2>8. KeptWork(txn, new)
      BY <2>1, <2>5, <2>7, InvParts, KeptOnTheWay, Zenon
    <2> QED
      BY <1>5, <2>1, <2>5, <2>7, <2>8, AdvanceStep
  <1> QED
    BY <1>3, <1>4, <1>5, Zenon DEF Draft, WithDraft

\* The task a completion is validated for is the one in hand.
LEMMA CompletedIsInHand ==
  ASSUME LoopInv, work.pc = "deciding", MayComplete
  PROVE  work.node \notin Submit
  <1>1. PICK key \in Runnable(SeenTasks) \ Submit : SeenTasks[key] = "IN_PROGRESS"
    BY DEF MayComplete
  <1>2. key \in Tasks /\ txn.task \in [Tasks -> TaskStatuses]
    BY InvParts, RowParts DEF Runnable
  <1>3. txn.task[key] = "IN_PROGRESS"
    BY <1>1, <1>2, Node DEF SeenTasks
  <1>4. key = Selected(txn.task)
    BY <1>2, <1>3, InvParts, InHand
  <1>5. work.node = Selected(txn.task)
    BY Node, InvParts, InHand
  <1> QED
    BY <1>1, <1>4, <1>5

LEMMA CompleteStep ==
  ASSUME LoopInv, CompleteTask
  PROVE  Outcome
  <1> DEFINE done == Succeeded(txn)
             new  == WithTask(done, work.node, "COMPLETED")
  <1>1. work.pc = "deciding" /\ MayComplete /\ Advanced(new)
    BY Zenon DEF CompleteTask, Deciding, WithTask
  <1>2. SameRow(done)
    BY CountedRows
  <1>3. done \in RunRows /\ WorkFits(done) /\ KeptWork(txn, done) /\ done.status = "RUNNING"
    BY <1>1, <1>2, SameWorkFits, InvParts, Node DEF SameRow
  <1>4. /\ work.node \in Tasks /\ work.node \in Runnable(done.task)
        /\ \A u \in Runnable(done.task) : work.node <= u
        /\ work.node \notin Submit
    BY <1>1, <1>2, Node, CompletedIsInHand DEF SameRow, SameWork
  <1>5. /\ new \in RunRows /\ new.task[work.node] = "COMPLETED"
        /\ \A t \in Tasks \ {work.node} : new.task[t] = done.task[t]
        /\ new.attempts = done.attempts /\ new.drafts = done.drafts
        /\ new.status = done.status
    <2>1. "COMPLETED" \in TaskStatuses
      BY DEF TaskStatuses
    <2>2. done \in RunRows /\ work.node \in Tasks
      BY <1>3, <1>4
    <2> QED
      BY <2>1, <2>2, TaskRow
  <1>6. done.drafts[work.node] \in Nat
    BY <1>3, <1>4, RowParts, Limits
  <1>7. WorkedOn(work.node, done, new)
    BY <1>4, <1>5, <1>6 DEF WorkedOn
  <1>8. WorkFits(new) /\ KeptWork(done, new)
    BY <1>3, <1>4, <1>5, <1>7, WorkedOnFits, Zenon
  <1>9. KeptWork(txn, new)
    BY <1>3, <1>5, <1>8, InvParts, KeptOnTheWay, Zenon
  <1> QED
    BY <1>1, <1>3, <1>5, <1>8, <1>9, AdvanceStep
\* A call's result comes back for another decision; one that runs a job commits the
\* open step first.
LEMMA CallStep ==
  ASSUME LoopInv, work.pc = "deciding", ToolsLeft, db' \in {db, txn}, txn' = Called(txn),
         work' = [work EXCEPT !.tools = @ + 1], UNCHANGED <<deps, ending, run, aside>>
  PROVE  Outcome
  <1>1. /\ SameRow(Called(txn)) /\ Called(txn) \in RunRows
        /\ SameWork(txn, Called(txn)) /\ Called(txn).status = "RUNNING"
    BY CountedRows, Node DEF SameRow
  <1>2. /\ work'.pc = "deciding" /\ work'.node = work.node /\ work'.seen = work.seen
    BY InvParts DEF LoopInv, TypeOK
  <1>3. work.tools + 1 \in 0..MaxStepTools
    BY InvParts, Limits DEF ToolsLeft
  <1>4. TypeOK'
    <2>1. work' \in [pc : {"off", "head", "claimed", "deciding"}, node : Tasks \cup {0},
                     seen : TaskStatuses, steps : 0..MaxIterations, tools : 0..MaxStepTools]
      BY <1>3 DEF LoopInv, TypeOK
    <2>2. db' \in RunRows /\ txn' \in RunRows
      BY <1>1, InvParts
    <2> QED
      BY <2>1, <2>2 DEF LoopInv, TypeOK
  <1>5. WorkFits(Called(txn)) /\ KeptWork(txn, Called(txn))
    BY <1>1, InvParts, SameWorkFits
  <1>6. WorkFits(db)' /\ WorkFits(txn)'
    BY <1>5, InvParts DEF WorkFits, Runnable, Finished
  <1>7. KeptWork(db, db') /\ KeptWork(db, Called(txn)) /\ KeptWork(db', Called(txn))
    <2>1. KeptWork(db, db) /\ KeptWork(txn, txn) /\ KeptWork(db, txn)
      BY InvParts, KeptItself
    <2>2. KeptWork(db, Called(txn))
      BY <1>1, <1>5, <2>1, InvParts, KeptOnTheWay, Zenon
    <2>3. CASE db' = db
      BY <2>1, <2>2, <2>3, Zenon
    <2>4. CASE db' = txn
      BY <2>1, <2>2, <1>5, <2>4, Zenon
    <2> QED
      BY <2>3, <2>4
  <1>8. KeptWork(db, txn)'
    BY <1>7 DEF KeptWork
  <1>9. WorkerInv'
    BY <1>1, <1>2, Node DEF WorkerInv, Off, SameWork, RecoverableStatuses
  <1>10. WorkStays /\ StatusMoves
    BY <1>7, KeptStays, Node DEF StatusMoves, InHandMoves
  <1>11. AsideInv'
    BY <1>7, AsideStays
  <1> QED
    BY <1>4, <1>6, <1>8, <1>9, <1>10, <1>11 DEF Outcome, LoopInv, Acyclic

\* A worker that is gone leaves what was committed.
LEMMA LostStep ==
  ASSUME LoopInv, ~Off, db' = db, txn' = db, work' = NoWork,
         ending' \in {"error", "crash"}, UNCHANGED <<deps, run, aside>>
  PROVE  Outcome
  <1>1. NoWork \in [pc : {"off", "head", "claimed", "deciding"}, node : Tasks \cup {0},
                    seen : TaskStatuses, steps : 0..MaxIterations, tools : 0..MaxStepTools]
    BY Limits DEF NoWork, TaskStatuses
  <1>2. TypeOK'
    BY <1>1, InvParts DEF TypeOK
  <1>3. WorkFits(db)' /\ WorkFits(txn)' /\ KeptWork(db, txn)'
    BY InvParts, KeptItself DEF WorkFits, Runnable, Finished
  <1>4. WorkerInv'
    BY DEF LoopInv, WorkerInv, Off, NoWork, RecoverableStatuses
  <1>5. WorkStays /\ StatusMoves
    BY InvParts, KeptItself, KeptStays DEF StatusMoves, InHandMoves
  <1>6. AsideInv'
    BY InvParts, KeptItself, AsideStays
  <1> QED
    BY <1>2, <1>3, <1>4, <1>5, <1>6 DEF Outcome, LoopInv, Acyclic

LEMMA ClaimStep ==
  ASSUME LoopInv, Claim
  PROVE  Outcome
  <1> DEFINE new == [txn EXCEPT !.iter = @ + 1]
  <1>1. /\ work.pc = "head" /\ work.steps < MaxIterations /\ txn.iter < MaxIterations
        /\ db' = new /\ txn' = new
        /\ work' = [work EXCEPT !.pc = "claimed", !.steps = @ + 1]
        /\ UNCHANGED <<deps, ending, run, aside>>
    BY DEF Claim, AtHead, Commit
  <1>2. txn.status = "RUNNING" /\ db.status \in RecoverableStatuses
    BY <1>1 DEF LoopInv, WorkerInv, Off
  <1>3. txn.iter + 1 \in 0..MaxIterations /\ work.steps + 1 \in 0..MaxIterations
    BY <1>1, InvParts, RowParts, Limits
  <1>4. new \in RunRows /\ SameWork(txn, new) /\ new.status = "RUNNING"
    BY <1>2, <1>3, InvParts DEF RunRows, SameWork
  <1>5. work'.pc = "claimed"
        /\ work' \in [pc : {"off", "head", "claimed", "deciding"}, node : Tasks \cup {0},
                      seen : TaskStatuses, steps : 0..MaxIterations, tools : 0..MaxStepTools]
    BY <1>1, <1>3 DEF LoopInv, TypeOK
  <1>6. TypeOK'
    BY <1>1, <1>4, <1>5 DEF LoopInv, TypeOK
  <1>7. WorkFits(new) /\ KeptWork(txn, new)
    BY <1>4, InvParts, SameWorkFits, Zenon
  <1>8. WorkFits(db)' /\ WorkFits(txn)' /\ KeptWork(db, txn)'
    <2>1. WorkFits(new)'
      BY <1>1, <1>7 DEF WorkFits, Runnable, Finished
    <2>2. KeptWork(new, new)
      BY <1>4, KeptItself, Zenon
    <2> QED
      BY <1>1, <1>7, <2>2 DEF WorkFits, Runnable, Finished, KeptWork
  <1>9. WorkerInv'
    BY <1>1, <1>4, <1>5 DEF WorkerInv, Off, RecoverableStatuses
  <1>10. KeptWork(db, new)
    BY <1>4, <1>7, InvParts, KeptOnTheWay, Zenon
  <1>11. WorkStays
    BY <1>1, <1>10, KeptStays
  <1>12. StatusMoves
    BY <1>1, <1>2, <1>4, Moving DEF StatusMoves, InHandMoves, RecoverableStatuses
  <1>13. AsideInv'
    BY <1>1, <1>10, AsideStays
  <1> QED
    BY <1>1, <1>6, <1>8, <1>9, <1>11, <1>12, <1>13 DEF Outcome, LoopInv, Acyclic
\* Nothing runnable is left: the plan is done, or a wall is in the way.
LEMMA FinishStep ==
  ASSUME LoopInv, FinishRun
  PROVE  Outcome
  <1>1. ~Off /\ db.status = "RUNNING" /\ Runnable(txn.task) = {}
    BY DEF FinishRun, Off, LoopInv, WorkerInv
  <1>2. PICK status \in {"COMPLETED", "BLOCKED"} :
           /\ Return([txn EXCEPT !.status = status])
           /\ status = "BLOCKED" => Finished(txn.task) # Tasks
    BY DEF FinishRun
  <1> DEFINE new == [txn EXCEPT !.status = status]
  <1>3. new \in RunRows /\ SameWork(txn, new) /\ new.status = status
    <2>1. status \in Statuses
      BY DEF Statuses
    <2> QED
      BY <2>1, InvParts, StatusRow, Zenon
  <1>4. WorkFits(new) /\ KeptWork(txn, new)
    BY <1>3, InvParts, SameWorkFits, Zenon
  <1>5. status = "BLOCKED" => Wall(new)
    <2>1. ASSUME status = "BLOCKED" PROVE Wall(txn)
      BY <1>1, <1>2, <2>1, InvParts, NothingRunnable DEF LoopInv
    <2>2. new.task = txn.task
      BY <1>3 DEF SameWork
    <2> QED
      BY <2>1, <2>2 DEF Wall
  <1> QED
    BY <1>1, <1>2, <1>3, <1>4, <1>5, ReturnStep

LEMMA OpensStep ==
  ASSUME LoopInv, OpenStep
  PROVE  Outcome
  <1> DEFINE n == Selected(txn.task)
             new == [txn EXCEPT !.attempts[n] = UpTo(@ + 1, MaxAttempts + 1),
                                !.streak = UpTo(@ + 1, MaxFailures + 1),
                                !.task[n] = "IN_PROGRESS"]
  <1>1. /\ work.pc = "claimed" /\ Runnable(txn.task) # {}
        /\ txn' = new
        /\ work' = [work EXCEPT !.pc = "deciding", !.node = n, !.tools = 0,
                                !.seen = txn.task[n]]
        /\ UNCHANGED <<deps, db, ending, run, aside>>
    BY DEF OpenStep
  <1>2. n \in Runnable(txn.task) /\ \A u \in Runnable(txn.task) : n <= u
    BY <1>1, SelectedIsFirst
  <1>3. n \in Tasks /\ txn.task[n] \in {"PENDING", "IN_PROGRESS"}
    BY <1>2 DEF Runnable
  <1>4. /\ txn.status = "RUNNING" /\ db.status = "RUNNING"
    BY <1>1 DEF LoopInv, WorkerInv, Off
  <1>5. /\ new \in RunRows /\ new.task[n] = "IN_PROGRESS" /\ new.drafts = txn.drafts
        /\ new.status = txn.status
        /\ \A t \in Tasks \ {n} : /\ new.task[t] = txn.task[t]
                                  /\ new.attempts[t] = txn.attempts[t]
    <2>1. UpTo(txn.attempts[n] + 1, MaxAttempts + 1) \in 0..(MaxAttempts + 1)
      <3>1. txn.attempts[n] \in 0..(MaxAttempts + 1) /\ MaxAttempts + 1 \in Nat
        BY <1>3, InvParts, RowParts, Limits
      <3> QED
        BY <3>1, UpToFits
    <2>2. UpTo(txn.streak + 1, MaxFailures + 1) \in 0..(MaxFailures + 1)
      <3>1. txn.streak \in 0..(MaxFailures + 1) /\ MaxFailures + 1 \in Nat
        BY InvParts, RowParts, Limits
      <3> QED
        BY <3>1, UpToFits
    <2>3. txn \in RunRows /\ n \in Tasks /\ "IN_PROGRESS" \in TaskStatuses
      BY <1>3, InvParts DEF TaskStatuses
    <2> HIDE DEF n
    <2> QED
      BY <2>1, <2>2, <2>3 DEF RunRows
  <1> HIDE DEF new
  <1>6. WorkedOn(n, txn, new)
    <2>1. txn.drafts[n] \in Nat
      BY <1>3, InvParts, RowParts, Limits
    <2> QED
      BY <1>3, <1>5, <2>1 DEF WorkedOn
  <1>7. WorkFits(new) /\ KeptWork(txn, new)
    BY <1>2, <1>5, <1>6, InvParts, WorkedOnFits, Zenon
  <1>8. KeptWork(db, new)
    BY <1>5, <1>7, InvParts, KeptOnTheWay, Zenon
  <1>9. work' \in [pc : {"off", "head", "claimed", "deciding"}, node : Tasks \cup {0},
                   seen : TaskStatuses, steps : 0..MaxIterations, tools : 0..MaxStepTools]
        /\ work'.pc = "deciding" /\ work'.node = n /\ work'.seen = txn.task[n]
    <2> HIDE DEF n
    <2>1. txn.task[n] \in TaskStatuses /\ 0 \in 0..MaxStepTools
      BY <1>3, Limits DEF TaskStatuses
    <2> QED
      BY <1>1, <1>3, <2>1 DEF LoopInv, TypeOK
  <1>10. TypeOK'
    BY <1>1, <1>5, <1>9 DEF LoopInv, TypeOK
  <1>11. WorkFits(db)' /\ WorkFits(txn)' /\ KeptWork(db, txn)'
    BY <1>1, <1>7, <1>8, InvParts DEF WorkFits, Runnable, Finished, KeptWork
  <1>12. WorkerInv'
    BY <1>1, <1>3, <1>4, <1>5, <1>9 DEF WorkerInv, Off, RecoverableStatuses
  <1>13. WorkStays /\ StatusMoves
    BY <1>1, InvParts, KeptItself, KeptStays DEF StatusMoves, InHandMoves
  <1>14. AsideInv'
    BY <1>1, InvParts, KeptItself, AsideStays
  <1> QED
    BY <1>1, <1>10, <1>11, <1>12, <1>13, <1>14 DEF Outcome, LoopInv, Acyclic

-----------------------------------------------------------------------------
(* The student and the sweep.                                              *)

LEMMA EnterStep ==
  ASSUME LoopInv, Off, NEW committed \in RecoverableStatuses, Enter(committed),
         CanMove(db.status, committed)
  PROVE  Outcome
  <1> DEFINE new == [db EXCEPT !.status = committed]
             own == [db EXCEPT !.status = "RUNNING"]
  <1>1. /\ db' = new /\ txn' = own /\ work' = [NoWork EXCEPT !.pc = "head"]
        /\ UNCHANGED <<deps, ending, run, aside>>
    BY DEF Enter
  <1>2. new \in RunRows /\ SameWork(db, new) /\ new.status = committed
    <2>1. committed \in Statuses
      BY DEF Statuses, RecoverableStatuses
    <2> QED
      BY <2>1, InvParts, StatusRow, Zenon
  <1>3. own \in RunRows /\ SameWork(db, own) /\ own.status = "RUNNING"
    <2>1. "RUNNING" \in Statuses
      BY DEF Statuses
    <2> QED
      BY <2>1, InvParts, StatusRow, Zenon
  <1>4. WorkFits(new) /\ KeptWork(db, new) /\ WorkFits(own)
    BY <1>2, <1>3, InvParts, SameWorkFits, Zenon
  <1>5. WorkFits(db)' /\ WorkFits(txn)'
    BY <1>1, <1>4 DEF WorkFits, Runnable, Finished
  <1>6. KeptWork(db, txn)'
    <2>1. SameWork(new, own)
      BY <1>2, <1>3 DEF SameWork
    <2>2. KeptWork(new, own)
      BY <1>2, <1>3, <1>4, <2>1, SameWorkFits, Zenon
    <2> QED
      BY <1>1, <2>2 DEF KeptWork
  <1>7. work' \in [pc : {"off", "head", "claimed", "deciding"}, node : Tasks \cup {0},
                   seen : TaskStatuses, steps : 0..MaxIterations, tools : 0..MaxStepTools]
        /\ work'.pc = "head"
    BY <1>1, Limits DEF NoWork, TaskStatuses
  <1>8. TypeOK'
    BY <1>1, <1>2, <1>3, <1>7 DEF LoopInv, TypeOK
  <1>9. WorkerInv'
    BY <1>1, <1>2, <1>3, <1>7 DEF WorkerInv, Off
  <1>10. WorkStays
    BY <1>1, <1>4, KeptStays
  <1>11. StatusMoves
    BY <1>1, <1>2 DEF StatusMoves, InHandMoves
  <1>12. AsideInv'
    BY <1>1, <1>4, AsideStays
  <1> QED
    BY <1>1, <1>5, <1>6, <1>8, <1>9, <1>10, <1>11, <1>12 DEF Outcome, LoopInv, Acyclic

\* A row that a request commits while no worker is on the run.
LEMMA QuietStep ==
  ASSUME LoopInv, Off, NEW row \in RunRows, Commit(row), UNCHANGED <<deps, work>>,
         WorkFits(row), ending' \in {ending, "none"},
         run' \in Runs, AsideInv',
         aside' \in [Runs -> RunRows \cup {StatusOnly(s) : s \in TerminalStatuses \cup {"NONE"}}],
         row.status \in Statuses, row.status \in RecoverableStatuses => ending' = "none",
         row.status = "BLOCKED" => Wall(row)
  PROVE  LoopInv'
  <1>1. db' = row /\ txn' = row /\ deps' = deps /\ work' = work
    BY DEF Commit
  <1>2. TypeOK'
    BY <1>1 DEF LoopInv, TypeOK
  <1>3. WorkFits(db)' /\ WorkFits(txn)' /\ KeptWork(db, txn)'
    <2>1. KeptWork(row, row)
      BY KeptItself
    <2> QED
      BY <1>1, <2>1 DEF WorkFits, Runnable, Finished, KeptWork
  <1>4. WorkerInv'
    BY <1>1 DEF WorkerInv, Off, Wall
  <1> QED
    BY <1>1, <1>2, <1>3, <1>4 DEF LoopInv, Acyclic

LEMMA SetStatusStep ==
  ASSUME LoopInv, Off, NEW status \in {"PAUSED", "CANCELLED"}, SetStatus(status)
  PROVE  Outcome
  <1> DEFINE new == [db EXCEPT !.status = status]
  <1>1. new \in RunRows /\ SameWork(db, new) /\ new.status = status
    <2>1. status \in Statuses
      BY DEF Statuses
    <2> QED
      BY <2>1, InvParts, StatusRow, Zenon
  <1>2. WorkFits(new) /\ KeptWork(db, new)
    BY <1>1, InvParts, SameWorkFits, Zenon
  <1>3. /\ Commit(new) /\ UNCHANGED <<deps, work, ending, run, aside>>
        /\ CanMove(db.status, status)
    BY DEF SetStatus
  <1> HIDE DEF new
  <1>6. AsideInv'
    BY <1>2, <1>3, AsideStays DEF Commit
  <1>4. LoopInv'
    BY <1>1, <1>2, <1>3, <1>6, InvParts, QuietStep DEF RecoverableStatuses, Statuses
  <1>5. WorkStays /\ StatusMoves
    BY <1>1, <1>2, <1>3, KeptStays DEF StatusMoves, InHandMoves, Commit
  <1> QED
    BY <1>4, <1>5 DEF Outcome

\* The run in hand is put aside for another, with the tasks as they are.
LEMMA TurnStep ==
  ASSUME LoopInv, Off, NEW r \in Runs \ {run}, NEW row \in RunRows, TurnTo(r, row),
         WorkFits(row), row.task = db.task, row.status = "BLOCKED" => Wall(row)
  PROVE  LoopInv' /\ WorkStays
  <1> DEFINE kept == SetAside(db)
  <1>1. /\ Commit(row) /\ run' = r /\ ending' = "none" /\ UNCHANGED <<deps, work>>
        /\ aside' = [aside EXCEPT ![run] = kept, ![r] = StatusOnly("NONE")]
    BY DEF TurnTo
  <1>2. /\ kept \in RunRows \cup {StatusOnly(s) : s \in TerminalStatuses \cup {"NONE"}}
        /\ kept.status = db.status
        /\ db.status \notin TerminalStatuses
              => kept.attempts = db.attempts /\ kept.drafts = db.drafts
    <2>1. NoTask \in [Tasks -> TaskStatuses]
      BY DEF NoTask, TaskStatuses
    <2>2. CASE db.status \in TerminalStatuses
      BY <2>2 DEF SetAside, StatusOnly
    <2>3. CASE db.status \notin TerminalStatuses
      BY <2>1, <2>3, InvParts DEF SetAside, RunRows
    <2> QED
      BY <2>2, <2>3
  <1> HIDE DEF kept
  <1>3. aside' \in [Runs -> RunRows \cup {StatusOnly(s) : s \in TerminalStatuses \cup {"NONE"}}]
    <2>1. StatusOnly("NONE") \in {StatusOnly(s) : s \in TerminalStatuses \cup {"NONE"}}
      OBVIOUS
    <2>2. aside \in [Runs -> RunRows \cup {StatusOnly(s) : s \in TerminalStatuses \cup {"NONE"}}]
      BY InvParts
    <2> QED
      BY <1>1, <1>2, <2>1, <2>2, Zenon
  <1>4. \A q \in Runs : aside'[q] = IF q = r THEN StatusOnly("NONE")
                                    ELSE IF q = run THEN kept ELSE aside[q]
    BY <1>1, InvParts
  <1>5. db' = row /\ deps' = deps /\ Finished(db'.task) = Finished(db.task)
        /\ (Wall(db') <=> Wall(db))
    BY <1>1 DEF Commit, Finished, Wall
  <1>6. AsideInv'
    <2> SUFFICES ASSUME NEW q \in Runs, aside'[q].status \in Statuses \ TerminalStatuses
                 PROVE  /\ \A t \in Tasks : aside'[q].attempts[t] > 0 \/ aside'[q].drafts[t] > 0
                                             => deps[t] \subseteq Finished(db.task)
                        /\ aside'[q].status = "BLOCKED" => Wall(db)
      BY <1>5, Zenon DEF AsideInv, Finished, Wall
    <2>1. CASE q = r
      <3>1. aside'[q].status = "NONE"
        BY <1>4, <2>1 DEF StatusOnly
      <3> QED
        BY <3>1 DEF Statuses
    <2>2. CASE q # r /\ q = run
      <3>1. aside'[q] = kept
        BY <1>4, <2>2
      <3>2. db.status \notin TerminalStatuses
        BY <3>1, <1>2
      <3>3. WorkFits(db) /\ (db.status = "BLOCKED" => Wall(db))
        BY InvParts DEF LoopInv, WorkerInv
      <3> QED
        BY <3>1, <3>2, <3>3, <1>2 DEF WorkFits
    <2>3. CASE q # r /\ q # run
      <3>1. aside'[q] = aside[q]
        BY <1>4, <2>3
      <3> QED
        BY <3>1 DEF LoopInv, AsideInv
    <2> QED
      BY <2>1, <2>2, <2>3
  <1>7. row.status \in Statuses
    BY RowParts
  <1>8. LoopInv'
    BY <1>1, <1>3, <1>6, <1>7, QuietStep
  <1>9. WorkStays
    BY <1>1, <1>5, InvParts DEF WorkStays
  <1> QED
    BY <1>8, <1>9

LEMMA NewRunStep ==
  ASSUME LoopInv, NewRun
  PROVE  Outcome
  <1> DEFINE new == FreshRun(db.task)
  <1>1. /\ new \in RunRows /\ new.task = db.task /\ new.status = "CREATED"
        /\ \A t \in Tasks : new.attempts[t] = 0 /\ new.drafts[t] = 0
    <2>1. db.task \in [Tasks -> TaskStatuses]
      BY InvParts, RowParts
    <2> QED
      BY <2>1, Limits DEF FreshRun, RunRows, Statuses
  <1> HIDE DEF new
  <1>2. WorkFits(new)
    BY <1>1, InvParts DEF WorkFits
  <1>3. PICK r \in Runs \ {run} : aside[r].status = "NONE" /\ TurnTo(r, new)
    BY DEF NewRun, new
  <1>4. Off /\ NoneActive
    BY DEF NewRun
  <1>5. LoopInv' /\ WorkStays
    BY <1>1, <1>2, <1>3, <1>4, TurnStep
  <1>6. Turns
    <2>1. /\ run' = r /\ db'.status = "CREATED"
          /\ aside' = [aside EXCEPT ![run] = SetAside(db), ![r] = StatusOnly("NONE")]
      BY <1>1, <1>3 DEF TurnTo, Commit
    <2> QED
      BY <1>3, <1>4, <2>1 DEF Turns
  <1> QED
    BY <1>5, <1>6 DEF Outcome, StatusMoves

LEMMA SwitchStep ==
  ASSUME LoopInv, Switch
  PROVE  Outcome
  <1>1. PICK r \in Runs \ {run} :
           /\ aside[r].status \in Statuses \ TerminalStatuses
           /\ TurnTo(r, [aside[r] EXCEPT !.task = db.task])
    BY DEF Switch
  <1> DEFINE row == [aside[r] EXCEPT !.task = db.task]
  <1>2. aside[r] \in RunRows
    <2>1. aside[r] \in RunRows \cup {StatusOnly(s) : s \in TerminalStatuses \cup {"NONE"}}
      BY <1>1, InvParts, Zenon
    <2>2. ASSUME NEW s \in TerminalStatuses \cup {"NONE"}, aside[r] = StatusOnly(s)
          PROVE  FALSE
      <3>1. aside[r].status = s
        BY <2>2 DEF StatusOnly
      <3> QED
        BY <1>1, <3>1 DEF Statuses
    <2> QED
      BY <2>1, <2>2, Zenon
  <1>3. db.task \in [Tasks -> TaskStatuses]
    BY InvParts, RowParts
  <1>4. /\ row \in RunRows /\ row.task = db.task /\ row.status = aside[r].status
        /\ row.attempts = aside[r].attempts /\ row.drafts = aside[r].drafts
    BY <1>2, <1>3 DEF RunRows
  <1>5. TurnTo(r, row)
    BY <1>1
  <1> HIDE DEF row
  <1>6. \A t \in Tasks : aside[r].attempts[t] > 0 \/ aside[r].drafts[t] > 0
                         => deps[t] \subseteq Finished(db.task)
    BY <1>1 DEF LoopInv, AsideInv
  <1>7. row.status = "BLOCKED" => Wall(row)
    BY <1>1, <1>4 DEF LoopInv, AsideInv, Wall
  <1>8. WorkFits(row)
    <2>1. WorkFits(db)
      BY InvParts
    <2> QED
      BY <1>4, <1>6, <2>1 DEF WorkFits
  <1>9. Off
    BY DEF Switch
  <1>10. LoopInv' /\ WorkStays
    BY <1>1, <1>4, <1>5, <1>7, <1>8, <1>9, TurnStep
  <1>11. Turns
    <2>1. /\ run' = r /\ db'.status = aside[r].status
          /\ aside' = [aside EXCEPT ![run] = SetAside(db), ![r] = StatusOnly("NONE")]
      BY <1>4, <1>5 DEF TurnTo, Commit
    <2> QED
      BY <1>1, <2>1 DEF Turns
  <1> QED
    BY <1>10, <1>11 DEF Outcome, StatusMoves

-----------------------------------------------------------------------------
(* Every step.                                                             *)

LEMMA DecideStep ==
  ASSUME LoopInv, Decide
  PROVE  Outcome
  <1>1. work.pc = "deciding" /\ ~Off
    BY DEF Decide, Off, Deciding, StepFails, BudgetSpent, BudgetEscapes, RunToolsSpent,
           StepToolsSpent, CallTool, CallSandbox, DraftByExecutor, DraftByTool,
           AskStudent, AskByTool, MarkBlocked, CompleteTask, Review, PauseRun
  <1>2. SameRow(txn) /\ SameRow(Called(txn)) /\ SameRow(Succeeded(txn)) /\ txn \in RunRows
    BY CountedRows DEF SameRow
  <1>3. ASSUME StepFails \/ StepToolsSpent PROVE Outcome
    BY <1>1, <1>2, <1>3, FailureStep DEF StepFails, StepToolsSpent
  <1>4. ASSUME BudgetSpent \/ RunToolsSpent PROVE Outcome
    <2>1. Return([txn EXCEPT !.status = "FAILED"])
      BY <1>4 DEF BudgetSpent, RunToolsSpent, FailRun
    <2> QED
      BY <1>1, <1>2, <2>1, StopStep
  <1>5. CASE BudgetEscapes
    BY <1>1, <1>5, LostStep DEF BudgetEscapes
  <1>6. ASSUME CallTool \/ CallSandbox PROVE Outcome
    BY <1>1, <1>6, CallStep DEF CallTool, CallSandbox
  <1>7. ASSUME DraftByExecutor \/ DraftByTool PROVE Outcome
    BY <1>1, <1>2, <1>7, DraftStep DEF DraftByExecutor, DraftByTool
  <1>8. ASSUME AskStudent \/ AskByTool PROVE Outcome
    <2>1. PICK row \in {txn, Called(txn)} : Return([row EXCEPT !.status = "WAITING_FOR_USER"])
      BY <1>8 DEF AskStudent, AskByTool, Ask
    <2>2. SameRow(row)
      BY <1>2
    <2> QED
      BY <1>1, <2>1, <2>2, StopStep
  <1>9. CASE MarkBlocked
    BY <1>1, <1>2, <1>9, BlockStep DEF MarkBlocked
  <1>10. CASE CompleteTask
    BY <1>10, CompleteStep
  <1>11. CASE Review
    BY <1>1, <1>2, <1>11, SameAdvances DEF Review
  <1>12. CASE PauseRun
    <2>1. Return([txn EXCEPT !.status = "PAUSED"])
      BY <1>12 DEF PauseRun
    <2> QED
      BY <1>1, <1>2, <2>1, StopStep
  <1> QED
    BY <1>3, <1>4, <1>5, <1>6, <1>7, <1>8, <1>9, <1>10, <1>11, <1>12 DEF Decide

LEMMA WorkStep ==
  ASSUME LoopInv, Work
  PROVE  Outcome
  <1>1. SameRow(txn)
    BY CountedRows
  <1>2. CASE IterationsSpent
    <2>1. ~Off /\ Return([txn EXCEPT !.status = "FAILED"])
      BY <1>2 DEF IterationsSpent, AtHead, Off, FailRun
    <2> QED
      BY <1>1, <2>1, StopStep
  <1>3. CASE StepLimit
    <2>1. ~Off /\ Return([txn EXCEPT !.status = "PAUSED"])
      BY <1>3 DEF StepLimit, Off
    <2> QED
      BY <1>1, <2>1, StopStep
  <1> QED
    BY <1>2, <1>3, ClaimStep, FinishStep, OpensStep, DecideStep DEF Work

LEMMA RequestStep ==
  ASSUME LoopInv, Student \/ Sweep
  PROVE  Outcome
  <1>1. CASE Start
    BY <1>1, EnterStep, Moving DEF Start, RecoverableStatuses
  <1>2. ASSUME Resume \/ Answer PROVE Outcome
    <2>1. Off /\ Enter("RUNNING") /\ db.status \in ResumableStatuses
      BY <1>2 DEF Resume, Answer, ResumableStatuses
    <2>2. CanMove(db.status, "RUNNING") /\ "RUNNING" \in RecoverableStatuses
      BY <2>1, Moving DEF RecoverableStatuses
    <2> QED
      BY <2>1, <2>2, EnterStep
  <1>3. ASSUME Pause \/ Cancel \/ Expire \/ Recover PROVE Outcome
    BY <1>3, SetStatusStep DEF Pause, Cancel, Expire, Recover
  <1> QED
    BY <1>1, <1>2, <1>3, NewRunStep, SwitchStep DEF Student, Sweep

LEMMA NextOutcome ==
  ASSUME LoopInv, [Next]_vars
  PROVE  Outcome
  <1>1. CASE UNCHANGED vars
    <2>1. LoopInv'
      BY <1>1 DEF vars, LoopInv, TypeOK, Acyclic, WorkFits, Runnable, Finished, KeptWork,
                  WorkerInv, Off, Wall, AsideInv
    <2>2. db' = db /\ run' = run /\ aside' = aside
      BY <1>1 DEF vars
    <2>3. StatusMoves
      BY <2>2 DEF StatusMoves, InHandMoves
    <2>4. KeptWork(db, db)
      BY InvParts, KeptItself
    <2>5. WorkStays
      BY <2>2, <2>4 DEF WorkStays, KeptWork
    <2> QED
      BY <2>1, <2>3, <2>5 DEF Outcome
  <1>2. CASE Crash
    BY <1>2, LostStep DEF Crash
  <1> QED
    BY <1>1, <1>2, WorkStep, RequestStep DEF Next

LEMMA InitLoopInv == Init => LoopInv
  <1> SUFFICES ASSUME Init PROVE LoopInv
    OBVIOUS
  <1> DEFINE none == [t \in Tasks |-> "PENDING"]
  <1>1. /\ db \in RunRows /\ db.task = none /\ db.status = "CREATED"
        /\ \A t \in Tasks : db.attempts[t] = 0 /\ db.drafts[t] = 0 /\ db.task[t] = "PENDING"
    <2>1. none \in [Tasks -> TaskStatuses]
      BY DEF TaskStatuses
    <2>2. db = FreshRun(none)
      BY DEF Init, NoTask
    <2>3. \A t \in Tasks : none[t] = "PENDING"
      OBVIOUS
    <2> HIDE DEF none
    <2> QED
      BY <2>1, <2>2, <2>3, Limits DEF FreshRun, RunRows, Statuses
  <1>2. /\ txn = db /\ work = NoWork /\ ending = "none" /\ run = 1
        /\ aside = [r \in Runs |-> StatusOnly("NONE")]
        /\ deps \in [Tasks -> SUBSET Tasks] /\ Acyclic(deps)
    BY DEF Init
  <1>3. TypeOK
    <2>1. NoWork \in [pc : {"off", "head", "claimed", "deciding"}, node : Tasks \cup {0},
                      seen : TaskStatuses, steps : 0..MaxIterations, tools : 0..MaxStepTools]
      BY Limits DEF NoWork, TaskStatuses
    <2>2. 1 \in Runs
      BY AgentLoopAssumption DEF AgentLoopAssumption, Runs
    <2>3. aside \in [Runs -> RunRows \cup {StatusOnly(s) : s \in TerminalStatuses \cup {"NONE"}}]
      BY <1>2
    <2> QED
      BY <1>1, <1>2, <2>1, <2>2, <2>3 DEF TypeOK
  <1>4. WorkFits(db) /\ WorkFits(txn)
    BY <1>1, <1>2 DEF WorkFits
  <1>5. KeptWork(db, txn)
    BY <1>1, <1>2, KeptItself
  <1>6. WorkerInv
    BY <1>1, <1>2 DEF WorkerInv, Off, NoWork, RecoverableStatuses
  <1>7. AsideInv
    <2>1. \A r \in Runs : aside[r].status = "NONE"
      BY <1>2 DEF StatusOnly
    <2> QED
      BY <2>1 DEF AsideInv, Statuses
  <1> QED
    BY <1>2, <1>3, <1>4, <1>5, <1>6, <1>7 DEF LoopInv

LEMMA LoopInvHolds == Spec => []LoopInv
  <1>1. LoopInv /\ [Next]_vars => LoopInv'
    BY NextOutcome DEF Outcome
  <1> QED
    BY <1>1, InitLoopInv, PTL DEF Spec

-----------------------------------------------------------------------------
(* The theorems.                                                           *)

\* Whatever retries, blocks, questions, crashes and further runs come in between, no
\* work is done on a task before every predecessor is completed (WorkFitsPlan).
THEOREM PlanOrderIsKept == Spec => []WorkFitsPlan
  <1>1. LoopInv => WorkFitsPlan
    <2> SUFFICES ASSUME LoopInv PROVE WorkFitsPlan
      OBVIOUS
    <2>1. TypeOK /\ WorkFits(db) /\ WorkFits(txn)
      BY DEF LoopInv
    <2> QED
      BY <2>1 DEF WorkFitsPlan, PredecessorsFirst, WorkFits
  <1> QED
    BY <1>1, LoopInvHolds, PTL

\* A decision falls on the task the loop would select, whichever task it names, and
\* the runtime completes no submission (DecisionsFallWhereTheyMay).
THEOREM DecisionsFallRight == Spec => []DecisionsFallWhereTheyMay
  <1>1. LoopInv => DecisionsFallWhereTheyMay
    <2> SUFFICES ASSUME LoopInv PROVE DecisionsFallWhereTheyMay
      OBVIOUS
    <2>1. WorkFits(db) /\ WorkFits(txn)
      BY DEF LoopInv
    <2>2. ASSUME NEW row \in {db, txn}, NEW t \in Tasks, row.task[t] = "IN_PROGRESS"
          PROVE  t \in Runnable(row.task) /\ t = Selected(row.task)
      <3>1. WorkFits(row)
        BY <2>1
      <3> QED
        BY <2>2, <3>1, InHand
    <2>3. SubmitIsTheStudents
      BY <2>1, AgentLoopAssumption DEF AgentLoopAssumption, WorkFits, SubmitIsTheStudents
    <2> QED
      BY <2>2, <2>3, Zenon DEF DecisionsFallWhereTheyMay, TaskInHandIsSelected
  <1> QED
    BY <1>1, LoopInvHolds, PTL

\* The committed status tells who works on the run, whenever the worker dies, and a
\* blocked run has a blocked task to show for it (StatusTellsWhoWorks).
THEOREM StatusIsTrue == Spec => []StatusTellsWhoWorks
  <1>1. LoopInv => StatusTellsWhoWorks
    <2> SUFFICES ASSUME LoopInv PROVE StatusTellsWhoWorks
      OBVIOUS
    <2>1. WorkerInv
      BY DEF LoopInv
    <2>2. ASSUME db.status = "BLOCKED" PROVE ~WallGone
      BY <2>1, <2>2 DEF WorkerInv, Wall, WallGone, RecoverableStatuses
    <2> QED
      BY <2>1, <2>2 DEF WorkerInv, StatusTellsWhoWorks, BlockedRunHasWall,
                        WorkedRunIsRecoverable, LoopSaysItStopped
  <1> QED
    BY <1>1, LoopInvHolds, PTL

\* No resume, crash or further run loses a completed task, and only the next run
\* starts without the drafts of this one (WorkIsKept).
THEOREM WorkIsNeverRedone == Spec => WorkIsKept
  <1>1. LoopInv /\ [Next]_vars
        => [\A t \in Tasks :
              /\ db.task[t] = "COMPLETED" => db'.task[t] = "COMPLETED"
              /\ run' = run => db'.drafts[t] >= db.drafts[t]]_vars
    BY NextOutcome DEF Outcome, WorkStays
  <1> QED
    BY <1>1, LoopInvHolds, PTL DEF Spec, WorkIsKept

\* The runs of an assignment implement the abstract lifecycle: each moves along the
\* transition table only, whichever run the requests turn to, and one is created only
\* while none is active (FollowsLifecycle).
THEOREM ImplementsLifecycle == Spec => FollowsLifecycle
  <1> DEFINE bar == [r \in Runs |-> IF r = run THEN db.status ELSE aside[r].status]
  <1>1. Init => LC!Init
    <2> SUFFICES ASSUME Init PROVE LC!Init
      OBVIOUS
    <2>1. run = 1 /\ db.status = "CREATED" /\ 1 \in Runs
      BY AgentLoopAssumption DEF Init, FreshRun, AgentLoopAssumption, Runs
    <2>2. \A r \in Runs : aside[r].status = "NONE"
      BY DEF Init, StatusOnly
    <2>3. bar = [s \in Runs |-> IF s = 1 THEN "CREATED" ELSE "NONE"]
      BY <2>1, <2>2
    <2> QED
      BY <2>1, <2>3 DEF LC!Init
  <1>2. LoopInv /\ [Next]_vars => [LC!Next]_bar
    <2> SUFFICES ASSUME LoopInv, [Next]_vars PROVE [LC!Next]_bar
      OBVIOUS
    <2>1. StatusMoves /\ LoopInv'
      BY NextOutcome DEF Outcome
    <2>2. db.status \in Statuses /\ db'.status \in Statuses /\ run \in Runs
      BY <2>1 DEF LoopInv, TypeOK, RunRows
    <2>3. bar' = [r \in Runs |-> IF r = run' THEN db'.status ELSE aside'[r].status]
      OBVIOUS
    <2>4. bar = [r \in Runs |-> IF r = run THEN db.status ELSE aside[r].status]
      OBVIOUS
    <2>5. LC!Statuses = Statuses /\ LC!ActiveStatuses = ActiveStatuses
          /\ (CanMove(db.status, db'.status) => LC!CanMove(db.status, db'.status))
      BY <2>2 DEF LC!CanMove, LC!Transitions, LC!Statuses, CanMove, Transitions, Statuses,
                  LC!ActiveStatuses, ActiveStatuses
    <2> HIDE DEF bar
    <2>6. CASE InHandMoves
      <3>1. bar' = [bar EXCEPT ![run] = db'.status] /\ bar[run] = db.status
        BY <2>2, <2>3, <2>4, <2>6 DEF InHandMoves
      <3>2. CASE db'.status = db.status
        <4>1. bar' = bar
          BY <2>3, <2>4, <2>6, <3>2 DEF InHandMoves
        <4> QED
          BY <4>1
      <3>3. CASE CanMove(db.status, db'.status)
        <4>1. LC!Move(run, db'.status)
          BY <2>2, <2>5, <3>1, <3>3 DEF LC!Move, bar
        <4>2. db'.status \in LC!Statuses
          BY <2>2, <2>5
        <4>3. \E target \in LC!Statuses : LC!Move(run, target)
          BY <4>1, <4>2 DEF LC!Move
        <4> QED
          BY <2>2, <4>3 DEF LC!Next
      <3> QED
        BY <2>6, <3>2, <3>3 DEF InHandMoves
    <2>7. CASE Turns
      <3>1. PICK r \in Runs \ {run} :
               /\ run' = r
               /\ aside' = [aside EXCEPT ![run] = SetAside(db), ![r] = StatusOnly("NONE")]
               /\ \/ db'.status = aside[r].status
                  \/ aside[r].status = "NONE" /\ NoneActive /\ db'.status = "CREATED"
        BY <2>7 DEF Turns
      <3>2. SetAside(db).status = db.status
        BY InvParts DEF SetAside, StatusOnly, RunRows
      <3>3. \A q \in Runs \ {r} : aside'[q].status = IF q = run THEN db.status ELSE aside[q].status
        BY <3>1, <3>2, InvParts
      <3>4. bar' = [bar EXCEPT ![r] = db'.status] /\ bar[r] = aside[r].status
        BY <2>2, <2>3, <2>4, <3>1, <3>3
      <3>5. CASE db'.status = aside[r].status
        <4>1. bar' = bar
          BY <2>4, <3>4, <3>5
        <4> QED
          BY <4>1
      <3>6. CASE aside[r].status = "NONE" /\ NoneActive /\ db'.status = "CREATED"
        <4>1. \A s \in Runs : bar[s] \notin ActiveStatuses
          BY <2>4, <3>6 DEF NoneActive
        <4>2. LC!Create(r)
          BY <2>5, <3>4, <3>6, <4>1 DEF LC!Create, bar
        <4> QED
          BY <4>2 DEF LC!Next
      <3> QED
        BY <3>1, <3>5, <3>6
    <2> QED
      BY <2>1, <2>6, <2>7 DEF StatusMoves
  <1> QED
    BY <1>1, <1>2, LoopInvHolds, PTL DEF Spec, FollowsLifecycle, LC!Spec
=============================================================================
