------------------------ MODULE ExecutionQueueProofs ------------------------
(***************************************************************************)
(* Proofs about ExecutionQueue for any number of jobs, workers and         *)
(* requests: its type invariant, that a job is claimed at most once each   *)
(* time it is queued, that a job that has ended is accounted for, and that *)
(* an undisturbed job runs in one session at a time, recovers and stays    *)
(* ended.                                                                  *)
(***************************************************************************)
EXTENDS ExecutionQueue, FiniteSetTheorems, TLAPS

Pcs == {"idle", "done", "cancelling", "picked", "sweeping"} \cup Holding

HasRead == {"loaded", "begun", "running", "collected", "cancelling"}

Views == UNION {[D -> Row] : D \in SUBSET Jobs}

SessionRec == [pc : Pcs, job : SUBSET Jobs, view : Views, number : Nat,
               result : Results \cup {"none"}]

\* A session is on one job at most, has read it where TypeOK says so, and has a
\* result once it has collected one.
GoodSession(r) ==
    /\ r \in SessionRec
    /\ r.job \in {{}} \cup {{j} : j \in Jobs}
    /\ r.pc \in HasRead => r.job # {} /\ r.job = DOMAIN r.view
    /\ r.pc = "collected" => r.result \in Results

Attempts == Nat \X (Results \cup Duds)

TypeInv ==
    /\ rows \in [Jobs -> Row]
    /\ ledger \in [Jobs -> SUBSET Attempts]
    /\ queued \in [Jobs -> Nat]
    /\ disturbed \in [Jobs -> BOOLEAN]
    /\ sess \in [Sessions -> SessionRec]
    /\ \A s \in Sessions : GoodSession(sess[s])

-----------------------------------------------------------------------------
(* Rows.                                                                   *)

LEMMA NoRowType == NoRow \in Row
  BY ExecutionQueueAssumption DEF ExecutionQueueAssumption, NoRow, Row, Statuses, Cleanups

\* What the ORM's UPDATE leaves is a row again, column by column.
LEMMA FlushType ==
  ASSUME NEW row \in Row, NEW view \in Row, NEW new \in Row
  PROVE  /\ Flush(row, view, new) \in Row
         /\ \A c \in {"status", "attempts", "lease", "cleanup", "lock"} :
               Flush(row, view, new)[c] = IF new[c] = view[c] THEN row[c] ELSE new[c]
  <1> DEFINE f == Flush(row, view, new)
  <1>1. DOMAIN row = {"status", "attempts", "lease", "cleanup", "lock"}
    BY DEF Row
  <1>2. f = [status |-> f.status, attempts |-> f.attempts, lease |-> f.lease,
             cleanup |-> f.cleanup, lock |-> f.lock]
    BY <1>1 DEF Flush
  <1>3. f.status \in Statuses /\ f.attempts \in Nat /\ f.lease \in BOOLEAN
        /\ f.cleanup \in Cleanups /\ f.lock \in 0..MaxClaims
    BY <1>1 DEF Flush, Row
  <1>4. \A c \in DOMAIN row : f[c] = IF new[c] = view[c] THEN row[c] ELSE new[c]
    BY DEF Flush
  <1> HIDE DEF f
  <1>5. f \in Row
    BY <1>2, <1>3 DEF Row
  <1>6. QED
    BY <1>1, <1>4, <1>5 DEF f

\* The new values the handlers compute from a row are rows.
LEMMA RowValues ==
  ASSUME NEW row \in Row
  PROVE  /\ \A status \in Statuses : [row EXCEPT !.status = status] \in Row
         /\ \A status \in Statuses, cleanup \in Cleanups :
               [row EXCEPT !.status = status, !.cleanup = cleanup] \in Row
         /\ \A status \in Statuses, lease \in BOOLEAN :
               [row EXCEPT !.status = status, !.lease = lease] \in Row
         /\ \A status \in Statuses, cleanup \in Cleanups, lease \in BOOLEAN :
               [row EXCEPT !.status = status, !.cleanup = cleanup, !.lease = lease] \in Row
         /\ \A lease \in BOOLEAN : [row EXCEPT !.lease = lease] \in Row
         /\ Skipped(row.cleanup) \in Cleanups
         /\ Started(row) \in Row
         /\ Reclaimed(row) \in Row
         /\ row.lock < MaxClaims => Claimed(row) \in Row
  <1>1. row.status \in Statuses /\ row.attempts \in Nat /\ row.lease \in BOOLEAN
        /\ row.cleanup \in Cleanups /\ row.lock \in 0..MaxClaims
    BY DEF Row
  <1>2. /\ \A status \in Statuses : [row EXCEPT !.status = status] \in Row
        /\ \A status \in Statuses, cleanup \in Cleanups :
               [row EXCEPT !.status = status, !.cleanup = cleanup] \in Row
        /\ \A status \in Statuses, lease \in BOOLEAN :
               [row EXCEPT !.status = status, !.lease = lease] \in Row
    BY DEF Row
  <1>3. /\ \A status \in Statuses, cleanup \in Cleanups, lease \in BOOLEAN :
               [row EXCEPT !.status = status, !.cleanup = cleanup, !.lease = lease] \in Row
        /\ \A lease \in BOOLEAN : [row EXCEPT !.lease = lease] \in Row
    BY DEF Row
  <1>4. Skipped(row.cleanup) \in Cleanups
    BY <1>1 DEF Skipped, Cleanups
  <1>5. {"QUEUED", "STARTING", "CANCELLED", "FAILED"} \subseteq Statuses
        /\ {"SKIPPED", "FAILED"} \subseteq Cleanups
    BY DEF Statuses, Active, Terminal, Cleanups
  <1>6. Started(row) \in Row
    <2>1. row.attempts + 1 \in Nat
      BY <1>1
    <2>2. \A n \in Nat : [row EXCEPT !.status = "STARTING", !.attempts = n, !.lease = TRUE] \in Row
      BY <1>5 DEF Row
    <2>3. QED
      BY <2>1, <2>2 DEF Started
  <1>7. Reclaimed(row) \in Row
    <2>1. /\ [row EXCEPT !.status = "CANCELLED", !.cleanup = "SKIPPED"] \in Row
          /\ [row EXCEPT !.status = "QUEUED", !.lease = FALSE] \in Row
          /\ [row EXCEPT !.status = "FAILED", !.cleanup = "FAILED"] \in Row
      BY <1>2, <1>5
    <2>2. QED
      BY <2>1 DEF Reclaimed
  <1>8. ASSUME row.lock < MaxClaims PROVE Claimed(row) \in Row
    <2>1. row.lock + 1 \in 0..MaxClaims
      BY <1>1, <1>8, ExecutionQueueAssumption DEF ExecutionQueueAssumption
    <2>2. QED
      BY <1>5, <2>1 DEF Claimed, Row
  <1>9. QED
    BY <1>2, <1>3, <1>4, <1>6, <1>7, <1>8

-----------------------------------------------------------------------------
(* Sessions.                                                               *)

LEMMA ViewOfOne ==
  ASSUME NEW j \in Jobs, NEW row \in Row
  PROVE  [i \in {j} |-> row] \in Views /\ DOMAIN [i \in {j} |-> row] = {j}
  <1>1. [i \in {j} |-> row] \in [{j} -> Row] /\ {j} \in SUBSET Jobs
    OBVIOUS
  <1>2. QED
    BY <1>1 DEF Views

LEMMA RestGood ==
  ASSUME NEW s \in Sessions
  PROVE  /\ GoodSession(Rest(s))
         /\ GoodSession([Rest(s) EXCEPT !.pc = "idle"])
         /\ Rest(s).pc \in {"idle", "done"} /\ Rest(s).job = {}
  <1>1. [j \in {} |-> NoRow] \in [{} -> Row]
    OBVIOUS
  <1>2. [j \in {} |-> NoRow] \in Views
    BY <1>1 DEF Views
  <1> DEFINE v == [j \in {} |-> NoRow]
             r(pc) == [pc |-> pc, job |-> {}, view |-> v, number |-> 0, result |-> "none"]
  <1>3. v \in Views
    BY <1>2
  <1>4. Rest(s) = r("idle") \/ Rest(s) = r("done")
    BY DEF Rest
  <1> HIDE DEF v
  <1>5. r("idle") \in SessionRec /\ r("done") \in SessionRec
    BY <1>3 DEF SessionRec, Pcs
  <1>6. GoodSession(r("idle")) /\ GoodSession(r("done"))
    BY <1>5 DEF GoodSession, HasRead
  <1>7. [r("done") EXCEPT !.pc = "idle"] = r("idle") /\ [r("idle") EXCEPT !.pc = "idle"] = r("idle")
    OBVIOUS
  <1>8. Rest(s).pc \in {"idle", "done"} /\ Rest(s).job = {}
    BY <1>4
  <1> HIDE DEF r
  <1>9. QED
    BY <1>4, <1>6, <1>7, <1>8

\* A session that reads a row goes on to a state in which it is on that job.
LEMMA KeptGood ==
  ASSUME NEW r, GoodSession(r), NEW j \in Jobs, NEW v \in Views, DOMAIN v = {j}
  PROVE  /\ \A pc \in Pcs \ {"collected"} :
               GoodSession([r EXCEPT !.pc = pc, !.job = {j}, !.view = v])
         /\ r.job = {j} => \A n \in Nat :
               GoodSession([r EXCEPT !.pc = "begun", !.view = v, !.number = n])
         /\ r.job = {j} => \A res \in Results :
               GoodSession([r EXCEPT !.pc = "collected", !.view = v, !.result = res])
  BY DEF GoodSession, SessionRec, Pcs, Holding

LEMMA ClaimingGood ==
  ASSUME NEW r, GoodSession(r)
  PROVE  /\ \A j \in Jobs : GoodSession([r EXCEPT !.pc = "picked", !.job = {j}])
         /\ GoodSession([r EXCEPT !.pc = "claimed"])
         /\ \A v \in Views : GoodSession([r EXCEPT !.pc = "sweeping", !.view = v])
  BY DEF GoodSession, SessionRec, Pcs, Holding, HasRead

\* The job a session is on is the one it has read.
LEMMA ReadJob ==
  ASSUME TypeInv, NEW s \in Sessions, NEW j \in Jobs, On(s, j), sess[s].pc \in HasRead
  PROVE  View(s, j) \in Row
  <1>1. GoodSession(sess[s])
    BY DEF TypeInv
  <1>2. DOMAIN sess[s].view = {j} /\ sess[s].view \in Views
    BY <1>1 DEF GoodSession, SessionRec, On
  <1>3. QED
    BY <1>2 DEF Views, View

LEMMA AssembleType ==
  ASSUME TypeInv, NEW s \in Sessions, NEW r, GoodSession(r), sess' = [sess EXCEPT ![s] = r],
         rows' \in [Jobs -> Row], ledger' \in [Jobs -> SUBSET Attempts],
         queued' \in [Jobs -> Nat], disturbed' \in [Jobs -> BOOLEAN]
  PROVE  TypeInv'
  <1>1. r \in SessionRec
    BY DEF GoodSession
  <1>2. sess' \in [Sessions -> SessionRec]
    BY <1>1 DEF TypeInv
  <1>3. \A t \in Sessions : sess'[t] = IF t = s THEN r ELSE sess[t]
    BY DEF TypeInv
  <1>4. \A t \in Sessions : GoodSession(sess[t])
    BY DEF TypeInv
  <1>5. \A t \in Sessions : GoodSession(sess'[t])
    BY <1>3, <1>4
  <1>6. QED
    BY <1>2, <1>5 DEF TypeInv

LEMMA EndType ==
  ASSUME TypeInv, NEW s \in Sessions, End(s),
         rows' \in [Jobs -> Row], ledger' \in [Jobs -> SUBSET Attempts],
         queued' \in [Jobs -> Nat], disturbed' \in [Jobs -> BOOLEAN]
  PROVE  TypeInv'
  BY RestGood, AssembleType DEF End

LEMMA KeepType ==
  ASSUME TypeInv, NEW s \in Sessions, NEW pc \in Pcs \ {"collected"}, NEW j \in Jobs,
         NEW row \in Row, Keep(s, pc, j, row),
         rows' \in [Jobs -> Row], ledger' \in [Jobs -> SUBSET Attempts],
         queued' \in [Jobs -> Nat], disturbed' \in [Jobs -> BOOLEAN]
  PROVE  TypeInv'
  <1> DEFINE v == [i \in {j} |-> row]
             r == [sess[s] EXCEPT !.pc = pc, !.job = {j}, !.view = v]
  <1>1. sess' = [sess EXCEPT ![s] = r]
    BY DEF Keep
  <1>2. v \in Views /\ DOMAIN v = {j}
    BY ViewOfOne
  <1> HIDE DEF v
  <1>3. GoodSession(sess[s])
    BY DEF TypeInv
  <1>4. GoodSession(r)
    BY <1>2, <1>3, KeptGood
  <1> HIDE DEF r
  <1>5. QED
    BY <1>1, <1>4, AssembleType

LEMMA Parts ==
  ASSUME TypeInv
  PROVE  /\ rows \in [Jobs -> Row] /\ ledger \in [Jobs -> SUBSET Attempts]
         /\ queued \in [Jobs -> Nat] /\ disturbed \in [Jobs -> BOOLEAN]
         /\ sess \in [Sessions -> SessionRec]
         /\ \A s \in Sessions : GoodSession(sess[s])
  BY DEF TypeInv

LEMMA CommitType ==
  ASSUME TypeInv, NEW s \in Sessions, NEW j \in Jobs, View(s, j) \in Row, NEW new \in Row,
         Commit(s, j, new) \/ CommitLeased(s, j, new)
  PROVE  rows' \in [Jobs -> Row] /\ disturbed' \in [Jobs -> BOOLEAN]
  <1>1. rows[j] \in Row
    BY Parts
  <1> DEFINE f == Flush(rows[j], View(s, j), new)
  <1>2. f \in Row /\ [f EXCEPT !.lease = TRUE] \in Row
    BY <1>1, FlushType, RowValues
  <1>3. rows' = [rows EXCEPT ![j] = f] \/ rows' = [rows EXCEPT ![j] = [f EXCEPT !.lease = TRUE]]
    BY DEF Commit, CommitLeased
  <1> HIDE DEF f
  <1>4. rows' \in [Jobs -> Row]
    BY <1>2, <1>3, Parts
  <1> DEFINE b == disturbed[j] \/ rows[j] # View(s, j)
  <1>5. disturbed' = [disturbed EXCEPT ![j] = b]
    BY DEF Commit, CommitLeased
  <1>6. b \in BOOLEAN
    OBVIOUS
  <1> HIDE DEF b
  <1>7. disturbed' \in [Jobs -> BOOLEAN]
    BY <1>5, <1>6, Parts
  <1>8. QED
    BY <1>4, <1>7

-----------------------------------------------------------------------------
(* The type invariant, one step at a time.                                 *)

LEMMA SubmitTypes ==
  ASSUME TypeInv, NEW c \in Clients, NEW j \in Jobs,
         SubmitQueued(c, j) \/ SubmitInline(c, j) \/ SubmitAgain(c, j)
  PROVE  TypeInv'
  <1>0. c \in Sessions /\ rows[j] \in Row
    BY Parts DEF Sessions
  <1>1. CASE SubmitQueued(c, j)
    <2>1. [rows[j] EXCEPT !.status = "QUEUED"] \in Row
      BY <1>0, RowValues DEF Statuses
    <2>2. rows' \in [Jobs -> Row]
      BY <1>1, <2>1, Parts DEF SubmitQueued
    <2>3. queued' \in [Jobs -> Nat]
      BY <1>1, Parts DEF SubmitQueued
    <2>4. QED
      BY <1>0, <1>1, <2>2, <2>3, Parts, EndType DEF SubmitQueued
  <1>2. CASE SubmitInline(c, j)
    <2>1. [rows[j] EXCEPT !.status = "CREATED"] \in Row
      BY <1>0, RowValues DEF Statuses
    <2>2. rows' \in [Jobs -> Row] /\ rows'[j] \in Row
      BY <1>2, <2>1, Parts DEF SubmitInline
    <2>3. QED
      BY <1>0, <1>2, <2>2, Parts, KeepType DEF SubmitInline, Pcs, Holding
  <1>3. CASE SubmitAgain(c, j)
    <2>1. disturbed' \in [Jobs -> BOOLEAN]
      BY <1>3, Parts DEF SubmitAgain
    <2>2. QED
      BY <1>0, <1>3, <2>1, Parts, KeepType DEF SubmitAgain, Pcs, Holding
  <1>4. QED
    BY <1>1, <1>2, <1>3

LEMMA CancelTypes ==
  ASSUME TypeInv, NEW c \in Clients, NEW j \in Jobs, CancelLoad(c, j) \/ CancelWrite(c, j)
  PROVE  TypeInv'
  <1>0. c \in Sessions /\ rows[j] \in Row
    BY Parts DEF Sessions
  <1>1. CASE CancelLoad(c, j)
    BY <1>0, <1>1, Parts, KeepType DEF CancelLoad, Pcs
  <1>2. CASE CancelWrite(c, j)
    <2>1. View(c, j) \in Row
      BY <1>0, <1>2, ReadJob DEF CancelWrite, At, HasRead
    <2> DEFINE v == View(c, j)
               new == IF v.status \in {"QUEUED", "CREATED"}
                      THEN [v EXCEPT !.status = "CANCELLED", !.cleanup = Skipped(v.cleanup)]
                      ELSE [v EXCEPT !.status = "CANCEL_REQUESTED"]
    <2>2. {"CANCELLED", "CANCEL_REQUESTED"} \subseteq Statuses
      BY DEF Statuses, Terminal
    <2>3. new \in Row
      BY <2>1, <2>2, RowValues
    <2>4. Commit(c, j, new) /\ End(c) /\ UNCHANGED <<ledger, queued>>
      BY <1>2 DEF CancelWrite
    <2> HIDE DEF v, new
    <2>5. QED
      BY <1>0, <2>1, <2>3, <2>4, CommitType, Parts, EndType
  <1>3. QED
    BY <1>1, <1>2

LEMMA ClaimTypes ==
  ASSUME TypeInv, NEW w \in Workers, NEW j \in Jobs,
         ClaimSelect(w, j) \/ ClaimUpdate(w, j) \/ ClaimRefresh(w, j)
  PROVE  TypeInv'
  <1>0. w \in Sessions /\ rows[j] \in Row /\ GoodSession(sess[w])
        /\ sess \in [Sessions -> SessionRec]
    BY Parts DEF Sessions
  <1>1. CASE ClaimSelect(w, j)
    <2> DEFINE r == [sess[w] EXCEPT !.pc = "picked", !.job = {j}]
    <2>1. GoodSession(r)
      BY <1>0, ClaimingGood
    <2>2. sess' = [sess EXCEPT ![w] = r]
      BY <1>0, <1>1 DEF ClaimSelect
    <2> HIDE DEF r
    <2>3. QED
      BY <1>0, <1>1, <2>1, <2>2, Parts, AssembleType DEF ClaimSelect
  <1>2. CASE ClaimUpdate(w, j)
    <2> DEFINE r == [sess[w] EXCEPT !.pc = "claimed"]
    <2>1. GoodSession(r)
      BY <1>0, ClaimingGood
    <2>2. sess' = [sess EXCEPT ![w] = r]
      BY <1>0, <1>2 DEF ClaimUpdate
    <2>3. Claimed(rows[j]) \in Row
      BY <1>0, <1>2, RowValues DEF ClaimUpdate
    <2>4. rows' \in [Jobs -> Row]
      BY <1>2, <2>3, Parts DEF ClaimUpdate
    <2> HIDE DEF r
    <2>5. QED
      BY <1>0, <1>2, <2>1, <2>2, <2>4, Parts, AssembleType DEF ClaimUpdate
  <1>3. CASE ClaimRefresh(w, j)
    BY <1>0, <1>3, Parts, KeepType DEF ClaimRefresh, Pcs, Holding
  <1>4. QED
    BY <1>1, <1>2, <1>3

\* What ends without writing anything.
LEMMA QuietTypes ==
  ASSUME TypeInv, NEW s \in Sessions, End(s), UNCHANGED <<rows, ledger, queued, disturbed>>
  PROVE  TypeInv'
  BY Parts, EndType

LEMMA RecordType ==
  ASSUME TypeInv, NEW s \in Sessions, NEW j \in Jobs, NEW r \in Results \cup Duds, Record(s, j, r)
  PROVE  ledger' \in [Jobs -> SUBSET Attempts]
  <1>1. sess[s].number \in Nat
    BY Parts DEF GoodSession, SessionRec
  <1>2. <<sess[s].number, r>> \in Attempts
    BY <1>1 DEF Attempts
  <1>3. ledger' = [ledger EXCEPT ![j] = ledger[j] \cup {<<sess[s].number, r>>}]
    BY DEF Record
  <1>4. ledger[j] \cup {<<sess[s].number, r>>} \in SUBSET Attempts
    BY <1>2, Parts
  <1>5. QED
    BY <1>3, <1>4, Parts

LEMMA EndingExecutionTypes ==
  ASSUME TypeInv, NEW s \in Sessions, NEW j \in Jobs,
         \/ ExecuteCancel(s, j) \/ Reject(s, j) \/ Finalise(s, j)
         \/ \E r \in Duds : CollectBare(s, j, r)
  PROVE  TypeInv'
  <1> DEFINE v == View(s, j)
  <1>0. {"CANCELLED", "REJECTED"} \cup Results \cup Duds \subseteq Statuses
        /\ "SKIPPED" \in Cleanups
    BY ExecutionQueueAssumption DEF ExecutionQueueAssumption, Statuses, Terminal, Cleanups
  <1>1. v \in Row
    BY ReadJob DEF ExecuteCancel, Reject, Finalise, CollectBare, At, HasRead
  <1>2. ASSUME NEW new \in Row, Commit(s, j, new), End(s), UNCHANGED queued,
               ledger' \in [Jobs -> SUBSET Attempts]
        PROVE  TypeInv'
    BY <1>1, <1>2, CommitType, Parts, EndType
  <1>3. CASE ExecuteCancel(s, j)
    <2>1. [v EXCEPT !.status = "CANCELLED", !.cleanup = Skipped(v.cleanup)] \in Row
      BY <1>0, <1>1, RowValues
    <2>2. Commit(s, j, [v EXCEPT !.status = "CANCELLED", !.cleanup = Skipped(v.cleanup)])
      BY <1>3 DEF ExecuteCancel
    <2>3. QED
      BY <1>2, <1>3, <2>1, <2>2, Parts DEF ExecuteCancel
  <1>4. CASE Reject(s, j)
    <2>1. [v EXCEPT !.status = "REJECTED", !.cleanup = "SKIPPED"] \in Row
      BY <1>0, <1>1, RowValues
    <2>2. QED
      BY <1>2, <1>4, <2>1, Parts DEF Reject
  <1>5. CASE Finalise(s, j)
    <2>1. sess[s].result \in Results
      BY <1>5, Parts DEF GoodSession, Finalise, At
    <2>2. [v EXCEPT !.status = sess[s].result, !.lease = FALSE] \in Row
      BY <1>0, <1>1, <2>1, RowValues
    <2>3. QED
      BY <1>2, <1>5, <2>2, Parts DEF Finalise
  <1>6. ASSUME NEW r \in Duds, CollectBare(s, j, r) PROVE TypeInv'
    <2>1. [v EXCEPT !.status = r, !.cleanup = "SKIPPED", !.lease = FALSE] \in Row
      BY <1>0, <1>1, RowValues
    <2>2. ledger' \in [Jobs -> SUBSET Attempts]
      BY <1>6, RecordType DEF CollectBare
    <2>3. QED
      BY <1>2, <1>6, <2>1, <2>2 DEF CollectBare
  <1>7. QED
    BY <1>3, <1>4, <1>5, <1>6

LEMMA ContinuingExecutionTypes ==
  ASSUME TypeInv, NEW s \in Sessions, NEW j \in Jobs,
         \/ Begin(s, j) \/ Launch(s, j)
         \/ \E r \in Results, reaped \in Reaps : Collect(s, j, r, reaped)
  PROVE  TypeInv'
  <1>0. {"RUNNING", "COLLECTING_RESULTS"} \subseteq Statuses /\ {"CLEANED", "FAILED"} \subseteq Cleanups
    BY DEF Statuses, Active, Cleanups
  <1>1. View(s, j) \in Row /\ sess[s].job = {j} /\ GoodSession(sess[s])
    BY ReadJob, Parts DEF Begin, Launch, Collect, At, On, HasRead
  <1>2. CASE Begin(s, j)
    <2> DEFINE new == Started(View(s, j))
               v == [i \in {j} |-> new]
               r == [sess[s] EXCEPT !.pc = "begun", !.view = v, !.number = new.attempts]
    <2>1. new \in Row
      BY <1>1, RowValues
    <2>2. new.attempts \in Nat
      BY <2>1 DEF Row
    <2>3. CommitLeased(s, j, new) /\ UNCHANGED <<ledger, queued>>
      BY <1>2 DEF Begin
    <2>4. sess' = [sess EXCEPT ![s].pc = "begun", ![s].view = v, ![s].number = new.attempts]
      BY <1>2 DEF Begin
    <2> HIDE DEF new
    <2>5. v \in Views /\ DOMAIN v = {j}
      BY <2>1, ViewOfOne
    <2> HIDE DEF v
    <2>6. sess' = [sess EXCEPT ![s] = r]
      BY <2>4, Parts
    <2>7. GoodSession(r)
      BY <1>1, <2>2, <2>5, KeptGood
    <2> HIDE DEF r
    <2>8. QED
      BY <1>1, <2>1, <2>3, <2>6, <2>7, CommitType, Parts, AssembleType
  <1>3. CASE Launch(s, j)
    <2> DEFINE new == [View(s, j) EXCEPT !.status = "RUNNING", !.lease = TRUE]
    <2>1. new \in Row
      BY <1>0, <1>1, RowValues
    <2>2. CommitLeased(s, j, new) /\ Keep(s, "running", j, new) /\ UNCHANGED <<ledger, queued>>
      BY <1>3 DEF Launch
    <2> HIDE DEF new
    <2>3. "running" \in Pcs \ {"collected"}
      BY DEF Pcs, Holding
    <2>4. QED
      BY <1>1, <2>1, <2>2, <2>3, CommitType, Parts, KeepType
  <1>4. ASSUME NEW res \in Results, NEW reaped \in Reaps, Collect(s, j, res, reaped)
        PROVE  TypeInv'
    <2> DEFINE new == [View(s, j) EXCEPT !.status = "COLLECTING_RESULTS",
                           !.cleanup = IF reaped THEN "CLEANED" ELSE "FAILED"]
               v == [i \in {j} |-> new]
               r == [sess[s] EXCEPT !.pc = "collected", !.view = v, !.result = res]
    <2>1. new \in Row
      BY <1>0, <1>1, RowValues
    <2>2. Commit(s, j, new) /\ Record(s, j, res) /\ UNCHANGED queued
      BY <1>4 DEF Collect
    <2>3. sess' = [sess EXCEPT ![s].pc = "collected", ![s].view = v, ![s].result = res]
      BY <1>4 DEF Collect
    <2> HIDE DEF new
    <2>4. v \in Views /\ DOMAIN v = {j}
      BY <2>1, ViewOfOne
    <2> HIDE DEF v
    <2>5. sess' = [sess EXCEPT ![s] = r]
      BY <2>3, Parts
    <2>6. GoodSession(r)
      BY <1>1, <2>4, KeptGood
    <2>7. ledger' \in [Jobs -> SUBSET Attempts]
      BY <2>2, RecordType
    <2> HIDE DEF r
    <2>8. QED
      BY <1>1, <2>1, <2>2, <2>5, <2>6, <2>7, CommitType, Parts, AssembleType
  <1>5. QED
    BY <1>2, <1>3, <1>4

LEMMA LogType ==
  ASSUME TypeInv, NEW jobs, LogQueued(jobs)
  PROVE  /\ queued' \in [Jobs -> Nat]
         /\ \A j \in Jobs : queued'[j] >= queued[j]
         /\ \A j \in Jobs : j \in jobs => queued'[j] > queued[j] \/ queued[j] >= MaxClaims
  <1>1. \A j \in Jobs : queued[j] \in Nat
    BY Parts
  <1>2. MaxClaims \in Nat
    BY ExecutionQueueAssumption DEF ExecutionQueueAssumption
  <1>3. queued' = [j \in Jobs |-> IF j \in jobs /\ queued[j] < MaxClaims
                                  THEN queued[j] + 1 ELSE queued[j]]
    BY DEF LogQueued
  <1>4. \A j \in Jobs : queued'[j] \in Nat
    BY <1>1, <1>3
  <1>5. queued' \in [Jobs -> Nat]
    BY <1>3, <1>4
  <1>6. QED
    BY <1>1, <1>2, <1>3, <1>5

\* A sweep's view is a row for each job it selected.
LEMMA SweptRows ==
  ASSUME TypeInv, NEW w \in Sessions
  PROVE  /\ DOMAIN sess[w].view \subseteq Jobs
         /\ \A j \in DOMAIN sess[w].view : sess[w].view[j] \in Row
  <1>1. sess[w].view \in Views
    BY Parts DEF SessionRec
  <1>2. QED
    BY <1>1 DEF Views

LEMMA SweepTypes ==
  ASSUME TypeInv, NEW w \in Workers, SweepSelect(w) \/ SweepCommit(w)
  PROVE  TypeInv'
  <1>0. w \in Sessions /\ GoodSession(sess[w]) /\ sess \in [Sessions -> SessionRec]
    BY Parts DEF Sessions
  <1>1. CASE SweepSelect(w)
    <2> DEFINE stale == {j \in Jobs : Stale(rows[j])}
               v == [j \in stale |-> rows[j]]
               r == [sess[w] EXCEPT !.pc = "sweeping", !.view = v]
    <2>1. v \in [stale -> Row] /\ stale \in SUBSET Jobs
      BY Parts
    <2>2. v \in Views
      BY <2>1 DEF Views
    <2>3. sess' = [sess EXCEPT ![w].pc = "sweeping", ![w].view = v]
      BY <1>1 DEF SweepSelect
    <2> HIDE DEF v
    <2>4. sess' = [sess EXCEPT ![w] = r]
      BY <1>0, <2>3
    <2>5. GoodSession(r)
      BY <1>0, <2>2, ClaimingGood
    <2> HIDE DEF r
    <2>6. QED
      BY <1>0, <1>1, <2>4, <2>5, Parts, AssembleType DEF SweepSelect
  <1>2. CASE SweepCommit(w)
    <2> DEFINE view == sess[w].view
               f(j) == Flush(rows[j], view[j], Reclaimed(view[j]))
    <2>1. \A j \in DOMAIN view : view[j] \in Row /\ Reclaimed(view[j]) \in Row /\ j \in Jobs
      BY <1>0, SweptRows, RowValues
    <2>2. \A j \in Jobs : rows[j] \in Row
      BY Parts
    <2>3. \A j \in DOMAIN view : f(j) \in Row
      BY <2>1, <2>2, FlushType
    <2>4. rows' = [j \in Jobs |-> IF j \in DOMAIN view THEN f(j) ELSE rows[j]]
      BY <1>2 DEF SweepCommit
    <2>5. LogQueued({j \in DOMAIN view : Retried(view[j])}) /\ End(w) /\ UNCHANGED ledger
      BY <1>2 DEF SweepCommit
    <2>6. disturbed' \in [Jobs -> BOOLEAN]
      <3> DEFINE d(j) == disturbed[j] \/
                        (j \in DOMAIN view /\ (rows[j] # view[j] \/ Holders(j) # {}))
      <3>1. disturbed' = [j \in Jobs |-> d(j)]
        BY <1>2 DEF SweepCommit
      <3>2. \A j \in Jobs : d(j) \in BOOLEAN
        OBVIOUS
      <3> HIDE DEF d
      <3>3. QED
        BY <3>1, <3>2
    <2> HIDE DEF f
    <2>7. rows' \in [Jobs -> Row]
      BY <2>2, <2>3, <2>4
    <2>8. QED
      BY <1>0, <2>5, <2>6, <2>7, LogType, Parts, EndType
  <1>3. QED
    BY <1>1, <1>2

LEMMA InitTypeInv == Init => TypeInv
  <1> SUFFICES ASSUME Init PROVE TypeInv
    OBVIOUS
  <1>1. rows \in [Jobs -> Row]
    BY NoRowType DEF Init
  <1>2. ledger \in [Jobs -> SUBSET Attempts] /\ queued \in [Jobs -> Nat]
        /\ disturbed \in [Jobs -> BOOLEAN]
    BY DEF Init
  <1> DEFINE r(s) == [Rest(s) EXCEPT !.pc = "idle"]
  <1>3. \A s \in Sessions : GoodSession(r(s))
    BY RestGood
  <1>4. sess = [s \in Sessions |-> r(s)]
    BY DEF Init
  <1> HIDE DEF r
  <1>5. sess \in [Sessions -> SessionRec] /\ \A s \in Sessions : GoodSession(sess[s])
    BY <1>3, <1>4 DEF GoodSession
  <1>6. QED
    BY <1>1, <1>2, <1>5 DEF TypeInv

LEMMA NextTypeInv == TypeInv /\ [Next]_vars => TypeInv'
  <1> SUFFICES ASSUME TypeInv, [Next]_vars PROVE TypeInv'
    OBVIOUS
  <1>1. ASSUME NEW c \in Clients, Request(c) PROVE TypeInv'
    <2>1. CASE CancelRefused(c)
      BY <2>1, QuietTypes DEF CancelRefused, Sessions
    <2>2. QED
      BY <1>1, <2>1, SubmitTypes, CancelTypes DEF Request
  <1>2. ASSUME NEW w \in Workers, Claim(w) PROVE TypeInv'
    <2>1. CASE ClaimLost(w)
      BY <2>1, QuietTypes DEF ClaimLost, Sessions
    <2>2. QED
      BY <1>2, <2>1, ClaimTypes DEF Claim
  <1>3. ASSUME NEW w \in Workers, Sweep(w) PROVE TypeInv'
    BY <1>3, SweepTypes DEF Sweep
  <1>4. ASSUME NEW s \in Sessions, Execute(s) PROVE TypeInv'
    <2>1. CASE ExecuteReturns(s) \/ RecordConflict(s)
      BY <2>1, QuietTypes DEF ExecuteReturns, RecordConflict
    <2>2. QED
      BY <1>4, <2>1, EndingExecutionTypes, ContinuingExecutionTypes DEF Execute
  <1>5. ASSUME NEW s \in Sessions, Crash(s) PROVE TypeInv'
    BY <1>5, QuietTypes DEF Crash
  <1>6. CASE UNCHANGED vars
    BY <1>6 DEF vars, TypeInv
  <1>7. QED
    BY <1>1, <1>2, <1>3, <1>4, <1>5, <1>6 DEF Next

LEMMA TypeInvGivesTypeOK == TypeInv => TypeOK
  <1> SUFFICES ASSUME TypeInv PROVE TypeOK
    OBVIOUS
  <1>1. \A j \in Jobs : ledger[j] \subseteq Nat \X (Results \cup Duds)
    BY Parts DEF Attempts
  <1>2. ASSUME NEW s \in Sessions
        PROVE  /\ sess[s].job \in {{}} \cup {{j} : j \in Jobs}
               /\ sess[s].number \in Nat
               /\ sess[s].pc \in {"loaded", "begun", "running", "collected", "cancelling"} =>
                     sess[s].job # {} /\ sess[s].job = DOMAIN sess[s].view
               /\ \A j \in DOMAIN sess[s].view : sess[s].view[j] \in Row
    <2>1. GoodSession(sess[s])
      BY Parts
    <2>2. QED
      BY <2>1, SweptRows DEF GoodSession, SessionRec, HasRead
  <1>3. QED
    BY <1>1, <1>2, Parts DEF TypeOK

\* The columns and the sessions have their types in every behaviour of any
\* number of workers and requests; in particular whatever a session commits
\* through an old view is a row again (queue.py, orchestrator.py, service.py).
THEOREM TypeCorrect == Spec => []TypeOK
  <1>1. Spec => []TypeInv
    BY InitTypeInv, NextTypeInv, PTL DEF Spec
  <1>2. QED
    BY <1>1, TypeInvGivesTypeOK, PTL

-----------------------------------------------------------------------------
(* A job is claimed at most once each time it is queued.                   *)

\* What a commit leaves of one column, whichever of its two forms it has.
LEMMA CommittedRow ==
  ASSUME TypeInv, NEW s \in Sessions, NEW j \in Jobs, View(s, j) \in Row, NEW new \in Row,
         Commit(s, j, new) \/ CommitLeased(s, j, new)
  PROVE  /\ \A i \in Jobs \ {j} : rows'[i] = rows[i] /\ disturbed'[i] = disturbed[i]
         /\ \A c \in {"status", "attempts", "cleanup", "lock"} :
               rows'[j][c] = IF new[c] = View(s, j)[c] THEN rows[j][c] ELSE new[c]
         /\ disturbed'[j] = (disturbed[j] \/ rows[j] # View(s, j))
  <1> DEFINE f == Flush(rows[j], View(s, j), new)
  <1>1. rows[j] \in Row
    BY Parts
  <1>2. /\ f \in Row
        /\ \A c \in {"status", "attempts", "cleanup", "lock"} :
               f[c] = IF new[c] = View(s, j)[c] THEN rows[j][c] ELSE new[c]
    BY <1>1, FlushType
  <1>3. rows' = [rows EXCEPT ![j] = f] \/ rows' = [rows EXCEPT ![j] = [f EXCEPT !.lease = TRUE]]
    BY DEF Commit, CommitLeased
  <1>4. disturbed' = [disturbed EXCEPT ![j] = disturbed[j] \/ rows[j] # View(s, j)]
    BY DEF Commit, CommitLeased
  <1> HIDE DEF f
  <1>5. \A c \in {"status", "attempts", "cleanup", "lock"} :
           [f EXCEPT !.lease = TRUE][c] = f[c]
    BY <1>2 DEF Row
  <1>6. rows'[j] = f \/ rows'[j] = [f EXCEPT !.lease = TRUE]
    BY <1>3, Parts
  <1>7. \A i \in Jobs \ {j} : rows'[i] = rows[i] /\ disturbed'[i] = disturbed[i]
    BY <1>3, <1>4, Parts
  <1>8. disturbed'[j] = (disturbed[j] \/ rows[j] # View(s, j))
    BY <1>4, Parts
  <1>9. QED
    BY <1>2, <1>5, <1>6, <1>7, <1>8

LEMMA KeepsClaimInv ==
  ASSUME TypeInv, ClaimInv, TypeInv',
         \A j \in Jobs : /\ rows'[j].lock = rows[j].lock
                         /\ rows'[j].status = "QUEUED" => rows[j].status = "QUEUED"
                         /\ queued'[j] >= queued[j]
  PROVE  ClaimInv'
  <1>1. \A j \in Jobs : queued[j] \in Nat /\ queued'[j] \in Nat /\ rows[j].lock \in 0..MaxClaims
    BY Parts DEF Row, TypeInv
  <1>2. MaxClaims \in Nat
    BY ExecutionQueueAssumption DEF ExecutionQueueAssumption
  <1>3. QED
    BY <1>1, <1>2 DEF ClaimInv

\* A session's commit neither writes the lock nor queues the job.
LEMMA CommitKeepsClaimInv ==
  ASSUME TypeInv, ClaimInv, TypeInv', NEW s \in Sessions, NEW j \in Jobs, View(s, j) \in Row,
         NEW new \in Row, new.lock = View(s, j).lock, new.status # "QUEUED",
         Commit(s, j, new) \/ CommitLeased(s, j, new), UNCHANGED queued
  PROVE  ClaimInv'
  <1>1. /\ \A i \in Jobs \ {j} : rows'[i] = rows[i]
        /\ rows'[j]["lock"] = rows[j]["lock"]
        /\ rows'[j]["status"] \in {rows[j]["status"], new["status"]}
    BY CommittedRow
  <1>2. \A i \in Jobs : queued'[i] >= queued[i]
    BY Parts
  <1>3. QED
    BY <1>1, <1>2, KeepsClaimInv

LEMMA RequestKeepsClaimInv ==
  ASSUME TypeInv, ClaimInv, TypeInv', NEW c \in Clients, Request(c)
  PROVE  ClaimInv'
  <1>0. c \in Sessions /\ MaxClaims \in Nat
    BY ExecutionQueueAssumption DEF Sessions, ExecutionQueueAssumption
  <1>1. ASSUME NEW j \in Jobs, SubmitQueued(c, j) PROVE ClaimInv'
    <2>1. rows' = [rows EXCEPT ![j].status = "QUEUED"] /\ queued' = [queued EXCEPT ![j] = queued[j] + 1]
      BY <1>1 DEF SubmitQueued
    <2>2. \A i \in Jobs : queued[i] \in Nat /\ rows[i] \in Row
      BY Parts
    <2>3. \A i \in Jobs \ {j} : rows'[i] = rows[i] /\ queued'[i] = queued[i]
      BY <2>1, Parts
    <2>4. rows'[j].lock = rows[j].lock /\ queued'[j] = queued[j] + 1
      BY <2>1, <2>2, Parts DEF Row
    <2>5. QED
      BY <1>0, <2>2, <2>3, <2>4 DEF ClaimInv, Row
  <1>2. ASSUME NEW j \in Jobs, SubmitInline(c, j) PROVE ClaimInv'
    <2>1. rows' = [rows EXCEPT ![j].status = "CREATED"] /\ UNCHANGED queued
      BY <1>2 DEF SubmitInline
    <2>2. rows'[j].lock = rows[j].lock /\ rows'[j].status = "CREATED"
      BY <2>1, Parts DEF Row
    <2>3. QED
      BY <2>1, <2>2, KeepsClaimInv, Parts
  <1>3. ASSUME NEW j \in Jobs, CancelWrite(c, j) PROVE ClaimInv'
    <2> DEFINE v == View(c, j)
               new == IF v.status \in {"QUEUED", "CREATED"}
                      THEN [v EXCEPT !.status = "CANCELLED", !.cleanup = Skipped(v.cleanup)]
                      ELSE [v EXCEPT !.status = "CANCEL_REQUESTED"]
    <2>1. v \in Row
      BY <1>0, <1>3, ReadJob DEF CancelWrite, At, HasRead
    <2>2. {"CANCELLED", "CANCEL_REQUESTED"} \subseteq Statuses
      BY DEF Statuses, Terminal
    <2>3. new \in Row
      BY <2>1, <2>2, RowValues
    <2>4. new.lock = v.lock /\ new.status \in {"CANCELLED", "CANCEL_REQUESTED"}
      BY <2>1 DEF Row
    <2>5. Commit(c, j, new) /\ UNCHANGED queued
      BY <1>3 DEF CancelWrite
    <2> HIDE DEF new
    <2>6. QED
      BY <1>0, <2>1, <2>3, <2>4, <2>5, CommitKeepsClaimInv
  <1>4. ASSUME UNCHANGED <<rows, queued>> PROVE ClaimInv'
    BY <1>4 DEF ClaimInv
  <1>5. QED
    BY <1>1, <1>2, <1>3, <1>4 DEF Request, SubmitAgain, CancelLoad, CancelRefused

LEMMA ClaimKeepsClaimInv ==
  ASSUME TypeInv, ClaimInv, TypeInv', NEW w \in Workers, Claim(w)
  PROVE  ClaimInv'
  <1>1. ASSUME NEW j \in Jobs, ClaimUpdate(w, j) PROVE ClaimInv'
    <2>1. rows' = [rows EXCEPT ![j] = Claimed(rows[j])] /\ UNCHANGED queued
          /\ rows[j].status = "QUEUED" /\ rows[j].lock < MaxClaims
      BY <1>1 DEF ClaimUpdate
    <2>2. rows[j] \in Row /\ rows[j].lock \in Nat /\ queued[j] \in Nat /\ MaxClaims \in Nat
      BY Parts, ExecutionQueueAssumption DEF Row, ExecutionQueueAssumption
    <2>3. rows'[j].lock = rows[j].lock + 1 /\ rows'[j].status = "STARTING"
      BY <2>1, <2>2, Parts DEF Claimed, Row
    <2>4. rows[j].lock < queued[j]
      BY <2>1, <2>2 DEF ClaimInv
    <2>5. \A i \in Jobs \ {j} : rows'[i] = rows[i]
      BY <2>1, Parts
    <2>6. QED
      BY <2>1, <2>2, <2>3, <2>4, <2>5 DEF ClaimInv
  <1>2. ASSUME UNCHANGED <<rows, queued>> PROVE ClaimInv'
    BY <1>2 DEF ClaimInv
  <1>3. QED
    BY <1>1, <1>2 DEF Claim, ClaimSelect, ClaimRefresh, ClaimLost

LEMMA ExecuteKeepsClaimInv ==
  ASSUME TypeInv, ClaimInv, TypeInv', NEW s \in Sessions, Execute(s)
  PROVE  ClaimInv'
  <1>0. /\ {"CANCELLED", "REJECTED", "STARTING", "RUNNING", "COLLECTING_RESULTS"}
                \cup Results \cup Duds \subseteq Statuses
        /\ {"SKIPPED", "CLEANED", "FAILED"} \subseteq Cleanups
        /\ "QUEUED" \notin Results \cup Duds
    BY ExecutionQueueAssumption
    DEF ExecutionQueueAssumption, Statuses, Active, Terminal, Cleanups
  <1>1. ASSUME NEW j \in Jobs, On(s, j), sess[s].pc \in HasRead
        PROVE  View(s, j) \in Row
    BY <1>1, ReadJob
  <1>2. ASSUME NEW j \in Jobs, View(s, j) \in Row,
               NEW status \in Statuses \ {"QUEUED"}, NEW new \in Row,
               new.status = status, new.lock = View(s, j).lock,
               Commit(s, j, new) \/ CommitLeased(s, j, new), UNCHANGED queued
        PROVE  ClaimInv'
    BY <1>2, CommitKeepsClaimInv
  <1>3. ASSUME NEW j \in Jobs, ExecuteCancel(s, j) \/ Reject(s, j) \/ Finalise(s, j)
        PROVE  ClaimInv'
    <2> DEFINE v == View(s, j)
    <2>1. v \in Row
      BY <1>1, <1>3 DEF ExecuteCancel, Reject, Finalise, At, HasRead
    <2>2. CASE ExecuteCancel(s, j)
      <3> DEFINE new == [v EXCEPT !.status = "CANCELLED", !.cleanup = Skipped(v.cleanup)]
      <3>1. new \in Row /\ new.status = "CANCELLED" /\ new.lock = v.lock
        BY <1>0, <2>1, RowValues DEF Row
      <3>2. Commit(s, j, new) /\ UNCHANGED queued
        BY <2>2 DEF ExecuteCancel
      <3> HIDE DEF new
      <3>3. QED
        BY <1>0, <1>2, <2>1, <3>1, <3>2
    <2>3. CASE Reject(s, j)
      <3> DEFINE new == [v EXCEPT !.status = "REJECTED", !.cleanup = "SKIPPED"]
      <3>1. new \in Row /\ new.status = "REJECTED" /\ new.lock = v.lock
        BY <1>0, <2>1, RowValues DEF Row
      <3>2. Commit(s, j, new) /\ UNCHANGED queued
        BY <2>3 DEF Reject
      <3> HIDE DEF new
      <3>3. QED
        BY <1>0, <1>2, <2>1, <3>1, <3>2
    <2>4. CASE Finalise(s, j)
      <3> DEFINE new == [v EXCEPT !.status = sess[s].result, !.lease = FALSE]
      <3>1. sess[s].result \in Results
        BY <2>4, Parts DEF GoodSession, Finalise, At
      <3>2. new \in Row /\ new.status = sess[s].result /\ new.lock = v.lock
        BY <1>0, <2>1, <3>1, RowValues DEF Row
      <3>3. Commit(s, j, new) /\ UNCHANGED queued
        BY <2>4 DEF Finalise
      <3> HIDE DEF new
      <3>4. QED
        BY <1>0, <1>2, <2>1, <3>1, <3>2, <3>3
    <2>5. QED
      BY <1>3, <2>2, <2>3, <2>4
  <1>4. ASSUME NEW j \in Jobs, NEW r \in Duds, CollectBare(s, j, r)
        PROVE  ClaimInv'
    <2> DEFINE v == View(s, j)
               new == [v EXCEPT !.status = r, !.cleanup = "SKIPPED", !.lease = FALSE]
    <2>1. v \in Row
      BY <1>1, <1>4 DEF CollectBare, At, HasRead
    <2>2. new \in Row /\ new.status = r /\ new.lock = v.lock
      BY <1>0, <2>1, RowValues DEF Row
    <2>3. Commit(s, j, new) /\ UNCHANGED queued
      BY <1>4 DEF CollectBare
    <2> HIDE DEF new
    <2>4. QED
      BY <1>0, <1>2, <2>1, <2>2, <2>3
  <1>5. ASSUME NEW j \in Jobs, Begin(s, j) \/ Launch(s, j)
        PROVE  ClaimInv'
    <2> DEFINE v == View(s, j)
               new == [v EXCEPT !.status = "RUNNING", !.lease = TRUE]
    <2>1. v \in Row
      BY <1>1, <1>5 DEF Begin, Launch, At, HasRead
    <2>2. Started(v) \in Row /\ Started(v).status = "STARTING" /\ Started(v).lock = v.lock
      BY <2>1, RowValues DEF Started, Row
    <2>3. new \in Row /\ new.status = "RUNNING" /\ new.lock = v.lock
      BY <1>0, <2>1, RowValues DEF Row
    <2>4. Begin(s, j) => CommitLeased(s, j, Started(v)) /\ UNCHANGED queued
      BY DEF Begin
    <2>5. Launch(s, j) => CommitLeased(s, j, new) /\ UNCHANGED queued
      BY DEF Launch
    <2> HIDE DEF new
    <2>6. QED
      BY <1>0, <1>2, <1>5, <2>1, <2>2, <2>3, <2>4, <2>5
  <1>6. ASSUME NEW j \in Jobs, NEW r \in Results, NEW reaped \in Reaps, Collect(s, j, r, reaped)
        PROVE  ClaimInv'
    <2> DEFINE v == View(s, j)
               new == [v EXCEPT !.status = "COLLECTING_RESULTS",
                                !.cleanup = IF reaped THEN "CLEANED" ELSE "FAILED"]
    <2>1. v \in Row
      BY <1>1, <1>6 DEF Collect, At, HasRead
    <2>2. new \in Row /\ new.status = "COLLECTING_RESULTS" /\ new.lock = v.lock
      BY <1>0, <2>1, RowValues DEF Row
    <2>3. Commit(s, j, new) /\ UNCHANGED queued
      BY <1>6 DEF Collect
    <2> HIDE DEF new
    <2>4. QED
      BY <1>0, <1>2, <2>1, <2>2, <2>3
  <1>7. ASSUME UNCHANGED <<rows, queued>> PROVE ClaimInv'
    BY <1>7 DEF ClaimInv
  <1>8. QED
    BY <1>3, <1>4, <1>5, <1>6, <1>7 DEF Execute, ExecuteReturns, RecordConflict

\* The one other writer of QUEUED is the sweep, which logs what it requeues.
LEMMA SweepKeepsClaimInv ==
  ASSUME TypeInv, ClaimInv, TypeInv', NEW w \in Workers, Sweep(w)
  PROVE  ClaimInv'
  <1>0. w \in Sessions /\ MaxClaims \in Nat
    BY ExecutionQueueAssumption DEF Sessions, ExecutionQueueAssumption
  <1>1. CASE SweepCommit(w)
    <2> DEFINE view == sess[w].view
               f(j) == Flush(rows[j], view[j], Reclaimed(view[j]))
               jobs == {j \in DOMAIN view : Retried(view[j])}
    <2>1. \A j \in Jobs : rows[j] \in Row /\ queued[j] \in Nat
      BY Parts
    <2>2. rows' = [j \in Jobs |-> IF j \in DOMAIN view THEN f(j) ELSE rows[j]]
      BY <1>1 DEF SweepCommit
    <2>3. LogQueued(jobs)
      BY <1>1 DEF SweepCommit
    <2>4. ASSUME NEW j \in Jobs
          PROVE  /\ rows'[j].lock = rows[j].lock
                 /\ rows'[j].status = "QUEUED" => rows[j].status = "QUEUED" \/ j \in jobs
      <3>1. CASE j \notin DOMAIN view
        BY <2>2, <3>1
      <3>2. CASE j \in DOMAIN view
        <4>1. view[j] \in Row /\ Reclaimed(view[j]) \in Row
          BY <1>0, <3>2, SweptRows, RowValues
        <4>2. Reclaimed(view[j]).lock = view[j].lock
          BY <4>1 DEF Reclaimed, Row
        <4>3. Reclaimed(view[j]).status = "QUEUED" => Retried(view[j])
          BY <4>1 DEF Reclaimed, Row
        <4>4. /\ f(j)["lock"] = rows[j]["lock"]
              /\ f(j)["status"] \in {rows[j]["status"], Reclaimed(view[j])["status"]}
          BY <2>1, <4>1, <4>2, FlushType
        <4>5. rows'[j] = f(j)
          BY <2>2, <3>2
        <4> HIDE DEF f
        <4>6. QED
          BY <3>2, <4>3, <4>4, <4>5
      <3>3. QED
        BY <3>1, <3>2
    <2>5. \A j \in Jobs : /\ queued'[j] \in Nat /\ queued'[j] >= queued[j]
                          /\ j \in jobs => queued'[j] > queued[j] \/ queued[j] >= MaxClaims
      BY <2>3, LogType
    <2> HIDE DEF jobs
    <2>6. QED
      BY <1>0, <2>1, <2>4, <2>5 DEF ClaimInv, Row
  <1>2. CASE SweepSelect(w)
    BY <1>2 DEF SweepSelect, ClaimInv
  <1>3. QED
    BY <1>1, <1>2 DEF Sweep

LEMMA InitClaimInv == Init => ClaimInv
  BY DEF Init, ClaimInv, NoRow

LEMMA NextClaimInv == TypeInv /\ ClaimInv /\ [Next]_vars => ClaimInv'
  <1> SUFFICES ASSUME TypeInv, ClaimInv, [Next]_vars PROVE ClaimInv'
    OBVIOUS
  <1>1. TypeInv'
    BY NextTypeInv
  <1>2. ASSUME NEW s \in Sessions, Crash(s) PROVE ClaimInv'
    BY <1>2 DEF Crash, ClaimInv
  <1>3. CASE UNCHANGED vars
    BY <1>3 DEF vars, ClaimInv
  <1>4. QED
    BY <1>1, <1>2, <1>3, RequestKeepsClaimInv, ClaimKeepsClaimInv, SweepKeepsClaimInv,
       ExecuteKeepsClaimInv DEF Next

\* However many workers, sweeps, requests and crashes: a job is claimed at most
\* once each time it is queued (claim_job's conditional UPDATE, recover_stale_jobs).
THEOREM JobClaimedOncePerQueueing == Spec => [](ClaimInv /\ ClaimedOncePerQueueing)
  <1>1. Spec => [](TypeInv /\ ClaimInv)
    BY InitTypeInv, NextTypeInv, InitClaimInv, NextClaimInv, PTL DEF Spec
  <1>2. ClaimInv => ClaimedOncePerQueueing
    BY DEF ClaimInv, ClaimedOncePerQueueing
  <1>3. QED
    BY <1>1, <1>2, PTL

-----------------------------------------------------------------------------
(* An undisturbed job runs in one session at a time.                       *)

Owns(r, j) ==
    r.job = {j} /\ r.pc \in Holding /\ (r.pc = "claimed" \/ r.view[j].status \notin Terminal)

Offered == {"ABSENT", "QUEUED"}

LEMMA OwnersAre ==
  ASSUME NEW j \in Jobs
  PROVE  /\ Owners(j) = {s \in Sessions : Owns(sess[s], j)}
         /\ Owners(j)' = {s \in Sessions : Owns(sess'[s], j)}
  BY DEF Owners, Holders, Owns, On, At, View

LEMMA OwnersAfter ==
  ASSUME TypeInv, NEW s \in Sessions, NEW r, sess' = [sess EXCEPT ![s] = r], NEW j \in Jobs
  PROVE  /\ s \in Owners(j)' <=> Owns(r, j)
         /\ \A t \in Sessions \ {s} : t \in Owners(j)' <=> t \in Owners(j)
  <1>1. \A t \in Sessions : sess'[t] = IF t = s THEN r ELSE sess[t]
    BY Parts
  <1>2. QED
    BY <1>1, OwnersAre

\* A step of one session keeps the invariant if it makes that session an owner
\* only of a job without one, and offers no job that has one.
LEMMA StepKeepsOwnerInv ==
  ASSUME TypeInv, OwnerInv, NEW s \in Sessions, NEW r, sess' = [sess EXCEPT ![s] = r],
         \A j \in Jobs : ~disturbed'[j] =>
             /\ ~disturbed[j]
             /\ Owns(r, j) => s \in Owners(j) \/ Owners(j) = {}
             /\ Owners(j)' # {} => rows'[j].status \notin Offered,
         \A j \in Jobs : r.job = {j} /\ r.pc \in {"begun", "running", "collected"} => Owns(r, j)
  PROVE  OwnerInv'
  <1> SUFFICES ASSUME NEW j \in Jobs
               PROVE  /\ ~disturbed'[j] => \A t, u \in Owners(j)' : t = u
                      /\ ~disturbed'[j] /\ Owners(j)' # {} => rows'[j].status \notin Offered
                      /\ \A t \in Holders(j)' : sess'[t].pc \in {"begun", "running", "collected"}
                            => t \in Owners(j)'
    BY DEF OwnerInv, Offered
  <1>1. Owners(j)' \subseteq Sessions /\ Owners(j) \subseteq Sessions
    BY OwnersAre
  <1>2. ASSUME ~disturbed'[j], NEW t \in Owners(j)', NEW u \in Owners(j)' PROVE t = u
    <2>1. \A a, b \in Owners(j) : a = b
      BY <1>2 DEF OwnerInv
    <2>2. QED
      BY <1>1, <1>2, <2>1, OwnersAfter
  <1>3. ASSUME NEW t \in Holders(j)', sess'[t].pc \in {"begun", "running", "collected"}
        PROVE  t \in Owners(j)'
    <2>1. t \in Sessions /\ sess'[t] = IF t = s THEN r ELSE sess[t]
      BY <1>3, Parts DEF Holders
    <2>2. sess'[t].job = {j} /\ sess'[t].pc \in Holding
      BY <1>3 DEF Holders, On
    <2>3. CASE t = s
      BY <1>3, <2>1, <2>2, <2>3, OwnersAfter
    <2>4. CASE t # s
      <3>1. t \in Holders(j) /\ sess[t].pc \in {"begun", "running", "collected"}
        BY <1>3, <2>1, <2>2, <2>4 DEF Holders, On
      <3>2. t \in Owners(j)
        BY <3>1 DEF OwnerInv
      <3>3. QED
        BY <2>1, <2>4, <3>2, OwnersAfter
    <2>5. QED
      BY <2>3, <2>4
  <1>4. QED
    BY <1>2, <1>3

\* Most steps make no new owner and offer no job.
LEMMA PlainStepKeepsOwnerInv ==
  ASSUME TypeInv, OwnerInv, NEW s \in Sessions, NEW r, sess' = [sess EXCEPT ![s] = r],
         \A j \in Jobs : ~disturbed'[j] =>
             /\ ~disturbed[j]
             /\ Owns(r, j) => s \in Owners(j)
             /\ rows'[j].status \in Offered => rows[j].status \in Offered,
         \A j \in Jobs : r.job = {j} /\ r.pc \in {"begun", "running", "collected"} => Owns(r, j)
  PROVE  OwnerInv'
  <1>1. ASSUME NEW j \in Jobs, ~disturbed'[j], Owners(j)' # {}
        PROVE  rows'[j].status \notin Offered
    <2>1. Owners(j) # {}
      BY <1>1, OwnersAfter, OwnersAre
    <2>2. QED
      BY <1>1, <2>1 DEF OwnerInv, Offered
  <1>2. QED
    BY <1>1, StepKeepsOwnerInv

LEMMA EndKeepsOwnerInv ==
  ASSUME TypeInv, OwnerInv, NEW s \in Sessions, End(s),
         \A j \in Jobs : ~disturbed'[j] =>
             /\ ~disturbed[j]
             /\ rows'[j].status \in Offered => rows[j].status \in Offered
  PROVE  OwnerInv'
  <1> DEFINE r == Rest(s)
  <1>1. sess' = [sess EXCEPT ![s] = r]
    BY DEF End
  <1>2. r.pc \in {"idle", "done"}
    BY RestGood
  <1> HIDE DEF r
  <1>3. \A j \in Jobs : ~Owns(r, j)
    BY <1>2 DEF Owns, Holding
  <1>4. r.pc \notin {"begun", "running", "collected"}
    BY <1>2
  <1>5. QED
    BY <1>1, <1>3, <1>4, PlainStepKeepsOwnerInv

\* What a commit can do to the offer: nothing.
LEMMA CommitOffersNothing ==
  ASSUME TypeInv, NEW s \in Sessions, NEW j \in Jobs, View(s, j) \in Row, NEW new \in Row,
         new.status \notin Offered, Commit(s, j, new) \/ CommitLeased(s, j, new)
  PROVE  \A i \in Jobs : ~disturbed'[i] =>
             /\ ~disturbed[i]
             /\ rows'[i].status \in Offered => rows[i].status \in Offered
  <1>1. rows'[j]["status"] \in {rows[j]["status"], new["status"]}
    BY CommittedRow
  <1>2. \A i \in Jobs \ {j} : rows'[i] = rows[i] /\ disturbed'[i] = disturbed[i]
    BY CommittedRow
  <1>3. disturbed[j] => disturbed'[j]
    BY CommittedRow
  <1>4. QED
    BY <1>1, <1>2, <1>3

LEMMA RequestKeepsOwnerInv ==
  ASSUME TypeInv, OwnerInv, NEW c \in Clients, Request(c)
  PROVE  OwnerInv'
  <1>0. c \in Sessions /\ sess \in [Sessions -> SessionRec]
    BY Parts DEF Sessions
  <1>1. ASSUME NEW j \in Jobs, SubmitQueued(c, j) PROVE OwnerInv'
    <2> DEFINE r == Rest(c)
    <2>1. sess' = [sess EXCEPT ![c] = r] /\ r.pc \in {"idle", "done"}
      BY <1>0, <1>1, RestGood DEF SubmitQueued, End
    <2> HIDE DEF r
    <2>2. \A i \in Jobs : ~Owns(r, i)
      BY <2>1 DEF Owns, Holding
    <2>3. rows[j].status = "ABSENT" /\ UNCHANGED disturbed
          /\ \A i \in Jobs \ {j} : rows'[i] = rows[i]
      BY <1>1, Parts DEF SubmitQueued
    <2>4. ASSUME NEW i \in Jobs, ~disturbed[i], Owners(i)' # {}
          PROVE  rows'[i].status \notin Offered
      <3>1. Owners(i) # {}
        BY <1>0, <2>1, <2>2, <2>4, OwnersAfter, OwnersAre
      <3>2. rows[i].status \notin Offered
        BY <2>4, <3>1 DEF OwnerInv, Offered
      <3>3. QED
        BY <2>3, <3>2 DEF Offered
    <2>5. r.pc \notin {"begun", "running", "collected"}
      BY <2>1
    <2>6. QED
      BY <1>0, <2>1, <2>2, <2>3, <2>4, <2>5, StepKeepsOwnerInv
  <1>2. ASSUME NEW j \in Jobs, SubmitInline(c, j) PROVE OwnerInv'
    <2> DEFINE v == [i \in {j} |-> rows'[j]]
               r == [sess[c] EXCEPT !.pc = "loaded", !.job = {j}, !.view = v]
    <2>1. sess' = [sess EXCEPT ![c] = r]
      BY <1>0, <1>2 DEF SubmitInline, Keep
    <2> HIDE DEF v
    <2>2. r.pc = "loaded" /\ r.job = {j}
      BY <1>0 DEF SessionRec
    <2> HIDE DEF r
    <2>3. rows[j].status = "ABSENT" /\ UNCHANGED disturbed /\ rows'[j].status = "CREATED"
          /\ \A i \in Jobs \ {j} : rows'[i] = rows[i]
      BY <1>2, Parts DEF SubmitInline, Row
    <2>4. \A i \in Jobs : Owns(r, i) => i = j
      BY <2>2 DEF Owns
    <2>5. ~disturbed[j] => Owners(j) = {}
      BY <2>3 DEF OwnerInv
    <2>6. ASSUME NEW i \in Jobs, ~disturbed[i], Owners(i)' # {}
          PROVE  rows'[i].status \notin Offered
      <3>1. CASE i = j
        BY <2>3, <3>1 DEF Offered
      <3>2. CASE i # j
        <4>1. Owners(i) # {}
          BY <1>0, <2>1, <2>4, <2>6, <3>2, OwnersAfter, OwnersAre
        <4>2. QED
          BY <2>3, <2>6, <3>2, <4>1 DEF OwnerInv, Offered
      <3>3. QED
        BY <3>1, <3>2
    <2>7. QED
      BY <1>0, <2>1, <2>2, <2>3, <2>4, <2>5, <2>6, StepKeepsOwnerInv
  <1>3. ASSUME NEW j \in Jobs, SubmitAgain(c, j) PROVE OwnerInv'
    <2> DEFINE v == [i \in {j} |-> rows[j]]
               r == [sess[c] EXCEPT !.pc = "loaded", !.job = {j}, !.view = v]
    <2>1. sess' = [sess EXCEPT ![c] = r] /\ UNCHANGED rows
      BY <1>0, <1>3 DEF SubmitAgain, Keep
    <2>2. v[j] = rows[j]
      OBVIOUS
    <2> HIDE DEF v
    <2>3. r.pc = "loaded" /\ r.job = {j} /\ r.view = v
      BY <1>0 DEF SessionRec
    <2> HIDE DEF r
    <2>4. \A i \in Jobs : ~disturbed'[i] => ~disturbed[i] /\ (i = j => rows[i].status \in Terminal)
      BY <1>3, Parts DEF SubmitAgain
    <2>5. \A i \in Jobs : ~disturbed'[i] => ~Owns(r, i)
      BY <2>2, <2>3, <2>4 DEF Owns
    <2>6. QED
      BY <1>0, <2>1, <2>3, <2>4, <2>5, PlainStepKeepsOwnerInv
  <1>4. ASSUME NEW j \in Jobs, CancelLoad(c, j) PROVE OwnerInv'
    <2> DEFINE v == [i \in {j} |-> rows[j]]
               r == [sess[c] EXCEPT !.pc = "cancelling", !.job = {j}, !.view = v]
    <2>1. sess' = [sess EXCEPT ![c] = r] /\ UNCHANGED <<rows, disturbed>>
      BY <1>0, <1>4 DEF CancelLoad, Keep
    <2> HIDE DEF v
    <2>2. r.pc = "cancelling"
      BY <1>0 DEF SessionRec
    <2> HIDE DEF r
    <2>3. \A i \in Jobs : ~Owns(r, i)
      BY <2>2 DEF Owns, Holding
    <2>4. QED
      BY <1>0, <2>1, <2>2, <2>3, PlainStepKeepsOwnerInv
  <1>5. ASSUME NEW j \in Jobs, CancelWrite(c, j) PROVE OwnerInv'
    <2> DEFINE v == View(c, j)
               new == IF v.status \in {"QUEUED", "CREATED"}
                      THEN [v EXCEPT !.status = "CANCELLED", !.cleanup = Skipped(v.cleanup)]
                      ELSE [v EXCEPT !.status = "CANCEL_REQUESTED"]
    <2>1. v \in Row
      BY <1>0, <1>5, ReadJob DEF CancelWrite, At, HasRead
    <2>2. {"CANCELLED", "CANCEL_REQUESTED"} \subseteq Statuses
      BY DEF Statuses, Terminal
    <2>3. new \in Row
      BY <2>1, <2>2, RowValues
    <2>4. new.status \notin Offered
      BY <2>1 DEF Row, Offered
    <2>5. Commit(c, j, new) /\ End(c)
      BY <1>5 DEF CancelWrite
    <2> HIDE DEF new
    <2>6. QED
      BY <1>0, <2>1, <2>3, <2>4, <2>5, CommitOffersNothing, EndKeepsOwnerInv
  <1>6. CASE CancelRefused(c)
    BY <1>0, <1>6, EndKeepsOwnerInv DEF CancelRefused
  <1>7. QED
    BY <1>1, <1>2, <1>3, <1>4, <1>5, <1>6 DEF Request

LEMMA ClaimKeepsOwnerInv ==
  ASSUME TypeInv, OwnerInv, NEW w \in Workers, Claim(w)
  PROVE  OwnerInv'
  <1>0. w \in Sessions /\ sess \in [Sessions -> SessionRec]
    BY Parts DEF Sessions
  <1>1. ASSUME NEW j \in Jobs, ClaimSelect(w, j) PROVE OwnerInv'
    <2> DEFINE r == [sess[w] EXCEPT !.pc = "picked", !.job = {j}]
    <2>1. sess' = [sess EXCEPT ![w] = r] /\ UNCHANGED <<rows, disturbed>>
      BY <1>0, <1>1 DEF ClaimSelect
    <2>2. r.pc = "picked"
      BY <1>0 DEF SessionRec
    <2> HIDE DEF r
    <2>3. \A i \in Jobs : ~Owns(r, i)
      BY <2>2 DEF Owns, Holding
    <2>4. QED
      BY <1>0, <2>1, <2>2, <2>3, PlainStepKeepsOwnerInv
  \* The row was on offer, so an undisturbed job had no owner.
  <1>2. ASSUME NEW j \in Jobs, ClaimUpdate(w, j) PROVE OwnerInv'
    <2> DEFINE r == [sess[w] EXCEPT !.pc = "claimed"]
    <2>1. sess' = [sess EXCEPT ![w] = r] /\ UNCHANGED disturbed /\ sess[w].job = {j}
          /\ rows[j].status = "QUEUED" /\ rows' = [rows EXCEPT ![j] = Claimed(rows[j])]
      BY <1>0, <1>2 DEF ClaimUpdate, On
    <2>2. r.pc = "claimed" /\ r.job = {j}
      BY <1>0, <2>1 DEF SessionRec
    <2> HIDE DEF r
    <2>3. rows'[j].status = "STARTING" /\ \A i \in Jobs \ {j} : rows'[i] = rows[i]
      BY <2>1, Parts DEF Claimed, Row
    <2>4. \A i \in Jobs : Owns(r, i) => i = j
      BY <2>2 DEF Owns
    <2>5. ~disturbed[j] => Owners(j) = {}
      BY <2>1 DEF OwnerInv
    <2>6. ASSUME NEW i \in Jobs, ~disturbed[i], Owners(i)' # {}
          PROVE  rows'[i].status \notin Offered
      <3>1. CASE i = j
        BY <2>3, <3>1 DEF Offered
      <3>2. CASE i # j
        <4>1. Owners(i) # {}
          BY <1>0, <2>1, <2>4, <2>6, <3>2, OwnersAfter, OwnersAre
        <4>2. QED
          BY <2>3, <2>6, <3>2, <4>1 DEF OwnerInv, Offered
      <3>3. QED
        BY <3>1, <3>2
    <2>7. QED
      BY <1>0, <2>1, <2>2, <2>4, <2>5, <2>6, StepKeepsOwnerInv
  <1>3. ASSUME NEW j \in Jobs, ClaimRefresh(w, j) PROVE OwnerInv'
    <2> DEFINE v == [i \in {j} |-> rows[j]]
               r == [sess[w] EXCEPT !.pc = "loaded", !.job = {j}, !.view = v]
    <2>1. sess' = [sess EXCEPT ![w] = r] /\ UNCHANGED <<rows, disturbed>>
          /\ sess[w].pc = "claimed" /\ sess[w].job = {j}
      BY <1>0, <1>3 DEF ClaimRefresh, Keep, At, On
    <2> HIDE DEF v
    <2>2. r.pc = "loaded" /\ r.job = {j}
      BY <1>0 DEF SessionRec
    <2> HIDE DEF r
    <2>3. \A i \in Jobs : Owns(r, i) => w \in Owners(i)
      BY <1>0, <2>1, <2>2, OwnersAre DEF Owns, Holding
    <2>4. QED
      BY <1>0, <2>1, <2>2, <2>3, PlainStepKeepsOwnerInv
  <1>4. CASE ClaimLost(w)
    BY <1>0, <1>4, EndKeepsOwnerInv DEF ClaimLost
  <1>5. QED
    BY <1>1, <1>2, <1>3, <1>4 DEF Claim

LEMMA EndingExecutionKeepsOwnerInv ==
  ASSUME TypeInv, OwnerInv, NEW s \in Sessions, NEW j \in Jobs,
         \/ ExecuteCancel(s, j) \/ Reject(s, j) \/ Finalise(s, j)
         \/ \E r \in Duds : CollectBare(s, j, r)
  PROVE  OwnerInv'
  <1> DEFINE v == View(s, j)
  <1>0. {"CANCELLED", "REJECTED"} \cup Results \cup Duds \subseteq Statuses \ Offered
        /\ "SKIPPED" \in Cleanups
    BY ExecutionQueueAssumption
    DEF ExecutionQueueAssumption, Statuses, Terminal, Cleanups, Offered
  <1>1. v \in Row
    BY ReadJob DEF ExecuteCancel, Reject, Finalise, CollectBare, At, HasRead
  <1>2. ASSUME NEW status \in Statuses \ Offered, NEW new \in Row, new.status = status,
               Commit(s, j, new), End(s)
        PROVE  OwnerInv'
    BY <1>1, <1>2, CommitOffersNothing, EndKeepsOwnerInv
  <1>3. CASE ExecuteCancel(s, j)
    <2> DEFINE new == [v EXCEPT !.status = "CANCELLED", !.cleanup = Skipped(v.cleanup)]
    <2>1. new \in Row /\ new.status = "CANCELLED"
      BY <1>0, <1>1, RowValues DEF Row
    <2>2. Commit(s, j, new) /\ End(s)
      BY <1>3 DEF ExecuteCancel
    <2> HIDE DEF new
    <2>3. QED
      BY <1>0, <1>2, <2>1, <2>2
  <1>4. CASE Reject(s, j)
    <2> DEFINE new == [v EXCEPT !.status = "REJECTED", !.cleanup = "SKIPPED"]
    <2>1. new \in Row /\ new.status = "REJECTED"
      BY <1>0, <1>1, RowValues DEF Row
    <2>2. Commit(s, j, new) /\ End(s)
      BY <1>4 DEF Reject
    <2> HIDE DEF new
    <2>3. QED
      BY <1>0, <1>2, <2>1, <2>2
  <1>5. CASE Finalise(s, j)
    <2> DEFINE new == [v EXCEPT !.status = sess[s].result, !.lease = FALSE]
    <2>1. sess[s].result \in Results
      BY <1>5, Parts DEF GoodSession, Finalise, At
    <2>2. new \in Row /\ new.status = sess[s].result
      BY <1>0, <1>1, <2>1, RowValues DEF Row
    <2>3. Commit(s, j, new) /\ End(s)
      BY <1>5 DEF Finalise
    <2> HIDE DEF new
    <2>4. QED
      BY <1>0, <1>2, <2>1, <2>2, <2>3
  <1>6. ASSUME NEW r \in Duds, CollectBare(s, j, r) PROVE OwnerInv'
    <2> DEFINE new == [v EXCEPT !.status = r, !.cleanup = "SKIPPED", !.lease = FALSE]
    <2>1. new \in Row /\ new.status = r
      BY <1>0, <1>1, RowValues DEF Row
    <2>2. Commit(s, j, new) /\ End(s)
      BY <1>6 DEF CollectBare
    <2> HIDE DEF new
    <2>3. QED
      BY <1>0, <1>2, <2>1, <2>2
  <1>7. QED
    BY <1>3, <1>4, <1>5, <1>6

\* A session that goes on with its attempt was an owner already: only a session
\* that found the job unfinished passes the check at the start of execute.
LEMMA ContinuingExecutionKeepsOwnerInv ==
  ASSUME TypeInv, OwnerInv, NEW s \in Sessions, NEW j \in Jobs,
         \/ Begin(s, j) \/ Launch(s, j)
         \/ \E r \in Results, reaped \in Reaps : Collect(s, j, r, reaped)
  PROVE  OwnerInv'
  <1>0. {"RUNNING", "COLLECTING_RESULTS"} \subseteq Statuses /\ {"CLEANED", "FAILED"} \subseteq Cleanups
    BY DEF Statuses, Active, Cleanups
  <1>1. View(s, j) \in Row /\ sess[s].job = {j} /\ sess \in [Sessions -> SessionRec]
    BY ReadJob, Parts DEF Begin, Launch, Collect, At, On, HasRead
  <1>2. s \in Owners(j)
    <2>1. CASE Begin(s, j)
      <3>1. View(s, j).status \notin Terminal /\ sess[s].pc = "loaded"
        BY <1>1, <2>1 DEF Begin, MayMove, Targets, Terminal, At
      <3>2. QED
        BY <1>1, <3>1 DEF Owners, Holders, Holding, On
    <2>2. CASE Launch(s, j) \/ \E r \in Results, reaped \in Reaps : Collect(s, j, r, reaped)
      <3>1. sess[s].pc \in {"begun", "running"}
        BY <2>2 DEF Launch, Collect, At
      <3>2. s \in Holders(j)
        BY <1>1, <3>1 DEF Holders, Holding, On
      <3>3. QED
        BY <3>1, <3>2 DEF OwnerInv
    <2>3. QED
      BY <2>1, <2>2
  \* The common shape: a commit of an unfinished status, and a view of it.
  <1>3. ASSUME NEW new \in Row, new.status \in Active, NEW r, sess' = [sess EXCEPT ![s] = r],
               r.job = {j}, r.pc \in Holding, r.view[j] = new,
               Commit(s, j, new) \/ CommitLeased(s, j, new)
        PROVE  OwnerInv'
    <2>1. Owns(r, j) /\ \A i \in Jobs : Owns(r, i) => i = j
      BY <1>3 DEF Owns, Active, Terminal
    <2>2. new.status \notin Offered
      BY <1>3 DEF Active, Offered
    <2>3. \A i \in Jobs : ~disturbed'[i] =>
             /\ ~disturbed[i]
             /\ rows'[i].status \in Offered => rows[i].status \in Offered
      BY <1>1, <1>3, <2>2, CommitOffersNothing
    <2>4. \A i \in Jobs : r.job = {i} => i = j
      BY <1>3
    <2>5. QED
      BY <1>2, <1>3, <2>1, <2>3, <2>4, PlainStepKeepsOwnerInv
  <1>4. CASE Begin(s, j)
    <2> DEFINE new == Started(View(s, j))
               v == [i \in {j} |-> new]
               r == [sess[s] EXCEPT !.pc = "begun", !.view = v, !.number = new.attempts]
    <2>1. new \in Row /\ new.status = "STARTING"
      BY <1>1, RowValues DEF Started, Row
    <2>2. CommitLeased(s, j, new)
      BY <1>4 DEF Begin
    <2>3. sess' = [sess EXCEPT ![s].pc = "begun", ![s].view = v, ![s].number = new.attempts]
      BY <1>4 DEF Begin
    <2> HIDE DEF new
    <2>4. v[j] = new
      OBVIOUS
    <2> HIDE DEF v
    <2>5. sess' = [sess EXCEPT ![s] = r]
      BY <1>1, <2>3
    <2>6. r.job = {j} /\ r.pc = "begun" /\ r.view = v
      BY <1>1 DEF SessionRec
    <2> HIDE DEF r
    <2>7. QED
      BY <1>3, <2>1, <2>2, <2>4, <2>5, <2>6 DEF Active, Holding
  <1>5. CASE Launch(s, j)
    <2> DEFINE new == [View(s, j) EXCEPT !.status = "RUNNING", !.lease = TRUE]
               v == [i \in {j} |-> new]
               r == [sess[s] EXCEPT !.pc = "running", !.job = {j}, !.view = v]
    <2>1. new \in Row /\ new.status = "RUNNING"
      BY <1>0, <1>1, RowValues DEF Row
    <2>2. CommitLeased(s, j, new) /\ Keep(s, "running", j, new)
      BY <1>5 DEF Launch
    <2> HIDE DEF new
    <2>3. v[j] = new
      OBVIOUS
    <2>4. sess' = [sess EXCEPT ![s] = r]
      BY <2>2 DEF Keep
    <2> HIDE DEF v
    <2>5. r.job = {j} /\ r.pc = "running" /\ r.view = v
      BY <1>1 DEF SessionRec
    <2> HIDE DEF r
    <2>6. QED
      BY <1>3, <2>1, <2>2, <2>3, <2>4, <2>5 DEF Active, Holding
  <1>6. ASSUME NEW res \in Results, NEW reaped \in Reaps, Collect(s, j, res, reaped)
        PROVE  OwnerInv'
    <2> DEFINE new == [View(s, j) EXCEPT !.status = "COLLECTING_RESULTS",
                           !.cleanup = IF reaped THEN "CLEANED" ELSE "FAILED"]
               v == [i \in {j} |-> new]
               r == [sess[s] EXCEPT !.pc = "collected", !.view = v, !.result = res]
    <2>1. new \in Row /\ new.status = "COLLECTING_RESULTS"
      BY <1>0, <1>1, RowValues DEF Row
    <2>2. Commit(s, j, new)
      BY <1>6 DEF Collect
    <2>3. sess' = [sess EXCEPT ![s].pc = "collected", ![s].view = v, ![s].result = res]
      BY <1>6 DEF Collect
    <2> HIDE DEF new
    <2>4. v[j] = new
      OBVIOUS
    <2> HIDE DEF v
    <2>5. sess' = [sess EXCEPT ![s] = r]
      BY <1>1, <2>3
    <2>6. r.job = {j} /\ r.pc = "collected" /\ r.view = v
      BY <1>1 DEF SessionRec
    <2> HIDE DEF r
    <2>7. QED
      BY <1>3, <2>1, <2>2, <2>4, <2>5, <2>6 DEF Active, Holding
  <1>7. QED
    BY <1>4, <1>5, <1>6

\* The sweep puts a job back on offer; had the job an owner, it is disturbed.
LEMMA SweepKeepsOwnerInv ==
  ASSUME TypeInv, OwnerInv, NEW w \in Workers, Sweep(w)
  PROVE  OwnerInv'
  <1>0. w \in Sessions /\ sess \in [Sessions -> SessionRec]
    BY Parts DEF Sessions
  <1>1. CASE SweepSelect(w)
    <2> DEFINE v == [j \in {j \in Jobs : Stale(rows[j])} |-> rows[j]]
               r == [sess[w] EXCEPT !.pc = "sweeping", !.view = v]
    <2>1. sess' = [sess EXCEPT ![w].pc = "sweeping", ![w].view = v]
          /\ UNCHANGED <<rows, disturbed>>
      BY <1>1 DEF SweepSelect
    <2> HIDE DEF v
    <2>2. sess' = [sess EXCEPT ![w] = r]
      BY <1>0, <2>1
    <2>3. r.pc = "sweeping"
      BY <1>0 DEF SessionRec
    <2> HIDE DEF r
    <2>4. \A i \in Jobs : ~Owns(r, i)
      BY <2>3 DEF Owns, Holding
    <2>5. QED
      BY <1>0, <2>1, <2>2, <2>3, <2>4, PlainStepKeepsOwnerInv
  <1>2. CASE SweepCommit(w)
    <2> DEFINE view == sess[w].view
               r == Rest(w)
    <2>1. sess' = [sess EXCEPT ![w] = r] /\ r.pc \in {"idle", "done"}
      BY <1>0, <1>2, RestGood DEF SweepCommit, End
    <2> HIDE DEF r
    <2>2. \A i \in Jobs : ~Owns(r, i)
      BY <2>1 DEF Owns, Holding
    <2>3. \A j \in Jobs : disturbed'[j] = (disturbed[j] \/
                        (j \in DOMAIN view /\ (rows[j] # view[j] \/ Holders(j) # {})))
      BY <1>2 DEF SweepCommit
    <2>4. \A j \in Jobs \ DOMAIN view : rows'[j] = rows[j]
      BY <1>2 DEF SweepCommit
    <2>5. ASSUME NEW j \in Jobs, ~disturbed'[j], Owners(j)' # {}
          PROVE  rows'[j].status \notin Offered
      <3>1. Owners(j) # {}
        BY <1>0, <2>1, <2>2, <2>5, OwnersAfter, OwnersAre
      <3>2. Holders(j) # {}
        BY <3>1 DEF Owners
      <3>3. ~disturbed[j] /\ rows'[j] = rows[j]
        BY <2>3, <2>4, <2>5, <3>2
      <3>4. QED
        BY <3>1, <3>3 DEF OwnerInv, Offered
    <2>6. r.pc \notin {"begun", "running", "collected"}
      BY <2>1
    <2>7. \A j \in Jobs : ~disturbed'[j] => ~disturbed[j]
      BY <2>3
    <2>8. QED
      BY <1>0, <2>1, <2>2, <2>5, <2>6, <2>7, StepKeepsOwnerInv
  <1>3. QED
    BY <1>1, <1>2 DEF Sweep

LEMMA InitOwnerInv == Init => OwnerInv
  <1> SUFFICES ASSUME Init PROVE OwnerInv
    OBVIOUS
  <1>1. \A s \in Sessions : sess[s].pc = "idle"
    BY DEF Init, Rest
  <1>2. \A j \in Jobs : Holders(j) = {}
    BY <1>1 DEF Holders, Holding
  <1>3. QED
    BY <1>2 DEF OwnerInv, Owners

LEMMA NextOwnerInv == TypeInv /\ OwnerInv /\ [Next]_vars => OwnerInv'
  <1> SUFFICES ASSUME TypeInv, OwnerInv, [Next]_vars PROVE OwnerInv'
    OBVIOUS
  <1>1. ASSUME NEW s \in Sessions, Execute(s) PROVE OwnerInv'
    <2>1. CASE ExecuteReturns(s) \/ RecordConflict(s)
      BY <2>1, EndKeepsOwnerInv DEF ExecuteReturns, RecordConflict
    <2>2. QED
      BY <1>1, <2>1, EndingExecutionKeepsOwnerInv, ContinuingExecutionKeepsOwnerInv DEF Execute
  <1>2. ASSUME NEW s \in Sessions, Crash(s) PROVE OwnerInv'
    BY <1>2, EndKeepsOwnerInv DEF Crash
  <1>3. CASE UNCHANGED vars
    <2>1. \A j \in Jobs : Owners(j)' = Owners(j) /\ Holders(j)' = Holders(j)
      BY <1>3 DEF vars, Owners, Holders, On, At, View
    <2>2. QED
      BY <1>3, <2>1 DEF vars, OwnerInv
  <1>4. QED
    BY <1>1, <1>2, <1>3, RequestKeepsOwnerInv, ClaimKeepsOwnerInv, SweepKeepsOwnerInv DEF Next

LEMMA OwnerInvGivesRunsAlone == OwnerInv => RunsAlone
  <1> SUFFICES ASSUME OwnerInv, NEW j \in Jobs, ~disturbed[j]
               PROVE  Cardinality(Runners(j)) <= 1
    BY DEF RunsAlone
  <1>1. Runners(j) \subseteq Owners(j)
    BY DEF OwnerInv, Runners, Holders, Holding
  <1>2. \A s, t \in Runners(j) : s = t
    BY <1>1 DEF OwnerInv
  <1>3. CASE Runners(j) = {}
    BY <1>3, FS_EmptySet
  <1>4. CASE Runners(j) # {}
    <2>1. PICK s : Runners(j) = {s}
      BY <1>2, <1>4
    <2>2. Cardinality({s}) = 1
      BY FS_Singleton, Zenon
    <2>3. Cardinality(Runners(j)) = 1
      BY <2>1, <2>2, Zenon
    <2>4. QED
      BY <2>3
  <1>5. QED
    BY <1>3, <1>4

\* However many workers, requests and crashes: as long as nothing the code does
\* not guard against has happened to a job, one session at a time runs an attempt
\* of it (claim_job, ExecutionOrchestrator.execute).
THEOREM UndisturbedJobRunsAlone == Spec => [](OwnerInv /\ RunsAlone)
  <1>1. Spec => [](TypeInv /\ OwnerInv)
    BY InitTypeInv, NextTypeInv, InitOwnerInv, NextOwnerInv, PTL DEF Spec
  <1>2. QED
    BY <1>1, OwnerInvGivesRunsAlone, PTL

-----------------------------------------------------------------------------
(* What becomes of an undisturbed job, however many crashes: it has no more *)
(* attempts than it may, the sweep can see it while it is unfinished, and   *)
(* once it has ended it stays ended.                                        *)

Waiting == {"ABSENT", "CREATED", "QUEUED"}

Unfinished == Active \cup {"CANCEL_REQUESTED"}

\* What a session's view says by the phase it is in.
Informed(r) ==
    /\ \A j \in r.job :
          /\ r.pc = "begun" => r.view[j].status = "STARTING" /\ r.view[j].lease = TRUE
          /\ r.pc = "running" => r.view[j].status = "RUNNING" /\ r.view[j].lease = TRUE
          /\ r.pc = "collected" => r.view[j].status = "COLLECTING_RESULTS"
          /\ r.pc = "cancelling" => r.view[j].status # "ABSENT"
    /\ r.pc = "sweeping" => \A j \in DOMAIN r.view : Stale(r.view[j])

\* Attempts are left to whoever may still take one.
AttemptInv ==
    \A j \in Jobs : ~disturbed[j] =>
        /\ rows[j].attempts <= MaxAttempts
        /\ rows[j].status \in Waiting => rows[j].attempts < MaxAttempts
        /\ \A s \in Owners(j) : sess[s].pc \in {"claimed", "loaded"} => rows[j].attempts < MaxAttempts

RecoveryInv ==
    /\ \A s \in Sessions : Informed(sess[s])
    /\ AttemptInv
    /\ UnfinishedIsSweepable

\* A change of an undisturbed row.
Moves(old, new) ==
    /\ old.status \notin Terminal
    /\ new.status \in Unfinished => new.lease = TRUE
    /\ new.status \in Waiting => new.attempts < MaxAttempts
    /\ new.attempts <= MaxAttempts

StaysEnded ==
    \A j \in Jobs : ~disturbed'[j] /\ rows[j].status \in Terminal => rows'[j].status = rows[j].status

\* What a step of session s must show of the rows, and of the record r it is left with.
RowsFollow(s) ==
    \A j \in Jobs : ~disturbed'[j] =>
        /\ ~disturbed[j]
        /\ rows'[j] = rows[j] \/ Moves(rows[j], rows'[j])
        /\ rows'[j].attempts <= rows[j].attempts \/ s \in Owners(j)

Entitled(r) ==
    \A j \in Jobs : ~disturbed'[j] /\ Owns(r, j) /\ r.pc \in {"claimed", "loaded"} =>
        rows'[j].attempts < MaxAttempts

LEMMA StepKeepsRecoveryInv ==
  ASSUME TypeInv, TypeInv', OwnerInv, RecoveryInv, NEW s \in Sessions, NEW r,
         sess' = [sess EXCEPT ![s] = r], Informed(r), RowsFollow(s), Entitled(r)
  PROVE  RecoveryInv' /\ StaysEnded
  <1>0. /\ \A t \in Sessions : sess'[t] = IF t = s THEN r ELSE sess[t]
        /\ \A j \in Jobs : /\ rows[j].attempts \in Nat /\ rows'[j].attempts \in Nat
                           /\ disturbed[j] \in BOOLEAN
        /\ MaxAttempts \in Nat
    <2>1. rows' \in [Jobs -> Row]
      BY DEF TypeInv
    <2> QED
      BY <2>1, Parts, ExecutionQueueAssumption DEF Row, ExecutionQueueAssumption
  <1>1. \A t \in Sessions : Informed(sess'[t])
    BY <1>0 DEF RecoveryInv
  <1>2. ASSUME NEW j \in Jobs, ~disturbed'[j]
        PROVE  /\ rows'[j].attempts <= MaxAttempts
               /\ rows'[j].status \in Waiting => rows'[j].attempts < MaxAttempts
               /\ rows'[j].status \in Unfinished => rows'[j].lease
               /\ rows[j].status \in Terminal => rows'[j].status = rows[j].status
    BY <1>2 DEF RowsFollow, RecoveryInv, AttemptInv, UnfinishedIsSweepable, Moves, Unfinished
  <1>3. ASSUME NEW j \in Jobs, ~disturbed'[j], NEW t \in Owners(j)',
               sess'[t].pc \in {"claimed", "loaded"}
        PROVE  rows'[j].attempts < MaxAttempts
    <2>1. t \in Sessions /\ Owners(j) \subseteq Sessions
      BY <1>3, OwnersAre
    <2>2. CASE t = s
      BY <1>0, <1>3, <2>1, <2>2, OwnersAfter DEF Entitled
    <2>3. CASE t # s
      <3>1. t \in Owners(j) /\ sess'[t] = sess[t]
        BY <1>0, <1>3, <2>1, <2>3, OwnersAfter
      <3>2. ~disturbed[j] /\ (rows'[j].attempts <= rows[j].attempts \/ s \in Owners(j))
        BY <1>3 DEF RowsFollow
      <3>3. s \notin Owners(j)
        BY <2>3, <3>1, <3>2 DEF OwnerInv
      <3>4. rows[j].attempts < MaxAttempts
        BY <1>3, <3>1, <3>2 DEF RecoveryInv, AttemptInv
      <3> QED
        BY <1>0, <3>2, <3>3, <3>4
    <2> QED
      BY <2>2, <2>3
  <1>4. AttemptInv'
    BY <1>2, <1>3 DEF AttemptInv
  <1>5. UnfinishedIsSweepable'
    BY <1>2 DEF UnfinishedIsSweepable, Unfinished
  <1>6. StaysEnded
    BY <1>2 DEF StaysEnded
  <1> QED
    BY <1>1, <1>4, <1>5, <1>6 DEF RecoveryInv

\* A session that ends has nothing to answer for but the rows.
LEMMA EndKeepsRecoveryInv ==
  ASSUME TypeInv, TypeInv', OwnerInv, RecoveryInv, NEW s \in Sessions, End(s), RowsFollow(s)
  PROVE  RecoveryInv' /\ StaysEnded
  <1> DEFINE r == Rest(s)
  <1>1. sess' = [sess EXCEPT ![s] = r] /\ r.pc \in {"idle", "done"} /\ r.job = {}
    BY RestGood DEF End
  <1> HIDE DEF r
  <1>2. Informed(r) /\ Entitled(r)
    BY <1>1 DEF Informed, Entitled
  <1> QED
    BY <1>1, <1>2, StepKeepsRecoveryInv

LEMMA SameRows ==
  ASSUME TypeInv, NEW s \in Sessions, UNCHANGED <<rows, disturbed>>
  PROVE  RowsFollow(s)
  <1>1. \A j \in Jobs : rows[j].attempts \in Nat
    BY Parts DEF Row
  <1> QED
    BY <1>1 DEF RowsFollow

-----------------------------------------------------------------------------
(* Commits.                                                                *)

LEMMA FlushOfCurrent ==
  ASSUME NEW row \in Row, NEW new \in Row
  PROVE  Flush(row, row, new) = new
  <1> DEFINE f == Flush(row, row, new)
  <1>1. f \in Row /\ \A c \in {"status", "attempts", "lease", "cleanup", "lock"} : f[c] = new[c]
    BY FlushType
  <1> HIDE DEF f
  <1>2. f = new
    BY <1>1 DEF Row
  <1> QED
    BY <1>2 DEF f

\* A commit that leaves the job undisturbed writes what the session computed.
LEMMA UndisturbedCommit ==
  ASSUME TypeInv, NEW s \in Sessions, NEW j \in Jobs, NEW new \in Row,
         Commit(s, j, new) \/ (CommitLeased(s, j, new) /\ new.lease = TRUE),
         ~disturbed'[j]
  PROVE  ~disturbed[j] /\ rows[j] = View(s, j) /\ rows'[j] = new
  <1>1. disturbed' = [disturbed EXCEPT ![j] = disturbed[j] \/ rows[j] # View(s, j)]
    BY DEF Commit, CommitLeased
  <1>2. ~disturbed[j] /\ rows[j] = View(s, j)
    BY <1>1, Parts
  <1>3. rows[j] \in Row
    BY Parts
  <1>4. Flush(rows[j], View(s, j), new) = new
    BY <1>2, <1>3, FlushOfCurrent
  <1>5. new.lease = TRUE => [new EXCEPT !.lease = TRUE] = new
    BY DEF Row
  <1>6. rows' = [rows EXCEPT ![j] = new]
    BY <1>4, <1>5 DEF Commit, CommitLeased
  <1> QED
    BY <1>2, <1>6, Parts

LEMMA CommitFollows ==
  ASSUME TypeInv, NEW s \in Sessions, NEW j \in Jobs, NEW new \in Row,
         Commit(s, j, new) \/ (CommitLeased(s, j, new) /\ new.lease = TRUE),
         ~disturbed[j] /\ rows[j] = View(s, j) =>
             Moves(rows[j], new) /\ (new.attempts <= rows[j].attempts \/ s \in Owners(j))
  PROVE  RowsFollow(s)
  <1>1. /\ \A i \in Jobs : rows[i].attempts \in Nat
        /\ \A i \in Jobs \ {j} : rows'[i] = rows[i] /\ disturbed'[i] = disturbed[i]
    BY Parts DEF Row, Commit, CommitLeased
  <1>2. ASSUME ~disturbed'[j]
        PROVE  /\ ~disturbed[j] /\ Moves(rows[j], rows'[j])
               /\ rows'[j].attempts <= rows[j].attempts \/ s \in Owners(j)
    BY <1>2, UndisturbedCommit
  <1> QED
    BY <1>1, <1>2 DEF RowsFollow

-----------------------------------------------------------------------------
(* The steps.                                                              *)

\* What a session keeps when it reads a row.
LEMMA Kept ==
  ASSUME TypeInv, NEW s \in Sessions, NEW pc, NEW j \in Jobs, NEW row, Keep(s, pc, j, row)
  PROVE  \E r : /\ sess' = [sess EXCEPT ![s] = r]
               /\ r.pc = pc /\ r.job = {j} /\ r.view[j] = row
  <1> DEFINE v == [i \in {j} |-> row]
             r == [sess[s] EXCEPT !.pc = pc, !.job = {j}, !.view = v]
  <1>1. sess' = [sess EXCEPT ![s] = r] /\ sess[s] \in SessionRec
    BY Parts DEF Keep
  <1>2. v[j] = row
    OBVIOUS
  <1> HIDE DEF v
  <1>3. r.pc = pc /\ r.job = {j} /\ r.view = v
    BY <1>1 DEF SessionRec
  <1> HIDE DEF r
  <1> QED
    BY <1>1, <1>2, <1>3

LEMMA SubmitRecovers ==
  ASSUME TypeInv, TypeInv', OwnerInv, RecoveryInv, NEW c \in Clients, NEW j \in Jobs,
         SubmitQueued(c, j) \/ SubmitInline(c, j) \/ SubmitAgain(c, j)
  PROVE  RecoveryInv' /\ StaysEnded
  <1>0. c \in Sessions /\ rows[j] \in Row /\ rows \in [Jobs -> Row] /\ disturbed \in [Jobs -> BOOLEAN]
        /\ \A i \in Jobs : rows[i].attempts \in Nat
    BY Parts DEF Sessions, Row
  <1>1. ASSUME NEW status \in {"QUEUED", "CREATED"}, rows[j].status = "ABSENT",
               rows' = [rows EXCEPT ![j].status = status], UNCHANGED disturbed
        PROVE  /\ RowsFollow(c) /\ rows'[j].status = status
               /\ ~disturbed[j] => rows'[j].attempts < MaxAttempts
    <2>1. rows'[j].status = status /\ rows'[j].attempts = rows[j].attempts
          /\ \A i \in Jobs \ {j} : rows'[i] = rows[i]
      BY <1>0, <1>1 DEF Row
    <2>2. ~disturbed[j] => rows[j].attempts < MaxAttempts /\ rows[j].attempts <= MaxAttempts
      BY <1>1 DEF RecoveryInv, AttemptInv, Waiting
    <2>3. ~disturbed[j] => Moves(rows[j], rows'[j])
      BY <1>1, <2>1, <2>2 DEF Moves, Terminal, Unfinished, Active
    <2> QED
      BY <1>0, <1>1, <2>1, <2>2, <2>3 DEF RowsFollow
  <1>2. CASE SubmitQueued(c, j)
    BY <1>0, <1>1, <1>2, EndKeepsRecoveryInv DEF SubmitQueued
  <1>3. CASE SubmitInline(c, j)
    <2>1. RowsFollow(c) /\ (~disturbed[j] => rows'[j].attempts < MaxAttempts) /\ UNCHANGED disturbed
      BY <1>1, <1>3 DEF SubmitInline
    <2>2. PICK r : /\ sess' = [sess EXCEPT ![c] = r]
                   /\ r.pc = "loaded" /\ r.job = {j} /\ r.view[j] = rows'[j]
      <3> DEFINE u == [i \in {j} |-> rows'[j]]
                 q == [sess[c] EXCEPT !.pc = "loaded", !.job = {j}, !.view = u]
      <3>1. sess' = [sess EXCEPT ![c] = q] /\ sess[c] \in SessionRec
        BY <1>0, <1>3, Parts DEF SubmitInline, Keep
      <3>2. u[j] = rows'[j]
        OBVIOUS
      <3> HIDE DEF u
      <3>3. q.pc = "loaded" /\ q.job = {j} /\ q.view = u
        BY <3>1 DEF SessionRec
      <3> HIDE DEF q
      <3> QED
        BY <3>1, <3>2, <3>3
    <2>3. Informed(r)
      BY <2>2 DEF Informed
    <2>4. Entitled(r)
      BY <2>1, <2>2 DEF Entitled, Owns
    <2> QED
      BY <1>0, <2>1, <2>2, <2>3, <2>4, StepKeepsRecoveryInv
  <1>4. CASE SubmitAgain(c, j)
    <2>1. disturbed' = [disturbed EXCEPT ![j] = disturbed[j] \/ rows[j].status \notin Terminal]
          /\ UNCHANGED rows
      BY <1>4 DEF SubmitAgain
    <2>2. PICK r : /\ sess' = [sess EXCEPT ![c] = r]
                   /\ r.pc = "loaded" /\ r.job = {j} /\ r.view[j] = rows[j]
      <3>1. Keep(c, "loaded", j, rows[j]) /\ c \in Sessions
        BY <1>0, <1>4 DEF SubmitAgain
      <3> QED
        BY <3>1, Kept
    <2>3. Informed(r)
      BY <2>2 DEF Informed
    <2>4. ~disturbed'[j] => ~disturbed[j] /\ rows[j].status \in Terminal
      BY <1>0, <2>1
    <2>5. \A i \in Jobs \ {j} : disturbed'[i] = disturbed[i]
      BY <1>0, <2>1
    <2>6. RowsFollow(c)
      BY <1>0, <2>1, <2>4, <2>5 DEF RowsFollow
    <2>7. Entitled(r)
      BY <2>2, <2>4 DEF Entitled, Owns
    <2> QED
      BY <1>0, <2>2, <2>3, <2>6, <2>7, StepKeepsRecoveryInv
  <1> QED
    BY <1>2, <1>3, <1>4

LEMMA CancelRecovers ==
  ASSUME TypeInv, TypeInv', OwnerInv, RecoveryInv, NEW c \in Clients, NEW j \in Jobs,
         CancelLoad(c, j) \/ CancelWrite(c, j)
  PROVE  RecoveryInv' /\ StaysEnded
  <1>0. c \in Sessions
    BY DEF Sessions
  <1>1. CASE CancelLoad(c, j)
    <2>1. rows[j].status # "ABSENT" /\ UNCHANGED <<rows, disturbed>>
      BY <1>1 DEF CancelLoad
    <2>2. PICK r : /\ sess' = [sess EXCEPT ![c] = r]
                   /\ r.pc = "cancelling" /\ r.job = {j} /\ r.view[j] = rows[j]
      BY <1>0, <1>1, Kept DEF CancelLoad
    <2>3. Informed(r) /\ Entitled(r)
      BY <2>1, <2>2 DEF Informed, Entitled
    <2> QED
      BY <1>0, <2>1, <2>2, <2>3, SameRows, StepKeepsRecoveryInv
  \* What is cancelled while a session has it had a lease, and keeps it.
  <1>2. CASE CancelWrite(c, j)
    <2> DEFINE v == View(c, j)
               new == IF v.status \in {"QUEUED", "CREATED"}
                      THEN [v EXCEPT !.status = "CANCELLED", !.cleanup = Skipped(v.cleanup)]
                      ELSE [v EXCEPT !.status = "CANCEL_REQUESTED"]
    <2>1. v \in Row
      BY <1>0, <1>2, ReadJob DEF CancelWrite, At, HasRead
    <2>2. {"CANCELLED", "CANCEL_REQUESTED"} \subseteq Statuses
      BY DEF Statuses, Terminal
    <2>3. new \in Row
      BY <2>1, <2>2, RowValues
    <2>4. Commit(c, j, new) /\ End(c) /\ v.status \notin Terminal
      BY <1>2 DEF CancelWrite
    <2>5. v.status # "ABSENT"
      BY <1>0, <1>2 DEF CancelWrite, At, On, View, RecoveryInv, Informed
    <2>6. new.attempts = v.attempts /\ new.lease = v.lease /\ v.attempts \in Nat
          /\ (new.status = "CANCELLED" \/ new.status = "CANCEL_REQUESTED")
          /\ (new.status = "CANCEL_REQUESTED" => v.status \notin {"QUEUED", "CREATED"})
      BY <2>1 DEF Row
    <2> HIDE DEF new
    <2>7. v.status \in Statuses
      BY <2>1 DEF Row
    <2>8. ASSUME ~disturbed[j], rows[j] = v
          PROVE  Moves(rows[j], new) /\ new.attempts <= rows[j].attempts
      <3>1. rows[j].attempts <= MaxAttempts
        BY <2>8 DEF RecoveryInv, AttemptInv
      <3>2. new.status = "CANCEL_REQUESTED" => v.status \in Active \cup {"CANCEL_REQUESTED"}
        BY <2>4, <2>5, <2>6, <2>7 DEF Statuses
      <3>3. new.status = "CANCEL_REQUESTED" => new.lease = TRUE
        <4>1. new.status = "CANCEL_REQUESTED" => v.lease = TRUE
          BY <2>8, <3>2 DEF RecoveryInv, UnfinishedIsSweepable
        <4> QED
          BY <2>6, <4>1
      <3>4. new.status \notin Waiting \cup Active
        BY <2>6 DEF Waiting, Active
      <3> QED
        BY <2>4, <2>6, <2>8, <3>1, <3>3, <3>4 DEF Moves, Unfinished
    <2>9. RowsFollow(c)
      BY <1>0, <2>3, <2>4, <2>8, CommitFollows
    <2> QED
      BY <1>0, <2>4, <2>9, EndKeepsRecoveryInv
  <1> QED
    BY <1>1, <1>2

LEMMA ClaimRecovers ==
  ASSUME TypeInv, TypeInv', OwnerInv, RecoveryInv, NEW w \in Workers, NEW j \in Jobs,
         ClaimSelect(w, j) \/ ClaimUpdate(w, j) \/ ClaimRefresh(w, j)
  PROVE  RecoveryInv' /\ StaysEnded
  <1>0. w \in Sessions /\ sess[w] \in SessionRec /\ rows \in [Jobs -> Row] /\ rows[j] \in Row
        /\ sess \in [Sessions -> SessionRec] /\ \A i \in Jobs : rows[i].attempts \in Nat
    BY Parts DEF Sessions, Row
  <1>1. CASE ClaimSelect(w, j)
    <2> DEFINE r == [sess[w] EXCEPT !.pc = "picked", !.job = {j}]
    <2>1. sess' = [sess EXCEPT ![w] = r] /\ UNCHANGED <<rows, disturbed>>
      BY <1>0, <1>1 DEF ClaimSelect
    <2>2. r.pc = "picked" /\ r.job = {j}
      BY <1>0 DEF SessionRec
    <2> HIDE DEF r
    <2>3. Informed(r) /\ Entitled(r)
      BY <2>2 DEF Informed, Entitled
    <2> QED
      BY <1>0, <2>1, <2>3, SameRows, StepKeepsRecoveryInv
  <1>2. CASE ClaimUpdate(w, j)
    <2> DEFINE r == [sess[w] EXCEPT !.pc = "claimed"]
    <2>1. sess' = [sess EXCEPT ![w] = r] /\ UNCHANGED disturbed /\ sess[w].job = {j}
          /\ rows[j].status = "QUEUED" /\ rows' = [rows EXCEPT ![j] = Claimed(rows[j])]
      BY <1>0, <1>2 DEF ClaimUpdate, On
    <2>2. r.pc = "claimed" /\ r.job = {j}
      BY <1>0, <2>1 DEF SessionRec
    <2> HIDE DEF r
    <2>3. rows'[j].status = "STARTING" /\ rows'[j].attempts = rows[j].attempts
          /\ rows'[j].lease = TRUE /\ \A i \in Jobs \ {j} : rows'[i] = rows[i]
      BY <1>0, <2>1 DEF Claimed, Row
    <2>4. ~disturbed[j] => rows[j].attempts < MaxAttempts /\ rows[j].attempts <= MaxAttempts
      BY <2>1 DEF RecoveryInv, AttemptInv, Waiting
    <2>5. ~disturbed[j] => Moves(rows[j], rows'[j])
      BY <2>1, <2>3, <2>4 DEF Moves, Terminal, Waiting
    <2>6. RowsFollow(w)
      BY <1>0, <2>1, <2>3, <2>5 DEF RowsFollow
    <2>7. Informed(r)
      BY <2>2 DEF Informed
    <2>8. Entitled(r)
      BY <2>1, <2>2, <2>3, <2>4 DEF Entitled, Owns
    <2> QED
      BY <1>0, <2>1, <2>6, <2>7, <2>8, StepKeepsRecoveryInv
  <1>3. CASE ClaimRefresh(w, j)
    <2>1. UNCHANGED <<rows, disturbed>> /\ sess[w].pc = "claimed" /\ sess[w].job = {j}
      BY <1>3 DEF ClaimRefresh, At, On
    <2>2. PICK r : /\ sess' = [sess EXCEPT ![w] = r]
                   /\ r.pc = "loaded" /\ r.job = {j} /\ r.view[j] = rows[j]
      <3>1. Keep(w, "loaded", j, rows[j]) /\ w \in Sessions
        BY <1>0, <1>3 DEF ClaimRefresh
      <3> QED
        BY <3>1, Kept
    <2>3. w \in Owners(j)
      BY <1>0, <2>1, OwnersAre DEF Owns, Holding
    <2>4. ~disturbed[j] => rows[j].attempts < MaxAttempts
      BY <2>1, <2>3 DEF RecoveryInv, AttemptInv
    <2>5. Informed(r)
      BY <2>2 DEF Informed
    <2>6. Entitled(r)
      BY <2>1, <2>2, <2>4 DEF Entitled, Owns
    <2> QED
      BY <1>0, <2>1, <2>2, <2>5, <2>6, SameRows, StepKeepsRecoveryInv
  <1> QED
    BY <1>1, <1>2, <1>3

\* The last commit of an execution: from a status that has not ended to one that has.
LEMMA EndingRecovers ==
  ASSUME TypeInv, TypeInv', OwnerInv, RecoveryInv, NEW s \in Sessions, NEW j \in Jobs,
         \/ ExecuteCancel(s, j) \/ Reject(s, j) \/ Finalise(s, j)
         \/ \E r \in Duds : CollectBare(s, j, r)
  PROVE  RecoveryInv' /\ StaysEnded
  <1> DEFINE v == View(s, j)
  <1>0. {"CANCELLED", "REJECTED"} \cup Results \cup Duds \subseteq Terminal
        /\ "SKIPPED" \in Cleanups /\ Terminal \subseteq Statuses
        /\ Terminal \cap (Waiting \cup Unfinished) = {}
    BY ExecutionQueueAssumption
    DEF ExecutionQueueAssumption, Statuses, Terminal, Cleanups, Waiting, Unfinished, Active
  <1>1. v \in Row /\ v.attempts \in Nat
    BY ReadJob DEF ExecuteCancel, Reject, Finalise, CollectBare, At, HasRead, Row
  <1>2. ASSUME NEW status \in Terminal, NEW new \in Row, new.status = status,
               new.attempts = v.attempts, v.status \notin Terminal, Commit(s, j, new), End(s)
        PROVE  RecoveryInv' /\ StaysEnded
    <2>1. ASSUME ~disturbed[j], rows[j] = v
          PROVE  Moves(rows[j], new) /\ new.attempts <= rows[j].attempts
      <3>1. rows[j].attempts <= MaxAttempts
        BY <2>1 DEF RecoveryInv, AttemptInv
      <3> QED
        BY <1>0, <1>1, <1>2, <2>1, <3>1 DEF Moves
    <2>2. RowsFollow(s)
      BY <1>2, <2>1, CommitFollows
    <2> QED
      BY <1>2, <2>2, EndKeepsRecoveryInv
  <1>3. CASE ExecuteCancel(s, j)
    <2> DEFINE new == [v EXCEPT !.status = "CANCELLED", !.cleanup = Skipped(v.cleanup)]
    <2>1. new \in Row /\ new.status = "CANCELLED" /\ new.attempts = v.attempts
      BY <1>0, <1>1, RowValues DEF Row
    <2>2. Commit(s, j, new) /\ End(s) /\ v.status \notin Terminal
      BY <1>3 DEF ExecuteCancel, Terminal
    <2> HIDE DEF new
    <2> QED
      BY <1>0, <1>2, <2>1, <2>2
  <1>4. CASE Reject(s, j)
    <2> DEFINE new == [v EXCEPT !.status = "REJECTED", !.cleanup = "SKIPPED"]
    <2>1. new \in Row /\ new.status = "REJECTED" /\ new.attempts = v.attempts
      BY <1>0, <1>1, RowValues DEF Row
    <2>2. Commit(s, j, new) /\ End(s) /\ v.status \notin Terminal
      BY <1>4 DEF Reject
    <2> HIDE DEF new
    <2> QED
      BY <1>0, <1>2, <2>1, <2>2
  <1>5. CASE Finalise(s, j)
    <2> DEFINE new == [v EXCEPT !.status = sess[s].result, !.lease = FALSE]
    <2>1. sess[s].result \in Results
      BY <1>5, Parts DEF GoodSession, Finalise, At
    <2>2. new \in Row /\ new.status = sess[s].result /\ new.attempts = v.attempts
      BY <1>0, <1>1, <2>1, RowValues DEF Row
    <2>3. Commit(s, j, new) /\ End(s)
      BY <1>5 DEF Finalise
    <2>4. v.status = "COLLECTING_RESULTS"
      BY <1>5 DEF Finalise, At, On, View, RecoveryInv, Informed
    <2> HIDE DEF new
    <2> QED
      BY <1>0, <1>2, <2>1, <2>2, <2>3, <2>4 DEF Terminal
  <1>6. ASSUME NEW r \in Duds, CollectBare(s, j, r) PROVE RecoveryInv' /\ StaysEnded
    <2> DEFINE new == [v EXCEPT !.status = r, !.cleanup = "SKIPPED", !.lease = FALSE]
    <2>1. new \in Row /\ new.status = r /\ new.attempts = v.attempts
      BY <1>0, <1>1, RowValues DEF Row
    <2>2. Commit(s, j, new) /\ End(s)
      BY <1>6 DEF CollectBare
    <2>3. v.status = "RUNNING"
      BY <1>6 DEF CollectBare, At, On, View, RecoveryInv, Informed
    <2> HIDE DEF new
    <2> QED
      BY <1>0, <1>2, <2>1, <2>2, <2>3 DEF Terminal
  <1> QED
    BY <1>3, <1>4, <1>5, <1>6

\* A phase of an execution: its commit holds the lease, and only Begin counts an
\* attempt, for an owner that is entitled to one.
LEMMA ContinuingRecovers ==
  ASSUME TypeInv, TypeInv', OwnerInv, RecoveryInv, NEW s \in Sessions, NEW j \in Jobs,
         \/ Begin(s, j) \/ Launch(s, j)
         \/ \E r \in Results, reaped \in Reaps : Collect(s, j, r, reaped)
  PROVE  RecoveryInv' /\ StaysEnded
  <1> DEFINE v == View(s, j)
  <1>0. {"RUNNING", "COLLECTING_RESULTS"} \subseteq Statuses /\ {"CLEANED", "FAILED"} \subseteq Cleanups
    BY DEF Statuses, Active, Cleanups
  <1>1. v \in Row /\ v.attempts \in Nat /\ sess[s].job = {j} /\ sess[s] \in SessionRec
        /\ sess \in [Sessions -> SessionRec] /\ MaxAttempts \in Nat
    BY ReadJob, Parts, ExecutionQueueAssumption
    DEF Begin, Launch, Collect, At, On, HasRead, Row, ExecutionQueueAssumption
  <1>2. ASSUME NEW new \in Row, new.status \in Active, new.lease = TRUE, v.status \notin Terminal,
               Commit(s, j, new) \/ CommitLeased(s, j, new),
               ~disturbed[j] /\ rows[j] = v =>
                   /\ new.attempts <= MaxAttempts
                   /\ new.attempts <= v.attempts \/ s \in Owners(j),
               NEW r, sess' = [sess EXCEPT ![s] = r], Informed(r),
               r.pc \notin {"claimed", "loaded"}
        PROVE  RecoveryInv' /\ StaysEnded
    <2>1. ~disturbed[j] /\ rows[j] = v =>
             Moves(rows[j], new) /\ (new.attempts <= rows[j].attempts \/ s \in Owners(j))
      BY <1>2 DEF Moves, Active, Waiting
    <2>2. RowsFollow(s)
      BY <1>2, <2>1, CommitFollows
    <2>3. Entitled(r)
      BY <1>2 DEF Entitled
    <2> QED
      BY <1>2, <2>2, <2>3, StepKeepsRecoveryInv
  <1>3. CASE Begin(s, j)
    <2> DEFINE new == Started(v)
               u == [i \in {j} |-> new]
               r == [sess[s] EXCEPT !.pc = "begun", !.view = u, !.number = new.attempts]
    <2>1. new \in Row /\ new.status = "STARTING" /\ new.lease = TRUE /\ new.attempts = v.attempts + 1
      BY <1>1, RowValues DEF Started, Row
    <2>2. CommitLeased(s, j, new) /\ MayMove(v.status, "STARTING") /\ sess[s].pc = "loaded"
      BY <1>3 DEF Begin, At
    <2>3. sess' = [sess EXCEPT ![s].pc = "begun", ![s].view = u, ![s].number = new.attempts]
      BY <1>3 DEF Begin
    <2>4. u[j] = new
      OBVIOUS
    <2> HIDE DEF new, u
    <2>5. sess' = [sess EXCEPT ![s] = r]
      BY <1>1, <2>3
    <2>6. r.job = {j} /\ r.pc = "begun" /\ r.view = u
      BY <1>1 DEF SessionRec
    <2> HIDE DEF r
    <2>7. v.status \notin Terminal
      BY <2>2 DEF MayMove, Targets, Terminal
    <2>8. s \in Owners(j)
      BY <1>1, <2>2, <2>7 DEF Owners, Holders, Holding, On
    <2>9. ~disturbed[j] /\ rows[j] = v => new.attempts <= MaxAttempts
      BY <1>1, <2>1, <2>2, <2>8 DEF RecoveryInv, AttemptInv
    <2>10. Informed(r)
      BY <2>1, <2>4, <2>6 DEF Informed
    <2> QED
      BY <1>2, <2>1, <2>2, <2>5, <2>6, <2>7, <2>8, <2>9, <2>10 DEF Active
  <1>4. ASSUME NEW new \in Row, new.attempts = v.attempts, ~disturbed[j], rows[j] = v
        PROVE  new.attempts <= MaxAttempts /\ new.attempts <= v.attempts
    BY <1>1, <1>4 DEF RecoveryInv, AttemptInv
  <1>5. CASE Launch(s, j)
    <2> DEFINE new == [v EXCEPT !.status = "RUNNING", !.lease = TRUE]
    <2>1. new \in Row /\ new.status = "RUNNING" /\ new.lease = TRUE /\ new.attempts = v.attempts
      BY <1>0, <1>1, RowValues DEF Row
    <2>2. CommitLeased(s, j, new) /\ Keep(s, "running", j, new)
      BY <1>5 DEF Launch
    <2>3. v.status = "STARTING"
      BY <1>1, <1>5 DEF Launch, At, View, RecoveryInv, Informed
    <2> HIDE DEF new
    <2> DEFINE u == [i \in {j} |-> new]
               r == [sess[s] EXCEPT !.pc = "running", !.job = {j}, !.view = u]
    <2>4. sess' = [sess EXCEPT ![s] = r] /\ r.pc = "running" /\ r.job = {j} /\ r.view[j] = new
      <3>1. sess' = [sess EXCEPT ![s] = r]
        BY <2>2 DEF Keep
      <3>2. u[j] = new
        OBVIOUS
      <3> HIDE DEF u
      <3> QED
        BY <1>1, <3>1, <3>2 DEF SessionRec
    <2> HIDE DEF r
    <2>5. Informed(r)
      BY <2>1, <2>4 DEF Informed
    <2> QED
      BY <1>2, <1>4, <2>1, <2>2, <2>3, <2>4, <2>5 DEF Active, Terminal
  <1>6. ASSUME NEW res \in Results, NEW reaped \in Reaps, Collect(s, j, res, reaped)
        PROVE  RecoveryInv' /\ StaysEnded
    <2> DEFINE cleanup == IF reaped THEN "CLEANED" ELSE "FAILED"
               new == [v EXCEPT !.status = "COLLECTING_RESULTS", !.cleanup = cleanup]
               u == [i \in {j} |-> new]
               r == [sess[s] EXCEPT !.pc = "collected", !.view = u, !.result = res]
    <2>1. v.status = "RUNNING" /\ v.lease = TRUE
      BY <1>1, <1>6 DEF Collect, At, View, RecoveryInv, Informed
    <2>2. cleanup \in Cleanups
      BY <1>0
    <2>3. Commit(s, j, new)
          /\ sess' = [sess EXCEPT ![s].pc = "collected", ![s].view = u, ![s].result = res]
      BY <1>6 DEF Collect
    <2> HIDE DEF cleanup
    <2>4. new \in Row /\ new.status = "COLLECTING_RESULTS" /\ new.attempts = v.attempts
          /\ new.lease = TRUE
      BY <1>0, <1>1, <2>1, <2>2, RowValues DEF Row
    <2>5. u[j] = new
      OBVIOUS
    <2> HIDE DEF new, u
    <2>6. sess' = [sess EXCEPT ![s] = r]
      BY <1>1, <2>3
    <2>7. r.job = {j} /\ r.pc = "collected" /\ r.view = u
      BY <1>1 DEF SessionRec
    <2> HIDE DEF r
    <2>8. Informed(r)
      BY <2>4, <2>5, <2>7 DEF Informed
    <2> QED
      BY <1>2, <1>4, <2>1, <2>3, <2>4, <2>6, <2>7, <2>8 DEF Active, Terminal
  <1> QED
    BY <1>3, <1>5, <1>6

LEMMA SweepRecovers ==
  ASSUME TypeInv, TypeInv', OwnerInv, RecoveryInv, NEW w \in Workers, Sweep(w)
  PROVE  RecoveryInv' /\ StaysEnded
  <1>0. w \in Sessions /\ sess \in [Sessions -> SessionRec] /\ sess[w] \in SessionRec
        /\ rows \in [Jobs -> Row] /\ \A j \in Jobs : rows[j].attempts \in Nat
    BY Parts DEF Sessions, Row
  <1>1. CASE SweepSelect(w)
    <2> DEFINE v == [j \in {j \in Jobs : Stale(rows[j])} |-> rows[j]]
               r == [sess[w] EXCEPT !.pc = "sweeping", !.view = v]
    <2>1. sess' = [sess EXCEPT ![w].pc = "sweeping", ![w].view = v] /\ sess[w].pc = "idle"
          /\ UNCHANGED <<rows, disturbed>>
      BY <1>1 DEF SweepSelect, At
    <2>2. \A j \in DOMAIN v : Stale(v[j])
      OBVIOUS
    <2> HIDE DEF v
    <2>3. sess' = [sess EXCEPT ![w] = r]
      BY <1>0, <2>1
    <2>4. r.pc = "sweeping" /\ r.view = v
      BY <1>0 DEF SessionRec
    <2> HIDE DEF r
    <2>5. Informed(r) /\ Entitled(r)
      BY <2>2, <2>4 DEF Informed, Entitled
    <2> QED
      BY <1>0, <2>1, <2>3, <2>5, SameRows, StepKeepsRecoveryInv
  \* What the sweep takes up had not ended; it goes back to the queue with an
  \* attempt left, or ends.
  <1>2. CASE SweepCommit(w)
    <2> DEFINE view == sess[w].view
    <2>1. \A j \in DOMAIN view : Stale(view[j])
      BY <1>0, <1>2 DEF SweepCommit, At, RecoveryInv, Informed
    <2>2. /\ \A j \in Jobs : rows'[j] = IF j \in DOMAIN view
                                        THEN Flush(rows[j], view[j], Reclaimed(view[j])) ELSE rows[j]
          /\ \A j \in Jobs : disturbed'[j] = (disturbed[j] \/
                        (j \in DOMAIN view /\ (rows[j] # view[j] \/ Holders(j) # {})))
          /\ End(w)
      BY <1>2 DEF SweepCommit
    <2>3. ASSUME NEW j \in Jobs, ~disturbed'[j]
          PROVE  /\ ~disturbed[j]
                 /\ rows'[j] = rows[j] \/ Moves(rows[j], rows'[j])
                 /\ rows'[j].attempts <= rows[j].attempts
      <3>1. CASE j \notin DOMAIN view
        <4>1. rows'[j] = rows[j] /\ ~disturbed[j]
          BY <2>2, <2>3, <3>1
        <4> QED
          BY <1>0, <4>1
      <3>2. CASE j \in DOMAIN view
        <4>1. rows[j] = view[j] /\ ~disturbed[j] /\ rows[j] \in Row /\ Stale(rows[j])
          BY <1>0, <2>1, <2>2, <2>3, <3>2
        <4>2. Reclaimed(rows[j]) \in Row
          BY <4>1, RowValues
        <4>3. rows'[j] = Reclaimed(rows[j])
          BY <2>2, <3>2, <4>1, <4>2, FlushOfCurrent
        <4>4. /\ Reclaimed(rows[j]).attempts = rows[j].attempts
              /\ Reclaimed(rows[j]).status \in {"CANCELLED", "QUEUED", "FAILED"}
              /\ Reclaimed(rows[j]).status = "QUEUED" => Retried(rows[j])
          BY <4>1 DEF Reclaimed, Row
        <4>5. rows[j].attempts <= MaxAttempts /\ rows[j].attempts \in Nat
          BY <1>0, <4>1 DEF RecoveryInv, AttemptInv
        <4>6. rows[j].status \notin Terminal
          BY <4>1 DEF Stale, Active, Terminal
        <4>7. Moves(rows[j], rows'[j])
          BY <4>3, <4>4, <4>5, <4>6 DEF Moves, Unfinished, Active, Waiting, Retried
        <4> QED
          BY <4>1, <4>3, <4>4, <4>5, <4>7
      <3> QED
        BY <3>1, <3>2
    <2>4. RowsFollow(w)
      BY <2>3 DEF RowsFollow
    <2> QED
      BY <1>0, <2>2, <2>4, EndKeepsRecoveryInv
  <1> QED
    BY <1>1, <1>2 DEF Sweep

-----------------------------------------------------------------------------

LEMMA InitRecoveryInv == Init => RecoveryInv
  <1> SUFFICES ASSUME Init PROVE RecoveryInv
    OBVIOUS
  <1>1. \A s \in Sessions : sess[s].pc = "idle" /\ sess[s].job = {}
    BY DEF Init, Rest
  <1>2. \A j \in Jobs : rows[j] = NoRow
    BY DEF Init
  <1>3. \A j \in Jobs : Owners(j) = {}
    BY <1>1 DEF Owners, Holders, Holding
  <1>4. \A s \in Sessions : Informed(sess[s])
    BY <1>1 DEF Informed
  <1>5. AttemptInv
    BY <1>2, <1>3, ExecutionQueueAssumption DEF AttemptInv, NoRow, ExecutionQueueAssumption
  <1>6. UnfinishedIsSweepable
    BY <1>2 DEF UnfinishedIsSweepable, NoRow, Active
  <1> QED
    BY <1>4, <1>5, <1>6 DEF RecoveryInv

LEMMA NextRecoveryInv ==
  ASSUME TypeInv, TypeInv', OwnerInv, RecoveryInv, [Next]_vars
  PROVE  RecoveryInv' /\ StaysEnded
  <1>1. ASSUME NEW s \in Sessions, End(s), UNCHANGED <<rows, disturbed>>
        PROVE  RecoveryInv' /\ StaysEnded
    BY <1>1, SameRows, EndKeepsRecoveryInv
  <1>2. ASSUME NEW c \in Clients, Request(c) PROVE RecoveryInv' /\ StaysEnded
    <2>1. c \in Sessions
      BY DEF Sessions
    <2>2. CASE CancelRefused(c)
      BY <1>1, <2>1, <2>2 DEF CancelRefused
    <2> QED
      BY <1>2, <2>2, SubmitRecovers, CancelRecovers DEF Request
  <1>3. ASSUME NEW w \in Workers, Claim(w) PROVE RecoveryInv' /\ StaysEnded
    <2>1. w \in Sessions
      BY DEF Sessions
    <2>2. CASE ClaimLost(w)
      BY <1>1, <2>1, <2>2 DEF ClaimLost
    <2> QED
      BY <1>3, <2>2, ClaimRecovers DEF Claim
  <1>4. ASSUME NEW s \in Sessions, Execute(s) PROVE RecoveryInv' /\ StaysEnded
    <2>1. CASE ExecuteReturns(s) \/ RecordConflict(s)
      BY <1>1, <2>1 DEF ExecuteReturns, RecordConflict
    <2> QED
      BY <1>4, <2>1, EndingRecovers, ContinuingRecovers DEF Execute
  <1>5. ASSUME NEW s \in Sessions, Crash(s) PROVE RecoveryInv' /\ StaysEnded
    BY <1>1, <1>5 DEF Crash
  <1>6. CASE UNCHANGED vars
    <2>1. \A j \in Jobs : Owners(j)' = Owners(j)
      BY <1>6 DEF vars, Owners, Holders, On, At, View
    <2>2. AttemptInv'
      BY <1>6, <2>1 DEF vars, RecoveryInv, AttemptInv
    <2>3. UnfinishedIsSweepable' /\ StaysEnded
      BY <1>6 DEF vars, RecoveryInv, UnfinishedIsSweepable, StaysEnded
    <2>4. \A s \in Sessions : Informed(sess'[s])
      BY <1>6 DEF vars, RecoveryInv
    <2> QED
      BY <2>2, <2>3, <2>4 DEF RecoveryInv
  <1> QED
    BY <1>2, <1>3, <1>4, <1>5, <1>6, SweepRecovers DEF Next

LEMMA RecoveryInvAlways == Spec => [](TypeInv /\ OwnerInv /\ RecoveryInv)
  <1>1. TypeInv /\ OwnerInv /\ RecoveryInv /\ [Next]_vars => (TypeInv /\ OwnerInv /\ RecoveryInv)'
    BY NextTypeInv, NextOwnerInv, NextRecoveryInv
  <1> QED
    BY <1>1, InitTypeInv, InitOwnerInv, InitRecoveryInv, PTL DEF Spec

\* However many workers, requests and crashes: an undisturbed job is never begun
\* more often than execution_max_attempts, and while it is neither waiting nor
\* ended it has the lease by which recover_stale_jobs finds it.
THEOREM UndisturbedJobRecovers == Spec => []RecoverySafe
  <1>1. ASSUME RecoveryInv PROVE RecoverySafe
    BY <1>1 DEF RecoveryInv, AttemptInv, RecoverySafe, AttemptsBounded
  <1> QED
    BY <1>1, RecoveryInvAlways, PTL

\* However many workers, requests and crashes: the status with which an
\* undisturbed job ended is its last.
THEOREM UndisturbedJobStaysEnded == Spec => EndedJobStays
  <1>1. TypeInv /\ OwnerInv /\ RecoveryInv /\ [Next]_vars
           => [\A j \in Jobs : ~disturbed'[j] /\ rows[j].status \in Terminal =>
                  rows'[j].status = rows[j].status]_vars
    BY NextTypeInv, NextRecoveryInv DEF StaysEnded
  <1> QED
    BY <1>1, RecoveryInvAlways, PTL DEF Spec, EndedJobStays

-----------------------------------------------------------------------------
(* A job that has ended is accounted for, disturbed or not.                *)

Settled(row) == row.cleanup # "PENDING"

Verdicts == {"SUCCEEDED", "TIMED_OUT", "RESOURCE_LIMIT_EXCEEDED"}

Evidenced(j, status) == \E a \in ledger[j] : a[2] = status

\* What a session has seen settled is settled, and what it collected is recorded.
AccountedFor(r) ==
    /\ \A j \in DOMAIN r.view : Settled(r.view[j]) => Settled(rows[j])
    /\ r.pc = "collected" => \A j \in r.job : Settled(r.view[j]) /\ Evidenced(j, r.result)

AccountInv == (\A s \in Sessions : AccountedFor(sess[s])) /\ EndedJobIsAccounted

\* What a step must show of the record r it leaves a session with, and of the rows.
AccountedAfter(r) ==
    /\ \A j \in DOMAIN r.view : Settled(r.view[j]) => Settled(rows'[j])
    /\ r.pc = "collected" => \A j \in r.job : /\ Settled(r.view[j])
                                              /\ \E a \in ledger'[j] : a[2] = r.result

RowsSettle ==
    \A j \in Jobs :
        /\ ledger[j] \subseteq ledger'[j]
        /\ Settled(rows[j]) => Settled(rows'[j])
        /\ rows'[j].status \in Terminal => Settled(rows'[j])
        /\ rows'[j].status \in Verdicts => \E a \in ledger'[j] : a[2] = rows'[j].status

LEMMA StepKeepsAccountInv ==
  ASSUME TypeInv, AccountInv, NEW s \in Sessions, NEW r, sess' = [sess EXCEPT ![s] = r],
         AccountedAfter(r), RowsSettle
  PROVE  AccountInv'
  <1>1. \A t \in Sessions : sess'[t] = IF t = s THEN r ELSE sess[t]
    BY Parts
  <1>2. ASSUME NEW t \in Sessions, t # s PROVE AccountedFor(sess[t])'
    <2>1. sess'[t] = sess[t] /\ AccountedFor(sess[t])
      BY <1>1, <1>2 DEF AccountInv
    <2>2. sess[t].job \subseteq Jobs /\ DOMAIN sess[t].view \subseteq Jobs
      BY Parts, SweptRows DEF SessionRec
    <2>3. \A j \in DOMAIN sess[t].view : Settled(sess[t].view[j]) => Settled(rows'[j])
      BY <2>1, <2>2 DEF AccountedFor, RowsSettle
    <2>4. ASSUME sess[t].pc = "collected", NEW j \in sess[t].job
          PROVE  Settled(sess[t].view[j]) /\ \E a \in ledger'[j] : a[2] = sess[t].result
      BY <2>1, <2>2, <2>4 DEF AccountedFor, RowsSettle, Evidenced
    <2> QED
      BY <2>1, <2>3, <2>4 DEF AccountedFor, Evidenced, Settled
  <1>3. AccountedFor(sess[s])'
    BY <1>1 DEF AccountedAfter, AccountedFor, Evidenced, Settled
  <1>4. EndedJobIsAccounted'
    BY DEF RowsSettle, EndedJobIsAccounted, OutcomeHasEvidence, EndedJobHasCleanup, Verdicts,
           Settled
  <1> QED
    BY <1>2, <1>3, <1>4 DEF AccountInv

LEMMA EndKeepsAccountInv ==
  ASSUME TypeInv, AccountInv, NEW s \in Sessions, End(s), RowsSettle
  PROVE  AccountInv'
  <1> DEFINE r == Rest(s)
  <1>1. sess' = [sess EXCEPT ![s] = r] /\ r.pc \in {"idle", "done"} /\ DOMAIN r.view = {}
    BY RestGood DEF End, Rest
  <1> HIDE DEF r
  <1>2. AccountedAfter(r)
    BY <1>1 DEF AccountedAfter
  <1> QED
    BY <1>1, <1>2, StepKeepsAccountInv

LEMMA SettledStay ==
  ASSUME TypeInv, AccountInv, UNCHANGED <<rows, ledger>>
  PROVE  RowsSettle
  BY DEF RowsSettle, AccountInv, EndedJobIsAccounted, OutcomeHasEvidence, EndedJobHasCleanup,
         Verdicts, Settled

\* What a session keeps when it reads or writes a row.
LEMMA KeptView ==
  ASSUME TypeInv, NEW s \in Sessions, NEW pc, NEW j \in Jobs, NEW row, Keep(s, pc, j, row)
  PROVE  \E r : /\ sess' = [sess EXCEPT ![s] = r]
               /\ r.pc = pc /\ r.job = {j} /\ DOMAIN r.view = {j} /\ r.view[j] = row
  <1> DEFINE v == [i \in {j} |-> row]
             r == [sess[s] EXCEPT !.pc = pc, !.job = {j}, !.view = v]
  <1>1. sess' = [sess EXCEPT ![s] = r] /\ sess[s] \in SessionRec
    BY Parts DEF Keep
  <1>2. DOMAIN v = {j} /\ v[j] = row
    OBVIOUS
  <1> HIDE DEF v
  <1>3. r.pc = pc /\ r.job = {j} /\ r.view = v
    BY <1>1 DEF SessionRec
  <1> HIDE DEF r
  <1> QED
    BY <1>1, <1>2, <1>3

LEMMA ReadKeepsAccountInv ==
  ASSUME TypeInv, AccountInv, NEW s \in Sessions, NEW pc, pc # "collected", NEW j \in Jobs,
         Keep(s, pc, j, rows[j]), UNCHANGED <<rows, ledger>>
  PROVE  AccountInv'
  <1>1. PICK r : /\ sess' = [sess EXCEPT ![s] = r]
                 /\ r.pc = pc /\ r.job = {j} /\ DOMAIN r.view = {j} /\ r.view[j] = rows[j]
    BY KeptView
  <1>2. AccountedAfter(r)
    BY <1>1 DEF AccountedAfter
  <1> QED
    BY <1>1, <1>2, SettledStay, StepKeepsAccountInv

\* A row stays settled when columns that were changed in a view are written to it,
\* and comes to an end only settled.
LEMMA FlushSettles ==
  ASSUME NEW row \in Row, NEW view \in Row, NEW new \in Row,
         Settled(view) => Settled(row), new.cleanup = view.cleanup \/ Settled(new),
         row.status \in Terminal => Settled(row), new.status \in Terminal => Settled(new)
  PROVE  LET f == Flush(row, view, new)
         IN  /\ Settled(row) => Settled(f)
             /\ Settled(new) => Settled(f)
             /\ f.status \in Terminal => Settled(f)
             /\ f.status \in {row.status, new.status}
  <1> DEFINE f == Flush(row, view, new)
  <1>1. /\ f.status = IF new.status = view.status THEN row.status ELSE new.status
        /\ f.cleanup = IF new.cleanup = view.cleanup THEN row.cleanup ELSE new.cleanup
    BY FlushType
  <1> HIDE DEF f
  <1>2. /\ Settled(row) => Settled(f)
        /\ Settled(new) => Settled(f)
        /\ f.status \in {row.status, new.status}
    BY <1>1 DEF Settled
  <1>3. f.status \in Terminal => Settled(f)
    BY <1>1, <1>2
  <1> QED
    BY <1>2, <1>3 DEF f

LEMMA CommitSettles ==
  ASSUME TypeInv, AccountInv, NEW s \in Sessions, NEW j \in Jobs, On(s, j),
         sess[s].pc \in HasRead, NEW new \in Row,
         Commit(s, j, new) \/ CommitLeased(s, j, new),
         \A i \in Jobs : ledger[i] \subseteq ledger'[i],
         new.cleanup = View(s, j).cleanup \/ Settled(new),
         new.status \in Terminal => Settled(new),
         new.status \in Verdicts => \E a \in ledger'[j] : a[2] = new.status
  PROVE  RowsSettle /\ (Settled(new) => Settled(rows'[j]))
  <1> DEFINE f == Flush(rows[j], View(s, j), new)
  <1>1. View(s, j) \in Row /\ rows[j] \in Row
    BY ReadJob, Parts
  <1>2. Settled(View(s, j)) => Settled(rows[j])
    <2>1. GoodSession(sess[s]) /\ AccountedFor(sess[s])
      BY Parts DEF AccountInv
    <2> QED
      BY <2>1 DEF GoodSession, AccountedFor, On, View
  <1>3. /\ rows[j].status \in Terminal => Settled(rows[j])
        /\ rows[j].status \in Verdicts => \E a \in ledger[j] : a[2] = rows[j].status
    BY DEF AccountInv, EndedJobIsAccounted, OutcomeHasEvidence, EndedJobHasCleanup, Verdicts,
           Settled
  <1>4. /\ f \in Row /\ (Settled(rows[j]) => Settled(f)) /\ (Settled(new) => Settled(f))
        /\ f.status \in Terminal => Settled(f)
        /\ f.status \in {rows[j].status, new.status}
    BY <1>1, <1>2, <1>3, FlushSettles, FlushType
  <1>5. \/ rows' = [rows EXCEPT ![j] = f]
        \/ rows' = [rows EXCEPT ![j] = [f EXCEPT !.lease = TRUE]]
    BY DEF Commit, CommitLeased
  <1> HIDE DEF f
  <1>6. /\ rows'[j].status = f.status /\ rows'[j].cleanup = f.cleanup
        /\ \A i \in Jobs \ {j} : rows'[i] = rows[i]
    BY <1>4, <1>5, Parts DEF Row
  <1>7. f.status \in Verdicts => \E a \in ledger'[j] : a[2] = f.status
    <2>1. CASE f.status = new.status
      BY <2>1
    <2>2. CASE f.status = rows[j].status
      BY <1>3, <2>2
    <2> QED
      BY <1>4, <2>1, <2>2
  <1>8. ASSUME NEW i \in Jobs \ {j}
        PROVE  /\ Settled(rows[i]) => Settled(rows'[i])
               /\ rows'[i].status \in Terminal => Settled(rows'[i])
               /\ rows'[i].status \in Verdicts => \E a \in ledger'[i] : a[2] = rows'[i].status
    <2>1. rows'[i] = rows[i] /\ ledger[i] \subseteq ledger'[i]
      BY <1>6
    <2> QED
      BY <2>1 DEF AccountInv, EndedJobIsAccounted, OutcomeHasEvidence, EndedJobHasCleanup,
                  Verdicts, Settled
  <1>9. /\ Settled(rows[j]) => Settled(rows'[j])
        /\ Settled(new) => Settled(rows'[j])
        /\ rows'[j].status \in Terminal => Settled(rows'[j])
        /\ rows'[j].status \in Verdicts => \E a \in ledger'[j] : a[2] = rows'[j].status
    BY <1>4, <1>6, <1>7 DEF Settled
  <1> QED
    BY <1>8, <1>9 DEF RowsSettle
LEMMA RequestAccounts ==
  ASSUME TypeInv, AccountInv, NEW c \in Clients, Request(c)
  PROVE  AccountInv'
  <1>0. c \in Sessions /\ rows \in [Jobs -> Row]
    BY Parts DEF Sessions
  <1>1. ASSUME NEW j \in Jobs, NEW status \in {"QUEUED", "CREATED"}, rows[j].status = "ABSENT",
               rows' = [rows EXCEPT ![j].status = status], UNCHANGED ledger
        PROVE  RowsSettle
    <2>1. /\ rows'[j].status = status /\ rows'[j].cleanup = rows[j].cleanup
          /\ \A i \in Jobs \ {j} : rows'[i] = rows[i]
      BY <1>0, <1>1 DEF Row
    <2> QED
      BY <1>1, <2>1 DEF RowsSettle, AccountInv, EndedJobIsAccounted, OutcomeHasEvidence,
                        EndedJobHasCleanup, Verdicts, Terminal, Settled
  <1>2. ASSUME NEW j \in Jobs, SubmitQueued(c, j) PROVE AccountInv'
    BY <1>0, <1>1, <1>2, EndKeepsAccountInv DEF SubmitQueued
  <1>3. ASSUME NEW j \in Jobs, SubmitInline(c, j) PROVE AccountInv'
    <2>1. RowsSettle
      BY <1>1, <1>3 DEF SubmitInline
    <2>2. PICK r : /\ sess' = [sess EXCEPT ![c] = r]
                   /\ r.pc = "loaded" /\ r.job = {j} /\ DOMAIN r.view = {j} /\ r.view[j] = rows'[j]
      <3> DEFINE v == [i \in {j} |-> rows'[j]]
                 q == [sess[c] EXCEPT !.pc = "loaded", !.job = {j}, !.view = v]
      <3>1. sess' = [sess EXCEPT ![c] = q] /\ sess[c] \in SessionRec
        BY <1>0, <1>3, Parts DEF SubmitInline, Keep
      <3>2. DOMAIN v = {j} /\ v[j] = rows'[j]
        OBVIOUS
      <3> HIDE DEF v
      <3>3. q.pc = "loaded" /\ q.job = {j} /\ q.view = v
        BY <3>1 DEF SessionRec
      <3> HIDE DEF q
      <3> QED
        BY <3>1, <3>2, <3>3
    <2>3. AccountedAfter(r)
      BY <2>2 DEF AccountedAfter
    <2> QED
      BY <1>0, <2>1, <2>2, <2>3, StepKeepsAccountInv
  <1>4. ASSUME NEW j \in Jobs, SubmitAgain(c, j) \/ CancelLoad(c, j) PROVE AccountInv'
    <2>1. PICK pc \in {"loaded", "cancelling"} : Keep(c, pc, j, rows[j])
      BY <1>4 DEF SubmitAgain, CancelLoad
    <2>2. UNCHANGED <<rows, ledger>>
      BY <1>4 DEF SubmitAgain, CancelLoad
    <2> QED
      BY <1>0, <2>1, <2>2, ReadKeepsAccountInv
  <1>5. ASSUME NEW j \in Jobs, CancelWrite(c, j) PROVE AccountInv'
    <2> DEFINE v == View(c, j)
               new == IF v.status \in {"QUEUED", "CREATED"}
                      THEN [v EXCEPT !.status = "CANCELLED", !.cleanup = Skipped(v.cleanup)]
                      ELSE [v EXCEPT !.status = "CANCEL_REQUESTED"]
    <2>1. v \in Row
      BY <1>0, <1>5, ReadJob DEF CancelWrite, At, HasRead
    <2>2. {"CANCELLED", "CANCEL_REQUESTED"} \subseteq Statuses
      BY DEF Statuses, Terminal
    <2>3. new \in Row
      BY <2>1, <2>2, RowValues
    <2>4. /\ Commit(c, j, new) /\ End(c) /\ On(c, j) /\ sess[c].pc \in HasRead
          /\ UNCHANGED ledger
      BY <1>5 DEF CancelWrite, At, HasRead
    <2>5. /\ new.status \in {"CANCELLED", "CANCEL_REQUESTED"}
          /\ new.cleanup \in {v.cleanup, Skipped(v.cleanup)}
          /\ new.status = "CANCELLED" => new.cleanup = Skipped(v.cleanup)
      BY <2>1 DEF Row
    <2> HIDE DEF new
    <2>6. /\ new.cleanup = v.cleanup \/ Settled(new)
          /\ new.status \in Terminal => Settled(new)
          /\ new.status \notin Verdicts
      BY <2>5 DEF Settled, Skipped, Terminal, Verdicts
    <2>7. RowsSettle
      BY <1>0, <2>3, <2>4, <2>6, CommitSettles
    <2> QED
      BY <1>0, <2>4, <2>7, EndKeepsAccountInv
  <1>6. CASE CancelRefused(c)
    BY <1>0, <1>6, SettledStay, EndKeepsAccountInv DEF CancelRefused
  <1> QED
    BY <1>2, <1>3, <1>4, <1>5, <1>6 DEF Request

LEMMA ClaimAccounts ==
  ASSUME TypeInv, AccountInv, NEW w \in Workers, Claim(w)
  PROVE  AccountInv'
  <1>0. w \in Sessions /\ rows \in [Jobs -> Row] /\ sess[w] \in SessionRec
        /\ sess \in [Sessions -> SessionRec] /\ AccountedFor(sess[w])
        /\ DOMAIN sess[w].view \subseteq Jobs
    BY Parts, SweptRows DEF Sessions, AccountInv
  <1>1. ASSUME NEW r, sess' = [sess EXCEPT ![w] = r], r.view = sess[w].view, r.pc # "collected",
               RowsSettle
        PROVE  AccountInv'
    <2>1. AccountedAfter(r)
      BY <1>0, <1>1 DEF AccountedAfter, AccountedFor, RowsSettle
    <2> QED
      BY <1>0, <1>1, <2>1, StepKeepsAccountInv
  <1>2. ASSUME NEW j \in Jobs, ClaimSelect(w, j) PROVE AccountInv'
    <2> DEFINE r == [sess[w] EXCEPT !.pc = "picked", !.job = {j}]
    <2>1. sess' = [sess EXCEPT ![w] = r]
      BY <1>0, <1>2 DEF ClaimSelect
    <2>2. r.view = sess[w].view /\ r.pc = "picked"
      BY <1>0 DEF SessionRec
    <2>3. RowsSettle
      BY <1>2, SettledStay DEF ClaimSelect
    <2> HIDE DEF r
    <2> QED
      BY <1>1, <2>1, <2>2, <2>3
  <1>3. ASSUME NEW j \in Jobs, ClaimUpdate(w, j) PROVE AccountInv'
    <2> DEFINE r == [sess[w] EXCEPT !.pc = "claimed"]
    <2>1. sess' = [sess EXCEPT ![w] = r] /\ rows' = [rows EXCEPT ![j] = Claimed(rows[j])]
          /\ UNCHANGED ledger
      BY <1>0, <1>3 DEF ClaimUpdate
    <2>2. r.view = sess[w].view /\ r.pc = "claimed"
      BY <1>0 DEF SessionRec
    <2>3. RowsSettle
      <3>1. /\ rows'[j].status = "STARTING" /\ rows'[j].cleanup = rows[j].cleanup
            /\ \A i \in Jobs \ {j} : rows'[i] = rows[i]
        BY <1>0, <2>1 DEF Claimed, Row
      <3> QED
        BY <2>1, <3>1 DEF RowsSettle, AccountInv, EndedJobIsAccounted, OutcomeHasEvidence,
                          EndedJobHasCleanup, Verdicts, Terminal, Settled
    <2> HIDE DEF r
    <2> QED
      BY <1>1, <2>1, <2>2, <2>3
  <1>4. ASSUME NEW j \in Jobs, ClaimRefresh(w, j) PROVE AccountInv'
    BY <1>0, <1>4, ReadKeepsAccountInv DEF ClaimRefresh
  <1>5. CASE ClaimLost(w)
    BY <1>0, <1>5, SettledStay, EndKeepsAccountInv DEF ClaimLost
  <1> QED
    BY <1>2, <1>3, <1>4, <1>5 DEF Claim

LEMMA EndingAccounts ==
  ASSUME TypeInv, AccountInv, NEW s \in Sessions, NEW j \in Jobs,
         \/ ExecuteCancel(s, j) \/ Reject(s, j) \/ Finalise(s, j)
         \/ \E r \in Duds : CollectBare(s, j, r)
  PROVE  AccountInv'
  <1> DEFINE v == View(s, j)
  <1>0. {"CANCELLED", "REJECTED"} \cup Results \cup Duds \subseteq Terminal
        /\ "SKIPPED" \in Cleanups /\ Terminal \subseteq Statuses
        /\ ({"CANCELLED", "REJECTED"} \cup Duds) \cap Verdicts = {}
    BY ExecutionQueueAssumption
    DEF ExecutionQueueAssumption, Statuses, Terminal, Cleanups, Verdicts
  <1>1. v \in Row /\ On(s, j) /\ sess[s].pc \in HasRead
    BY ReadJob DEF ExecuteCancel, Reject, Finalise, CollectBare, At, HasRead
  <1>2. ASSUME NEW new \in Row, Commit(s, j, new), End(s), Settled(new),
               \A i \in Jobs : ledger[i] \subseteq ledger'[i],
               new.status \in Verdicts => \E a \in ledger'[j] : a[2] = new.status
        PROVE  AccountInv'
    BY <1>1, <1>2, CommitSettles, EndKeepsAccountInv
  <1>3. CASE ExecuteCancel(s, j)
    <2> DEFINE new == [v EXCEPT !.status = "CANCELLED", !.cleanup = Skipped(v.cleanup)]
    <2>1. new \in Row /\ new.status = "CANCELLED" /\ new.cleanup = Skipped(v.cleanup)
      BY <1>0, <1>1, RowValues DEF Row
    <2>2. Commit(s, j, new) /\ End(s) /\ UNCHANGED ledger
      BY <1>3 DEF ExecuteCancel
    <2> HIDE DEF new
    <2>3. Settled(new)
      BY <2>1 DEF Settled, Skipped
    <2> QED
      BY <1>0, <1>2, <2>1, <2>2, <2>3
  <1>4. CASE Reject(s, j)
    <2> DEFINE new == [v EXCEPT !.status = "REJECTED", !.cleanup = "SKIPPED"]
    <2>1. new \in Row /\ new.status = "REJECTED" /\ new.cleanup = "SKIPPED"
      BY <1>0, <1>1, RowValues DEF Row
    <2>2. Commit(s, j, new) /\ End(s) /\ UNCHANGED ledger
      BY <1>4 DEF Reject
    <2> HIDE DEF new
    <2> QED
      BY <1>0, <1>2, <2>1, <2>2 DEF Settled
  <1>5. CASE Finalise(s, j)
    <2> DEFINE new == [v EXCEPT !.status = sess[s].result, !.lease = FALSE]
    <2>1. sess[s].result \in Results
      BY <1>5, Parts DEF GoodSession, Finalise, At
    <2>2. new \in Row /\ new.status = sess[s].result /\ new.cleanup = v.cleanup
      BY <1>0, <1>1, <2>1, RowValues DEF Row
    <2>3. Commit(s, j, new) /\ End(s) /\ UNCHANGED ledger
      BY <1>5 DEF Finalise
    <2>4. Settled(v) /\ \E a \in ledger[j] : a[2] = sess[s].result
      BY <1>5 DEF Finalise, At, On, View, AccountInv, AccountedFor, Evidenced
    <2> HIDE DEF new
    <2> QED
      BY <1>2, <2>2, <2>3, <2>4 DEF Settled
  <1>6. ASSUME NEW r \in Duds, CollectBare(s, j, r) PROVE AccountInv'
    <2> DEFINE new == [v EXCEPT !.status = r, !.cleanup = "SKIPPED", !.lease = FALSE]
    <2>1. new \in Row /\ new.status = r /\ new.cleanup = "SKIPPED"
      BY <1>0, <1>1, RowValues DEF Row
    <2>2. Commit(s, j, new) /\ End(s)
      BY <1>6 DEF CollectBare
    <2>3. \A i \in Jobs : ledger[i] \subseteq ledger'[i]
      BY <1>6, Parts DEF CollectBare, Record
    <2> HIDE DEF new
    <2> QED
      BY <1>0, <1>2, <2>1, <2>2, <2>3 DEF Settled
  <1> QED
    BY <1>3, <1>4, <1>5, <1>6

LEMMA ContinuingAccounts ==
  ASSUME TypeInv, AccountInv, NEW s \in Sessions, NEW j \in Jobs,
         \/ Begin(s, j) \/ Launch(s, j)
         \/ \E r \in Results, reaped \in Reaps : Collect(s, j, r, reaped)
  PROVE  AccountInv'
  <1> DEFINE v == View(s, j)
  <1>0. {"RUNNING", "COLLECTING_RESULTS"} \subseteq Statuses /\ {"CLEANED", "FAILED"} \subseteq Cleanups
        /\ Active \cap Terminal = {} /\ Active \cap Verdicts = {}
    BY DEF Statuses, Active, Cleanups, Terminal, Verdicts
  <1>1. v \in Row /\ sess[s].job = {j} /\ sess[s] \in SessionRec /\ On(s, j)
        /\ sess \in [Sessions -> SessionRec] /\ sess[s].pc \in HasRead
    BY ReadJob, Parts DEF Begin, Launch, Collect, At, On, HasRead
  <1>2. ASSUME NEW new \in Row, new.status \in Active, new.cleanup = v.cleanup \/ Settled(new),
               Commit(s, j, new) \/ CommitLeased(s, j, new),
               \A i \in Jobs : ledger[i] \subseteq ledger'[i],
               NEW r, sess' = [sess EXCEPT ![s] = r], r.job = {j},
               DOMAIN r.view = {j}, r.view[j] = new,
               r.pc = "collected" => Settled(new) /\ \E a \in ledger'[j] : a[2] = r.result
        PROVE  AccountInv'
    <2>1. RowsSettle /\ (Settled(new) => Settled(rows'[j]))
      BY <1>0, <1>1, <1>2, CommitSettles
    <2>2. AccountedAfter(r)
      BY <1>2, <2>1 DEF AccountedAfter
    <2> QED
      BY <1>2, <2>1, <2>2, StepKeepsAccountInv
  <1>3. CASE Begin(s, j)
    <2> DEFINE new == Started(v)
               u == [i \in {j} |-> new]
               r == [sess[s] EXCEPT !.pc = "begun", !.view = u, !.number = new.attempts]
    <2>1. new \in Row /\ new.status = "STARTING" /\ new.cleanup = v.cleanup
      BY <1>1, RowValues DEF Started, Row
    <2>2. CommitLeased(s, j, new) /\ UNCHANGED ledger
      BY <1>3 DEF Begin
    <2>3. sess' = [sess EXCEPT ![s].pc = "begun", ![s].view = u, ![s].number = new.attempts]
      BY <1>3 DEF Begin
    <2>4. DOMAIN u = {j} /\ u[j] = new
      OBVIOUS
    <2> HIDE DEF new, u
    <2>5. sess' = [sess EXCEPT ![s] = r]
      BY <1>1, <2>3
    <2>6. r.job = {j} /\ r.pc = "begun" /\ r.view = u
      BY <1>1 DEF SessionRec
    <2> HIDE DEF r
    <2> QED
      BY <1>2, <2>1, <2>2, <2>4, <2>5, <2>6 DEF Active
  <1>4. CASE Launch(s, j)
    <2> DEFINE new == [v EXCEPT !.status = "RUNNING", !.lease = TRUE]
    <2>1. new \in Row /\ new.status = "RUNNING" /\ new.cleanup = v.cleanup
      BY <1>0, <1>1, RowValues DEF Row
    <2>2. CommitLeased(s, j, new) /\ Keep(s, "running", j, new) /\ UNCHANGED ledger
      BY <1>4 DEF Launch
    <2> HIDE DEF new
    <2> DEFINE u == [i \in {j} |-> new]
               r == [sess[s] EXCEPT !.pc = "running", !.job = {j}, !.view = u]
    <2>3. sess' = [sess EXCEPT ![s] = r]
      BY <2>2 DEF Keep
    <2>4. DOMAIN u = {j} /\ u[j] = new
      OBVIOUS
    <2> HIDE DEF u
    <2>5. r.pc = "running" /\ r.job = {j} /\ r.view = u
      BY <1>1 DEF SessionRec
    <2> HIDE DEF r
    <2> QED
      BY <1>2, <2>1, <2>2, <2>3, <2>4, <2>5 DEF Active
  <1>5. ASSUME NEW res \in Results, NEW reaped \in Reaps, Collect(s, j, res, reaped)
        PROVE  AccountInv'
    <2> DEFINE cleanup == IF reaped THEN "CLEANED" ELSE "FAILED"
               new == [v EXCEPT !.status = "COLLECTING_RESULTS", !.cleanup = cleanup]
               u == [i \in {j} |-> new]
               r == [sess[s] EXCEPT !.pc = "collected", !.view = u, !.result = res]
    <2>1. cleanup \in Cleanups /\ cleanup # "PENDING"
      BY <1>0
    <2>2. Commit(s, j, new) /\ Record(s, j, res)
          /\ sess' = [sess EXCEPT ![s].pc = "collected", ![s].view = u, ![s].result = res]
      BY <1>5 DEF Collect
    <2> HIDE DEF cleanup
    <2>3. new \in Row /\ new.status = "COLLECTING_RESULTS" /\ new.cleanup = cleanup
      BY <1>0, <1>1, <2>1, RowValues DEF Row
    <2>4. DOMAIN u = {j} /\ u[j] = new
      OBVIOUS
    <2> HIDE DEF new, u
    <2>5. sess' = [sess EXCEPT ![s] = r]
      BY <1>1, <2>2
    <2>6. r.job = {j} /\ r.pc = "collected" /\ r.view = u /\ r.result = res
      BY <1>1 DEF SessionRec
    <2> HIDE DEF r
    <2>7. /\ \A i \in Jobs : ledger[i] \subseteq ledger'[i]
          /\ <<sess[s].number, res>> \in ledger'[j]
      BY <2>2, Parts DEF Record
    <2>8. \E a \in ledger'[j] : a[2] = res
      BY <2>7
    <2> QED
      BY <1>2, <2>1, <2>2, <2>3, <2>4, <2>5, <2>6, <2>7, <2>8 DEF Active, Settled
  <1> QED
    BY <1>3, <1>4, <1>5

LEMMA SweepAccounts ==
  ASSUME TypeInv, AccountInv, NEW w \in Workers, Sweep(w)
  PROVE  AccountInv'
  <1>0. w \in Sessions /\ sess \in [Sessions -> SessionRec] /\ sess[w] \in SessionRec
        /\ rows \in [Jobs -> Row] /\ AccountedFor(sess[w])
    BY Parts DEF Sessions, AccountInv
  <1>1. CASE SweepSelect(w)
    <2> DEFINE v == [j \in {j \in Jobs : Stale(rows[j])} |-> rows[j]]
               r == [sess[w] EXCEPT !.pc = "sweeping", !.view = v]
    <2>1. sess' = [sess EXCEPT ![w].pc = "sweeping", ![w].view = v] /\ UNCHANGED <<rows, ledger>>
      BY <1>1 DEF SweepSelect
    <2>2. \A j \in DOMAIN v : v[j] = rows[j]
      OBVIOUS
    <2> HIDE DEF v
    <2>3. sess' = [sess EXCEPT ![w] = r]
      BY <1>0, <2>1
    <2>4. r.pc = "sweeping" /\ r.view = v
      BY <1>0 DEF SessionRec
    <2> HIDE DEF r
    <2>5. AccountedAfter(r)
      BY <2>1, <2>2, <2>4 DEF AccountedAfter
    <2> QED
      BY <1>0, <2>1, <2>3, <2>5, SettledStay, StepKeepsAccountInv
  \* What the sweep ends, it settles.
  <1>2. CASE SweepCommit(w)
    <2> DEFINE view == sess[w].view
    <2>1. /\ \A j \in Jobs : rows'[j] = IF j \in DOMAIN view
                                        THEN Flush(rows[j], view[j], Reclaimed(view[j])) ELSE rows[j]
          /\ End(w) /\ UNCHANGED ledger
      BY <1>2 DEF SweepCommit
    <2>2. ASSUME NEW j \in Jobs
          PROVE  /\ Settled(rows[j]) => Settled(rows'[j])
                 /\ rows'[j].status \in Terminal => Settled(rows'[j])
                 /\ rows'[j].status \in Verdicts => \E a \in ledger[j] : a[2] = rows'[j].status
      <3>1. /\ rows[j].status \in Terminal => Settled(rows[j])
            /\ rows[j].status \in Verdicts => \E a \in ledger[j] : a[2] = rows[j].status
        BY DEF AccountInv, EndedJobIsAccounted, OutcomeHasEvidence, EndedJobHasCleanup, Verdicts,
               Settled
      <3>2. CASE j \notin DOMAIN view
        <4>1. rows'[j] = rows[j]
          BY <2>1, <3>2
        <4> QED
          BY <3>1, <4>1
      <3>3. CASE j \in DOMAIN view
        <4> DEFINE new == Reclaimed(view[j])
        <4>1. view[j] \in Row /\ rows[j] \in Row /\ new \in Row
          BY <1>0, <3>3, SweptRows, RowValues
        <4>2. /\ new.status \in {"CANCELLED", "QUEUED", "FAILED"}
              /\ new.cleanup \in {view[j].cleanup, "SKIPPED", "FAILED"}
              /\ new.status # "QUEUED" => new.cleanup \in {"SKIPPED", "FAILED"}
          BY <4>1 DEF Reclaimed, Row
        <4> HIDE DEF new
        <4>3. /\ new.cleanup = view[j].cleanup \/ Settled(new)
              /\ new.status \in Terminal => Settled(new)
              /\ new.status \notin Verdicts
          BY <4>2 DEF Settled, Terminal, Verdicts
        <4>4. Settled(view[j]) => Settled(rows[j])
          BY <1>0, <3>3 DEF AccountedFor
        <4>5. rows'[j] = Flush(rows[j], view[j], new)
          BY <2>1, <3>3 DEF new
        <4>6. /\ Settled(rows[j]) => Settled(rows'[j])
              /\ rows'[j].status \in Terminal => Settled(rows'[j])
              /\ rows'[j].status \in {rows[j].status, new.status}
          BY <3>1, <4>1, <4>3, <4>4, <4>5, FlushSettles
        <4> QED
          BY <3>1, <4>3, <4>6
      <3> QED
        BY <3>2, <3>3
    <2>3. RowsSettle
      BY <2>1, <2>2 DEF RowsSettle
    <2> QED
      BY <1>0, <2>1, <2>3, EndKeepsAccountInv
  <1> QED
    BY <1>1, <1>2 DEF Sweep

LEMMA InitAccountInv == Init => AccountInv
  <1> SUFFICES ASSUME Init PROVE AccountInv
    OBVIOUS
  <1>1. \A s \in Sessions : sess[s].pc = "idle" /\ DOMAIN sess[s].view = {}
    BY DEF Init, Rest
  <1>2. \A j \in Jobs : rows[j].status = "ABSENT"
    BY DEF Init, NoRow
  <1> QED
    BY <1>1, <1>2 DEF AccountInv, AccountedFor, EndedJobIsAccounted, OutcomeHasEvidence,
                      EndedJobHasCleanup, Terminal

LEMMA NextAccountInv ==
  ASSUME TypeInv, AccountInv, [Next]_vars
  PROVE  AccountInv'
  <1>1. CASE UNCHANGED vars
    BY <1>1 DEF vars, AccountInv, AccountedFor, EndedJobIsAccounted, OutcomeHasEvidence,
                EndedJobHasCleanup, Evidenced
  <1>2. ASSUME NEW c \in Clients, Request(c) PROVE AccountInv'
    BY <1>2, RequestAccounts
  <1>3. ASSUME NEW w \in Workers, Claim(w) \/ Sweep(w) PROVE AccountInv'
    BY <1>3, ClaimAccounts, SweepAccounts
  <1>4. ASSUME NEW s \in Sessions, Execute(s) PROVE AccountInv'
    <2>1. ASSUME ExecuteReturns(s) \/ RecordConflict(s) PROVE AccountInv'
      BY <2>1, SettledStay, EndKeepsAccountInv DEF ExecuteReturns, RecordConflict
    <2> QED
      BY <1>4, <2>1, EndingAccounts, ContinuingAccounts DEF Execute
  <1>5. ASSUME NEW s \in Sessions, Crash(s) PROVE AccountInv'
    BY <1>5, SettledStay, EndKeepsAccountInv DEF Crash
  <1> QED
    BY <1>1, <1>2, <1>3, <1>4, <1>5 DEF Next

\* However many workers, sweeps, requests and crashes, on disturbed jobs too: a job
\* that has ended has its sandbox settled, and a verdict of its program has the
\* attempt that gave it (EndedJobIsAccounted).
THEOREM EndedJobsAreAccounted == Spec => []EndedJobIsAccounted
  <1>1. TypeInv /\ AccountInv /\ [Next]_vars => (TypeInv /\ AccountInv)'
    BY NextTypeInv, NextAccountInv
  <1>2. AccountInv => EndedJobIsAccounted
    BY DEF AccountInv
  <1> QED
    BY <1>1, <1>2, InitTypeInv, InitAccountInv, PTL DEF Spec
=============================================================================
