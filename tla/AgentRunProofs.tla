---------------------------- MODULE AgentRunProofs ----------------------------
(***************************************************************************)
(* Proofs about AgentRun for any number of overlapping requests: its type  *)
(* invariant, that a waiting run always has a question to answer and a run *)
(* that failed or was cancelled has none; and, where leftover questions    *)
(* are not answered, that one worker at a time writes steps, within the    *)
(* budget, and that recovery parks a run whose worker is gone.             *)
(***************************************************************************)
EXTENDS AgentRun, TLAPS

LEMMA InitColumnsOK == Init => ColumnsOK
  <1> SUFFICES ASSUME Init PROVE ColumnsOK
    OBVIOUS
  <1> USE AgentRunAssumption
  <1>1. row \in RowType
    BY DEF Init, RowType, Statuses
  <1>2. Idle \in SessionType
    BY DEF Idle, SessionType, Statuses
  <1>3. sess \in [Session -> SessionType]
    BY <1>2 DEF Init
  <1>4. \A s \in Session : lock = s <=> sess[s].pc = "working"
    BY DEF Init, Idle
  <1>5. question \in Seq(QuestionStatus)
    BY DEF Init
  <1>6. wall \in BOOLEAN /\ lock \in Session \cup {NoSession}
        /\ claimant \in Session \cup {NoSession}
    BY Zenon DEF Init
  <1>7. log \subseteq Nat
    BY DEF Init
  <1>8. QED
    BY <1>1, <1>3, <1>4, <1>5, <1>6, <1>7, Zenon DEF ColumnsOK

\* Closing questions keeps their number, leaves a column of statuses and removes
\* exactly the closed ones from the pending set.
LEMMA CloseQuestions ==
  ASSUME question \in Seq(QuestionStatus), NEW qs, NEW outcome \in QuestionStatus,
         outcome # "PENDING", question' = Close(qs, outcome)
  PROVE  /\ question' \in Seq(QuestionStatus)
         /\ Len(question') = Len(question)
         /\ Pending' = Pending \ qs
  <1>1. question' = [q \in 1..Len(question) |-> IF q \in qs THEN outcome ELSE question[q]]
    BY DEF Close
  <1>2. \A q \in 1..Len(question) : question'[q] \in QuestionStatus
    BY <1>1
  <1>3. question' \in Seq(QuestionStatus) /\ Len(question') = Len(question)
    BY <1>1, <1>2
  <1>4. DOMAIN question' = 1..Len(question) /\ DOMAIN question = 1..Len(question)
    BY <1>1
  <1>5. Pending' = Pending \ qs
    BY <1>1, <1>4 DEF Pending
  <1>6. QED
    BY <1>3, <1>5

\* What a session record is after each kind of update.
LEMMA DoneType == Idle \in SessionType /\ Done \in SessionType
  <1>1. Idle \in SessionType
    BY AgentRunAssumption DEF Idle, SessionType, Statuses
  <1>2. QED
    BY <1>1 DEF Done, SessionType

LEMMA SessionFields ==
  ASSUME ColumnsOK, NEW s \in Session
  PROVE  /\ sess[s] \in SessionType
         /\ sess[s].status \in Statuses
         /\ sess[s].version \in Nat /\ sess[s].iter \in Nat /\ sess[s].steps \in Nat
         /\ sess[s].tools \in 0..MaxToolCalls
         /\ sess[s].pend \subseteq Nat /\ sess[s].seen \subseteq Nat
  <1>1. sess[s] \in SessionType
    BY DEF ColumnsOK
  <1>2. QED
    BY <1>1 DEF SessionType

LEMMA RowFields ==
  ASSUME ColumnsOK
  PROVE  /\ row.status \in Statuses /\ row.version \in Nat /\ row.iter \in Nat
         /\ row.beat \in {"fresh", "stale"}
  <1>1. row \in RowType
    BY DEF ColumnsOK
  <1>2. QED
    BY <1>1 DEF RowType

LEMMA SeqsType ==
  ASSUME ColumnsOK, NEW s \in Session, NEW n \in Nat
  PROVE  NextSeqs(s, n) \subseteq Nat
  BY SessionFields DEF NextSeqs

\* What a step of one session leaves, put together again: the columns have their
\* types, one session record has changed, and the lock was kept, taken or let go.
LEMMA AssembleType ==
  ASSUME ColumnsOK, NEW s \in Session, NEW r \in SessionType,
         sess' = [sess EXCEPT ![s] = r],
         row' \in RowType, log' \subseteq Nat, question' \in Seq(QuestionStatus),
         wall' \in BOOLEAN, claimant' \in Session \cup {NoSession},
         \/ lock' = lock /\ sess[s].pc # "working" /\ r.pc # "working"
         \/ lock = NoSession /\ lock' = s /\ r.pc = "working"
         \/ lock \in {NoSession, s} /\ lock' = NoSession /\ r.pc # "working"
  PROVE  ColumnsOK'
  <1>1. sess \in [Session -> SessionType] /\ lock \in Session \cup {NoSession}
        /\ \A t \in Session : lock = t <=> sess[t].pc = "working"
    BY DEF ColumnsOK
  <1>2. sess' \in [Session -> SessionType]
    BY <1>1
  <1>3. sess'[s] = r /\ \A t \in Session \ {s} : sess'[t] = sess[t]
    BY <1>1
  <1>4. lock' \in Session \cup {NoSession}
    BY <1>1
  <1>5. \A t \in Session : lock' = t <=> sess'[t].pc = "working"
    BY <1>1, <1>3, AgentRunAssumption DEF AgentRunAssumption
  <1>6. QED
    BY <1>2, <1>4, <1>5, Zenon DEF ColumnsOK

\* Writing a status and an absolute version keeps the row and the log typed.
LEMMA CommitRowType ==
  ASSUME ColumnsOK, NEW s \in Session, NEW st \in Statuses, NEW n \in Nat,
         CommitRow(s, st, n)
  PROVE  row' \in RowType /\ log' \subseteq Nat
  <1>1. row \in RowType /\ log \subseteq Nat
    BY DEF ColumnsOK
  <1>2. row' = [row EXCEPT !.status = st, !.version = sess[s].version + n]
    BY DEF CommitRow
  <1>3. sess[s].version + n \in Nat
    BY SessionFields
  <1>4. row' \in RowType
    BY <1>1, <1>2, <1>3 DEF RowType
  <1>5. log' \subseteq Nat
    BY <1>1, SeqsType, SessionFields DEF CommitRow
  <1>6. QED
    BY <1>4, <1>5

\* A session that has read the run, and one that goes on as the run's worker.
LEMMA SnapshotType ==
  ASSUME ColumnsOK, NEW op \in RequestKinds \cup {"none"},
         NEW pc \in {"loaded", "swept", "release"}, NEW seen \in SUBSET Nat
  PROVE  [Idle EXCEPT !.pc = pc, !.op = op, !.status = row.status,
             !.version = row.version, !.iter = row.iter, !.seen = seen] \in SessionType
  <1>1. Idle \in SessionType
    BY DoneType
  <1>2. row.status \in Statuses /\ row.version \in Nat /\ row.iter \in Nat
    BY RowFields
  <1>3. QED
    BY <1>1, <1>2 DEF SessionType

LEMMA HandOverType ==
  ASSUME ColumnsOK, NEW s \in Session, NEW n \in Nat, NEW d \in BOOLEAN
  PROVE  [Idle EXCEPT !.pc = "ready", !.status = "RUNNING",
             !.version = sess[s].version + n, !.iter = sess[s].iter,
             !.dirty = d] \in SessionType
  <1>1. Idle \in SessionType
    BY DoneType
  <1>2. "RUNNING" \in Statuses
    BY DEF Statuses
  <1>3. sess[s].version + n \in Nat /\ sess[s].iter \in Nat
    BY SessionFields
  <1>4. QED
    BY <1>1, <1>2, <1>3 DEF SessionType

-----------------------------------------------------------------------------
(* The type invariant, one group of actions at a time.                     *)

\* Every field of the row, or some fields of a session, rewritten.
LEMMA RowUpdate ==
  ASSUME NEW r \in RowType, NEW st \in Statuses, NEW v \in Nat, NEW i \in Nat,
         NEW b \in {"fresh", "stale"}
  PROVE  /\ [r EXCEPT !.status = st, !.version = v, !.beat = b] \in RowType
         /\ [r EXCEPT !.status = st, !.version = v, !.iter = i, !.beat = b] \in RowType
         /\ [r EXCEPT !.version = v, !.iter = i, !.beat = b] \in RowType
         /\ [r EXCEPT !.version = v] \in RowType
         /\ [r EXCEPT !.beat = b] \in RowType
  BY DEF RowType

LEMMA ClaimedRecord ==
  ASSUME NEW r \in SessionType, NEW v \in Nat, NEW i \in Nat, NEW k \in Nat
  PROVE  /\ [r EXCEPT !.pc = "claimed", !.version = v, !.iter = i, !.steps = k,
                      !.dirty = FALSE] \in SessionType
         /\ [r EXCEPT !.pc = "claimed", !.version = v, !.iter = i, !.steps = k,
                      !.tools = 0, !.pend = {}] \in SessionType
  <1>1. 0 \in 0..MaxToolCalls
    BY AgentRunAssumption DEF AgentRunAssumption
  <1>2. [r EXCEPT !.pc = "claimed", !.version = v, !.iter = i, !.steps = k,
                  !.dirty = FALSE] \in SessionType
    BY DEF SessionType
  <1>3. [r EXCEPT !.pc = "claimed", !.version = v, !.iter = i, !.steps = k,
                  !.tools = 0, !.pend = {}] \in SessionType
    BY <1>1 DEF SessionType
  <1>4. QED
    BY <1>2, <1>3

LEMMA WorkingRecord ==
  ASSUME NEW r \in SessionType, NEW v \in Nat, NEW pend \in SUBSET Nat
  PROVE  [r EXCEPT !.pc = "working", !.version = v, !.pend = pend] \in SessionType
  BY DEF SessionType

LEMMA OfflockRecord ==
  ASSUME NEW r \in SessionType, NEW tools \in 0..MaxToolCalls
  PROVE  [r EXCEPT !.pc = "offlock", !.tools = tools, !.pend = {}] \in SessionType
  BY DEF SessionType

\* Reading: the requests' loads.
LEMMA LoadsType ==
  ASSUME ColumnsOK, NEW s \in Session, NEW op \in RequestKinds \cup {"none"},
         NEW pc \in {"loaded", "swept", "release"}, NEW seen \in SUBSET Nat,
         sess[s].pc \in {"idle", "swept"},
         Snapshot(s, op, pc, seen),
         UNCHANGED <<row, log, question, wall, lock, claimant>>
  PROVE  ColumnsOK'
  <1> DEFINE r == [Idle EXCEPT !.pc = pc, !.op = op, !.status = row.status,
                       !.version = row.version, !.iter = row.iter, !.seen = seen]
  <1>1. r \in SessionType
    BY SnapshotType
  <1>2. sess' = [sess EXCEPT ![s] = r]
    BY DEF Snapshot
  <1>3. r.pc # "working"
    <2>1. r.pc = pc
      BY DEF Idle
    <2>2. QED
      BY <2>1
  <1>4. /\ row' \in RowType /\ log' \subseteq Nat /\ question' \in Seq(QuestionStatus)
        /\ wall' \in BOOLEAN /\ claimant' \in Session \cup {NoSession}
    BY Zenon DEF ColumnsOK
  <1> HIDE DEF r
  <1>5. QED
    BY <1>1, <1>2, <1>3, <1>4, AssembleType

\* Ending: a session stops being live and its lock, if it held one, is free.
LEMMA EndsType ==
  ASSUME ColumnsOK, NEW s \in Session, NEW r \in {Done},
         sess' = [sess EXCEPT ![s] = r],
         row' \in RowType, log' \subseteq Nat, question' \in Seq(QuestionStatus),
         wall' \in BOOLEAN, claimant' \in Session \cup {NoSession},
         \/ lock' = lock /\ sess[s].pc # "working"
         \/ lock \in {NoSession, s} /\ lock' = NoSession
  PROVE  ColumnsOK'
  <1>1. r \in SessionType
    BY DoneType
  <1>2. r.pc # "working"
    BY DEF Done, Idle
  <1>3. QED
    BY <1>1, <1>2, AssembleType

\* Handing over to execute_run.
LEMMA HandsOverType ==
  ASSUME ColumnsOK, NEW s \in Session, NEW n \in Nat, NEW d \in BOOLEAN,
         HandOver(s, n, d), sess[s].pc # "working", lock' = lock,
         row' \in RowType, log' \subseteq Nat, question' \in Seq(QuestionStatus),
         wall' \in BOOLEAN, claimant' \in Session \cup {NoSession}
  PROVE  ColumnsOK'
  <1> DEFINE r == [Idle EXCEPT !.pc = "ready", !.status = "RUNNING",
                 !.version = sess[s].version + n, !.iter = sess[s].iter, !.dirty = d]
  <1>1. r \in SessionType
    BY HandOverType
  <1>2. sess' = [sess EXCEPT ![s] = r]
    BY DEF HandOver
  <1>3. r.pc # "working"
    BY DEF Idle
  <1> HIDE DEF r
  <1>4. QED
    BY <1>1, <1>2, <1>3, AssembleType

LEMMA PartsType ==
  ASSUME ColumnsOK
  PROVE  /\ row \in RowType /\ log \subseteq Nat /\ question \in Seq(QuestionStatus)
         /\ wall \in BOOLEAN /\ claimant \in Session \cup {NoSession}
         /\ \A s \in Session : lock = s <=> sess[s].pc = "working"
  BY Zenon DEF ColumnsOK

LEMMA RequestType ==
  ASSUME ColumnsOK, NEW s \in Session, Request(s)
  PROVE  ColumnsOK'
  <1>1. ASSUME NEW op \in RequestKinds, Receive(s, op)
        PROVE  ColumnsOK'
    <2>1. /\ sess[s].pc = "idle" /\ Snapshot(s, op, "loaded", {})
          /\ UNCHANGED <<row, log, question, wall, lock, claimant>>
      BY <1>1 DEF Receive
    <2>2. QED
      BY <2>1, LoadsType
  <1>2. ASSUME NEW op \in RequestKinds, ReceiveSweep(s, op)
        PROVE  ColumnsOK'
    <2>1. /\ sess[s].pc = "idle"
          /\ UNCHANGED <<row, log, question, wall, lock, claimant>>
          /\ \/ Snapshot(s, op, "loaded", {})
             \/ \E expired \in Expirable \ {{}} : Snapshot(s, op, "swept", expired)
      BY <1>2, Zenon DEF ReceiveSweep
    <2>2. CASE Snapshot(s, op, "loaded", {})
      BY <2>1, <2>2, LoadsType
    <2>3. CASE \E expired \in Expirable \ {{}} : Snapshot(s, op, "swept", expired)
      <3>1. PICK expired \in Expirable : Snapshot(s, op, "swept", expired)
        BY <2>3
      <3>2. expired \in SUBSET Nat
        BY PartsType DEF Expirable, Pending
      <3>3. QED
        BY <2>1, <3>1, <3>2, LoadsType
    <2>4. QED
      BY <2>1, <2>2, <2>3
  <1>3. ASSUME NEW q \in Pending, ReceiveAnswer(s, q)
        PROVE  ColumnsOK'
    <2>1. /\ sess[s].pc = "idle" /\ Snapshot(s, "resolve", "loaded", {q})
          /\ UNCHANGED <<row, log, question, wall, lock, claimant>>
      BY <1>3 DEF ReceiveAnswer
    <2>2. {q} \in SUBSET Nat
      BY PartsType DEF Pending
    <2>3. "resolve" \in RequestKinds
      BY DEF RequestKinds
    <2>4. QED
      BY <2>1, <2>2, <2>3, LoadsType
  <1>4. QED
    BY <1>1, <1>2, <1>3 DEF Request

\* The requests that commit and end, and the errors that end one.
LEMMA EndingHandlersType ==
  ASSUME ColumnsOK, NEW s \in Session,
         \/ CommitPause(s) \/ CommitCancel(s) \/ CommitRecovery(s) \/ CommitExpiry(s)
         \/ BootSweepEnds(s) \/ Conflict(s)
  PROVE  ColumnsOK'
  <1> USE PartsType
  <1>1. CASE CommitPause(s)
    <2>1. /\ CommitRow(s, "PAUSED", 1) /\ EndRequest(s) /\ sess[s].pc = "loaded"
          /\ UNCHANGED <<question, wall, lock, claimant>>
      BY <1>1 DEF CommitPause
    <2>2. row' \in RowType /\ log' \subseteq Nat
      BY <2>1, CommitRowType DEF Statuses
    <2>3. QED
      BY <2>1, <2>2, EndsType DEF EndRequest
  <1>2. CASE CommitCancel(s)
    <2>1. /\ CommitRow(s, "CANCELLED", 1) /\ EndRequest(s) /\ sess[s].pc = "loaded"
          /\ question' = Close(Pending, "CANCELLED") /\ UNCHANGED <<wall, lock, claimant>>
      BY <1>2 DEF CommitCancel
    <2>2. row' \in RowType /\ log' \subseteq Nat
      BY <2>1, CommitRowType DEF Statuses
    <2>3. question' \in Seq(QuestionStatus)
      BY <2>1, CloseQuestions DEF QuestionStatus
    <2>4. QED
      BY <2>1, <2>2, <2>3, EndsType DEF EndRequest
  <1>3. CASE CommitRecovery(s)
    <2>1. /\ CommitRow(s, "PAUSED", 1) /\ EndRequest(s) /\ sess[s].pc = "loaded"
          /\ UNCHANGED <<wall, lock, claimant>>
      BY <1>3 DEF CommitRecovery
    <2>2. row' \in RowType /\ log' \subseteq Nat
      BY <2>1, CommitRowType DEF Statuses
    <2>3. PICK expired \in Expirable : question' = Close(expired, "EXPIRED")
      BY <1>3 DEF CommitRecovery
    <2>4. question' \in Seq(QuestionStatus)
      BY <2>3, CloseQuestions DEF QuestionStatus
    <2>5. QED
      BY <2>1, <2>2, <2>4, EndsType DEF EndRequest
  <1>4. CASE CommitExpiry(s)
    <2>1. /\ EndRequest(s) /\ sess[s].pc = "release" /\ UNCHANGED <<wall, lock, claimant>>
          /\ question' = Close(sess[s].seen, "EXPIRED")
          /\ CommitRow(s, "PAUSED", 1) \/ UNCHANGED <<row, log>>
      BY <1>4, Zenon DEF CommitExpiry
    <2>2. row' \in RowType /\ log' \subseteq Nat
      BY <2>1, CommitRowType DEF Statuses
    <2>3. question' \in Seq(QuestionStatus)
      BY <2>1, CloseQuestions DEF QuestionStatus
    <2>4. QED
      BY <2>1, <2>2, <2>3, EndsType DEF EndRequest
  <1>5. CASE BootSweepEnds(s)
    <2>1. /\ EndRequest(s) /\ sess[s].pc # "working"
          /\ UNCHANGED <<row, log, question, wall, lock, claimant>>
      BY <1>5 DEF BootSweepEnds
    <2>2. QED
      BY <2>1, EndsType DEF EndRequest
  <1>6. CASE Conflict(s)
    <2>1. /\ EndRequest(s) /\ lock \in {NoSession, s} /\ lock' = NoSession
          /\ UNCHANGED <<row, log, question, wall, claimant>>
      BY <1>6 DEF Conflict
    <2>2. QED
      BY <2>1, EndsType DEF EndRequest
  <1>7. QED
    BY <1>1, <1>2, <1>3, <1>4, <1>5, <1>6

\* The requests that go on as workers, and the sweep's second read.
LEMMA ContinuingHandlersType ==
  ASSUME ColumnsOK, NEW s \in Session,
         CommitStart(s) \/ CommitResume(s) \/ CommitAnswer(s) \/ SweepLoadsRun(s)
  PROVE  ColumnsOK'
  <1> USE PartsType
  <1>1. CASE CommitStart(s)
    <2>1. /\ CommitRow(s, "STARTING", 1) /\ HandOver(s, 1, TRUE) /\ sess[s].pc = "loaded"
          /\ UNCHANGED <<question, wall, lock, claimant>>
      BY <1>1 DEF CommitStart
    <2>2. row' \in RowType /\ log' \subseteq Nat
      BY <2>1, CommitRowType DEF Statuses
    <2>3. QED
      BY <2>1, <2>2, HandsOverType
  <1>2. CASE CommitResume(s)
    <2>1. /\ row' = [row EXCEPT !.status = "RUNNING", !.version = sess[s].version + 1,
                                !.beat = "fresh"]
          /\ log' = log \cup NextSeqs(s, 1)
          /\ HandOver(s, 1, FALSE) /\ sess[s].pc = "loaded"
          /\ UNCHANGED <<question, wall, lock, claimant>>
      BY <1>2 DEF CommitResume
    <2>2. row' \in RowType
      <3>1. row \in RowType /\ "RUNNING" \in Statuses /\ sess[s].version + 1 \in Nat
        BY PartsType, SessionFields DEF Statuses
      <3>2. QED
        BY <2>1, <3>1, RowUpdate
    <2>3. log' \subseteq Nat
      BY <2>1, SeqsType
    <2>4. QED
      BY <2>1, <2>2, <2>3, HandsOverType
  <1>3. CASE CommitAnswer(s)
    <2> DEFINE waiting == sess[s].status = "WAITING_FOR_USER"
               n       == IF waiting THEN 2 ELSE 1
               st      == IF waiting THEN "RUNNING" ELSE row.status
               d       == sess[s].status = "STARTING"
    <2>1. /\ CommitRow(s, st, n) /\ HandOver(s, n, d) /\ sess[s].pc = "loaded"
          /\ question' = Close(sess[s].seen, "RESOLVED")
          /\ UNCHANGED <<wall, lock, claimant>>
      BY <1>3 DEF CommitAnswer
    <2>2. st \in Statuses /\ n \in Nat /\ d \in BOOLEAN
      BY RowFields DEF Statuses
    <2> HIDE DEF n, st, d
    <2>3. row' \in RowType /\ log' \subseteq Nat
      BY <2>1, <2>2, CommitRowType
    <2>4. question' \in Seq(QuestionStatus)
      BY <2>1, CloseQuestions DEF QuestionStatus
    <2>5. QED
      BY <2>1, <2>2, <2>3, <2>4, HandsOverType
  <1>4. CASE SweepLoadsRun(s)
    <2>1. /\ Snapshot(s, sess[s].op, "release", sess[s].seen) /\ sess[s].pc = "swept"
          /\ UNCHANGED <<row, log, question, wall, lock, claimant>>
      BY <1>4 DEF SweepLoadsRun
    <2>2. sess[s].op \in RequestKinds \cup {"none"} /\ sess[s].seen \in SUBSET Nat
      BY SessionFields DEF SessionType
    <2>3. QED
      BY <2>1, <2>2, LoadsType
  <1>5. QED
    BY <1>1, <1>2, <1>3, <1>4

\* The worker's steps that keep the session going.
LEMMA ClaimsType ==
  ASSUME ColumnsOK, NEW s \in Session, Claim(s) \/ OpenStep(s) \/ CommitMidStep(s) \/ Advance(s)
  PROVE  ColumnsOK'
  <1>0. sess[s] \in SessionType /\ sess[s].version + 1 \in Nat /\ sess[s].iter + 1 \in Nat
        /\ sess[s].steps + 1 \in Nat /\ sess[s].pend \subseteq Nat
    BY SessionFields
  <1>r. /\ row \in RowType /\ row.status \in Statuses
        /\ row.version + 1 \in Nat /\ row.iter + 1 \in Nat
    BY RowFields, PartsType
  <1>p. /\ log \subseteq Nat /\ question \in Seq(QuestionStatus)
        /\ wall \in BOOLEAN /\ claimant \in Session \cup {NoSession}
        /\ \A t \in Session : lock = t <=> sess[t].pc = "working"
    BY PartsType
  <1>1. CASE Claim(s) /\ ClaimWins(s)
    <2> DEFINE r == [sess[s] EXCEPT !.pc = "claimed", !.version = @ + 1, !.iter = @ + 1,
                                    !.steps = 1, !.dirty = FALSE]
               st == IF sess[s].dirty THEN "RUNNING" ELSE row.status
    <2>1. /\ row' = [row EXCEPT !.status = st, !.version = @ + 1, !.iter = @ + 1,
                                !.beat = "fresh"]
          /\ claimant' = s /\ UNCHANGED <<log, question, wall, lock>>
          /\ sess[s].pc = "ready"
      BY <1>1, Zenon DEF Claim
    <2>2. sess' = [sess EXCEPT ![s] = r]
      BY <1>1 DEF Claim
    <2>3. r \in SessionType
      BY <1>0, ClaimedRecord
    <2>7. r.pc # "working"
      BY <1>0 DEF SessionType
    <2>4. st \in Statuses
      BY <1>r DEF Statuses
    <2> HIDE DEF r, st
    <2>5. row' \in RowType
      BY <1>r, <2>1, <2>4, RowUpdate
    <2>6. QED
      BY <1>p, <2>1, <2>2, <2>3, <2>5, <2>7, AssembleType
  <1>2. CASE Claim(s) /\ ~ClaimWins(s)
    <2>1. /\ EndRequest(s) /\ sess[s].pc = "ready"
          /\ UNCHANGED <<row, log, question, wall, lock, claimant>>
      BY <1>2 DEF Claim
    <2>2. QED
      BY <1>r, <1>p, <2>1, EndsType DEF EndRequest
  <1>3. CASE OpenStep(s)
    <2> DEFINE r == [sess[s] EXCEPT !.pc = "working", !.version = @ + 1,
                                    !.pend = NextSeqs(s, 1)]
    <2>1. /\ sess' = [sess EXCEPT ![s] = r] /\ lock = NoSession /\ lock' = s
          /\ UNCHANGED <<row, log, question, wall, claimant>>
      BY <1>3 DEF OpenStep, Unlocked
    <2>2. NextSeqs(s, 1) \subseteq Nat
      BY SeqsType
    <2>3. r \in SessionType
      BY <1>0, <2>2, WorkingRecord
    <2>4. r.pc = "working"
      BY <1>0 DEF SessionType
    <2> HIDE DEF r
    <2>5. QED
      BY <1>r, <1>p, <2>1, <2>3, <2>4, AssembleType
  <1>4. CASE CommitMidStep(s)
    <2> DEFINE r == [sess[s] EXCEPT !.pc = "offlock", !.tools = @ + 1, !.pend = {}]
    <2>1. /\ sess' = [sess EXCEPT ![s] = r] /\ lock' = NoSession
          /\ row' = [row EXCEPT !.version = sess[s].version]
          /\ log' = log \cup sess[s].pend /\ UNCHANGED <<question, wall, claimant>>
          /\ sess[s].pc = "working" /\ sess[s].tools < MaxToolCalls
      BY <1>4 DEF CommitMidStep, Working, ToolsLeft
    <2>2. sess[s].tools + 1 \in 0..MaxToolCalls
      BY <2>1, SessionFields, AgentRunAssumption DEF AgentRunAssumption
    <2>3. r \in SessionType
      BY <1>0, <2>2, OfflockRecord
    <2>4. r.pc # "working"
      BY <1>0 DEF SessionType
    <2>5. row' \in RowType /\ log' \subseteq Nat
      BY <1>r, <1>p, <2>1, RowUpdate, SessionFields
    <2> HIDE DEF r
    <2>6. QED
      BY <1>p, <2>1, <2>3, <2>4, <2>5, AssembleType
  <1>5. CASE Advance(s)
    <2> DEFINE r == [sess[s] EXCEPT !.pc = "claimed", !.version = @ + 1, !.iter = @ + 1,
                                    !.steps = @ + 1, !.tools = 0, !.pend = {}]
    <2>1. /\ sess' = [sess EXCEPT ![s] = r] /\ lock' = NoSession
          /\ row' = [row EXCEPT !.version = sess[s].version + 1, !.iter = @ + 1,
                                !.beat = "fresh"]
          /\ log' = log \cup sess[s].pend /\ UNCHANGED <<question, wall>>
          /\ claimant' = s /\ sess[s].pc = "working"
      BY <1>5 DEF Advance, Working
    <2>2. r \in SessionType
      BY <1>0, ClaimedRecord
    <2>3. r.pc # "working"
      BY <1>0 DEF SessionType
    <2>4. row' \in RowType /\ log' \subseteq Nat
      BY <1>0, <1>r, <1>p, <2>1, RowUpdate
    <2> HIDE DEF r
    <2>5. QED
      BY <1>p, <2>1, <2>2, <2>3, <2>4, AssembleType
  <1>6. QED
    BY <1>1, <1>2, <1>3, <1>4, <1>5

\* The worker's steps that end the session.
LEMMA StopWithType ==
  ASSUME ColumnsOK, NEW s \in Session, NEW st \in Statuses, StopWith(s, st),
         question' \in Seq(QuestionStatus), wall' \in BOOLEAN
  PROVE  ColumnsOK'
  <1>1. /\ CommitRow(s, st, 1) /\ EndRequest(s) /\ lock' = NoSession /\ claimant' = claimant
        /\ sess[s].pc = "working"
    BY DEF StopWith, Working
  <1>2. row' \in RowType /\ log' \subseteq Nat
    BY <1>1, CommitRowType
  <1>3. lock \in {NoSession, s} /\ claimant' \in Session \cup {NoSession}
    BY <1>1, PartsType
  <1>4. QED
    BY <1>1, <1>2, <1>3, EndsType DEF EndRequest

LEMMA StopsType ==
  ASSUME ColumnsOK, NEW s \in Session,
         StopWithQuestion(s) \/ StopPaused(s) \/ StopBlocked(s) \/ StopFailed(s)
  PROVE  ColumnsOK'
  <1>1. question \in Seq(QuestionStatus) /\ wall \in BOOLEAN
    BY PartsType
  <1>2. CASE StopWithQuestion(s)
    <2>1. /\ StopWith(s, "WAITING_FOR_USER") /\ question' = Append(question, "PENDING")
          /\ UNCHANGED wall
      BY <1>2 DEF StopWithQuestion
    <2>2. question' \in Seq(QuestionStatus)
      BY <1>1, <2>1 DEF QuestionStatus
    <2>3. "WAITING_FOR_USER" \in Statuses
      BY DEF Statuses
    <2>4. wall' \in BOOLEAN
      BY <1>1, <2>1, Zenon
    <2>5. QED
      BY <2>1, <2>2, <2>3, <2>4, StopWithType
  <1>3. CASE StopPaused(s)
    <2>1. StopWith(s, "PAUSED") /\ UNCHANGED <<question, wall>>
      BY <1>3 DEF StopPaused
    <2>2. "PAUSED" \in Statuses
      BY DEF Statuses
    <2>3. question' \in Seq(QuestionStatus) /\ wall' \in BOOLEAN
      BY <1>1, <2>1, Zenon
    <2>4. QED
      BY <2>1, <2>2, <2>3, StopWithType
  <1>4. CASE StopBlocked(s)
    <2>1. StopWith(s, "BLOCKED") /\ wall' \in BOOLEAN /\ UNCHANGED question
      BY <1>4, Zenon DEF StopBlocked
    <2>2. "BLOCKED" \in Statuses
      BY DEF Statuses
    <2>3. question' \in Seq(QuestionStatus)
      BY <1>1, <2>1, Zenon
    <2>4. QED
      BY <2>1, <2>2, <2>3, StopWithType
  <1>5. CASE StopFailed(s)
    <2>1. StopWith(s, "FAILED") /\ question' = Close(Pending, "RESOLVED") /\ UNCHANGED wall
      BY <1>5 DEF StopFailed
    <2>2. question' \in Seq(QuestionStatus)
      BY <1>1, <2>1, CloseQuestions DEF QuestionStatus
    <2>3. "FAILED" \in Statuses
      BY DEF Statuses
    <2>4. wall' \in BOOLEAN
      BY <1>1, <2>1, Zenon
    <2>5. QED
      BY <2>1, <2>2, <2>3, <2>4, StopWithType
  <1>6. QED
    BY <1>2, <1>3, <1>4, <1>5

LEMMA FinishesType ==
  ASSUME ColumnsOK, NEW s \in Session, FailUnclaimed(s) \/ Finish(s)
  PROVE  ColumnsOK'
  <1> USE PartsType
  <1>1. CASE FailUnclaimed(s)
    <2>1. /\ CommitRow(s, "FAILED", 1) /\ EndRequest(s) /\ sess[s].pc = "ready"
          /\ question' = Close(Pending, "RESOLVED") /\ UNCHANGED <<wall, lock, claimant>>
      BY <1>1 DEF FailUnclaimed
    <2>2. row' \in RowType /\ log' \subseteq Nat
      BY <2>1, CommitRowType DEF Statuses
    <2>3. question' \in Seq(QuestionStatus)
      BY <2>1, CloseQuestions DEF QuestionStatus
    <2>4. QED
      BY <2>1, <2>2, <2>3, EndsType DEF EndRequest
  <1>2. CASE Finish(s)
    <2>1. /\ EndRequest(s) /\ sess[s].pc = "claimed"
          /\ CommitRow(s, "BLOCKED", 1) \/ CommitRow(s, "COMPLETED", 1)
          /\ UNCHANGED <<question, wall, lock, claimant>>
      BY <1>2, Zenon DEF Finish
    <2>2. row' \in RowType /\ log' \subseteq Nat
      BY <2>1, CommitRowType DEF Statuses
    <2>3. QED
      BY <2>1, <2>2, EndsType DEF EndRequest
  <1>3. QED
    BY <1>1, <1>2

LEMMA EnvironmentType ==
  ASSUME ColumnsOK
  PROVE  /\ HeartbeatAges => ColumnsOK'
         /\ \A s \in Session : Crash(s) => ColumnsOK'
  <1>1. ASSUME HeartbeatAges PROVE ColumnsOK'
    <2>1. row' = [row EXCEPT !.beat = "stale"] /\ row \in RowType
      BY <1>1, PartsType DEF HeartbeatAges
    <2>2. row' \in RowType
      BY <2>1 DEF RowType
    <2>3. UNCHANGED <<log, question, wall, lock, sess, claimant>>
      BY <1>1 DEF HeartbeatAges
    <2>4. QED
      BY <2>2, <2>3, Zenon DEF ColumnsOK
  <1>2. ASSUME NEW s \in Session, Crash(s) PROVE ColumnsOK'
    <2>1. /\ sess' = [sess EXCEPT ![s] = Done]
          /\ UNCHANGED <<row, log, question, wall, claimant>>
          /\ IF lock = s THEN lock' = NoSession ELSE lock' = lock
      BY <1>2 DEF Crash, EndRequest
    <2>2. \/ lock' = lock /\ sess[s].pc # "working"
          \/ lock \in {NoSession, s} /\ lock' = NoSession
      BY <2>1, PartsType
    <2>3. QED
      BY <2>1, <2>2, PartsType, EndsType
  <1>3. QED
    BY <1>1, <1>2

\* The columns and in-memory state keep their types, a step stays within its tool
\* allowance, and the row lock is held exactly by the worker inside a step.
LEMMA ColumnsCorrect == Spec => []ColumnsOK
  <1>1. ColumnsOK /\ [Next]_vars => ColumnsOK'
    <2> SUFFICES ASSUME ColumnsOK, [Next]_vars PROVE ColumnsOK'
      OBVIOUS
    <2>1. CASE UNCHANGED vars
      BY <2>1, Zenon DEF vars, ColumnsOK
    <2>2. CASE HeartbeatAges
      BY <2>2, EnvironmentType
    <2>3. ASSUME NEW s \in Session, Request(s) PROVE ColumnsOK'
      BY <2>3, RequestType
    <2>4. ASSUME NEW s \in Session, Handle(s) PROVE ColumnsOK'
      BY <2>4, EndingHandlersType, ContinuingHandlersType DEF Handle
    <2>5. ASSUME NEW s \in Session, Work(s) PROVE ColumnsOK'
      BY <2>5, ClaimsType, StopsType, FinishesType DEF Work
    <2>6. ASSUME NEW s \in Session, Crash(s) PROVE ColumnsOK'
      BY <2>6, EnvironmentType
    <2>7. QED
      BY <2>1, <2>2, <2>3, <2>4, <2>5, <2>6 DEF Next
  <1>2. QED
    BY <1>1, InitColumnsOK, PTL DEF Spec

\* The history variable is set by the two requests it remembers, and kept.
LEMMA StrayStays ==
  ASSUME stray \in BOOLEAN, [Next]_vars
  PROVE  stray' \in BOOLEAN /\ (stray => stray')
  <1>1. CASE HeartbeatAges \/ UNCHANGED vars
    BY <1>1 DEF HeartbeatAges, vars
  <1>2. ASSUME NEW s \in Session, Request(s) \/ Crash(s) PROVE UNCHANGED stray
    BY <1>2 DEF Request, Receive, ReceiveAnswer, ReceiveSweep, Crash
  <1>3. ASSUME NEW s \in Session, CommitResume(s) \/ CommitAnswer(s)
        PROVE  stray' \in BOOLEAN /\ (stray => stray')
    BY <1>3 DEF CommitResume, CommitAnswer
  <1>4. ASSUME NEW s \in Session, Handle(s), ~CommitResume(s), ~CommitAnswer(s)
        PROVE  UNCHANGED stray
    BY <1>4 DEF Handle, CommitPause, CommitCancel, CommitStart, CommitRecovery, SweepLoadsRun,
       CommitExpiry, BootSweepEnds, Conflict
  <1>5. ASSUME NEW s \in Session, Work(s) PROVE UNCHANGED stray
    BY <1>5 DEF Work, Claim, OpenStep, CommitMidStep, Advance, StopWith, StopWithQuestion,
       StopPaused, StopBlocked, StopFailed, FailUnclaimed, Finish
  <1> QED
    BY <1>1, <1>2, <1>3, <1>4, <1>5 DEF Next

\* The columns and in-memory state keep their types, a step stays within its tool
\* allowance, and the row lock is held exactly by the worker inside a step (TypeOK).
THEOREM TypeCorrect == Spec => []TypeOK
  <1>1. Init => stray \in BOOLEAN
    BY DEF Init
  <1>2. stray \in BOOLEAN /\ [Next]_vars => (stray \in BOOLEAN)'
    BY StrayStays
  <1>3. ColumnsOK /\ stray \in BOOLEAN => TypeOK
    BY DEF TypeOK
  <1> QED
    BY <1>1, <1>2, <1>3, ColumnsCorrect, PTL DEF Spec

-----------------------------------------------------------------------------
(* A waiting run has a question to answer.                                 *)

LEMMA InitWaitingInv == Init => WaitingInv
  BY DEF Init, WaitingInv, Idle, Pending

LEMMA WaitingInvGivesQuestion == WaitingInv => WaitingHasQuestion
  BY DEF WaitingInv, WaitingHasQuestion

\* A step that changes one session and asks no new question.
LEMMA KeepsWaitingInv ==
  ASSUME ColumnsOK, WaitingInv, NEW s \in Session, NEW r,
         sess' = [sess EXCEPT ![s] = r],
         Len(question') = Len(question), DOMAIN question' = DOMAIN question,
         Pending' \subseteq Pending,
         r.seen \subseteq DOMAIN question,
         r.pc \in {"swept", "release"} =>
             \A p \in Pending, q \in r.seen : p <= q => p \in r.seen,
         row'.status = "WAITING_FOR_USER" =>
             /\ row.status = "WAITING_FOR_USER"
             /\ Len(question) \in Pending'
             /\ r.pc \in {"loaded", "release"} /\ Len(question) \in r.seen
                   => r.status = "WAITING_FOR_USER"
  PROVE  WaitingInv'
  <1>1. sess'[s] = r /\ \A t \in Session \ {s} : sess'[t] = sess[t]
    BY DEF ColumnsOK
  <1>2. \A t \in Session : sess'[t].seen \subseteq DOMAIN question'
    BY <1>1 DEF WaitingInv
  <1>3. \A t \in Session : sess'[t].pc \in {"swept", "release"} =>
           \A p \in Pending', q \in sess'[t].seen : p <= q => p \in sess'[t].seen
    BY <1>1 DEF WaitingInv
  <1>4. row'.status = "WAITING_FOR_USER" =>
           /\ Len(question') \in Pending'
           /\ \A t \in Session :
                  sess'[t].pc \in {"loaded", "release"} /\ Len(question') \in sess'[t].seen
                     => sess'[t].status = "WAITING_FOR_USER"
    BY <1>1 DEF WaitingInv
  <1>5. QED
    BY <1>2, <1>3, <1>4 DEF WaitingInv

\* A session that ends, in a step that leaves the run in a status other than
\* waiting, or leaves status and questions alone.
LEMMA EndsKeepWaitingInv ==
  ASSUME ColumnsOK, WaitingInv, NEW s \in Session, NEW r, r.seen = {},
         sess' = [sess EXCEPT ![s] = r],
         \/ UNCHANGED question
         \/ \E qs, outcome : outcome \in QuestionStatus \ {"PENDING"}
                             /\ question' = Close(qs, outcome)
                             /\ row'.status # "WAITING_FOR_USER",
         row'.status # "WAITING_FOR_USER" \/ row'.status = row.status
  PROVE  WaitingInv'
  <1>1. question \in Seq(QuestionStatus)
    BY DEF ColumnsOK
  <1>2. CASE UNCHANGED question
    <2>1. Pending' = Pending
      BY <1>2 DEF Pending
    <2>2. row'.status = "WAITING_FOR_USER" => row.status = "WAITING_FOR_USER"
                                              /\ Len(question) \in Pending'
      BY <2>1 DEF WaitingInv
    <2>3. QED
      BY <1>2, <2>1, <2>2, KeepsWaitingInv
  <1>3. CASE \E qs, outcome : outcome \in QuestionStatus \ {"PENDING"}
                             /\ question' = Close(qs, outcome)
                             /\ row'.status # "WAITING_FOR_USER"
    <2>1. PICK qs, outcome : outcome \in QuestionStatus \ {"PENDING"}
                             /\ question' = Close(qs, outcome)
                             /\ row'.status # "WAITING_FOR_USER"
      BY <1>3
    <2>2. /\ Len(question') = Len(question) /\ question' \in Seq(QuestionStatus)
          /\ Pending' = Pending \ qs
      BY <1>1, <2>1, CloseQuestions
    <2>3. DOMAIN question' = DOMAIN question
      BY <1>1, <2>2
    <2>4. QED
      BY <2>1, <2>2, <2>3, KeepsWaitingInv
  <1>4. QED
    BY <1>2, <1>3

LEMMA CommitRowStatus ==
  ASSUME ColumnsOK, NEW s, NEW st, NEW n, CommitRow(s, st, n)
  PROVE  row'.status = st
  <1>1. row \in RowType
    BY DEF ColumnsOK
  <1>2. QED
    BY <1>1 DEF CommitRow, RowType

LEMMA EmptySeen == Done.seen = {} /\ Idle.seen = {}
  BY DEF Done, Idle

LEMMA RequestKeepsWaitingInv ==
  ASSUME ColumnsOK, WaitingInv, NEW s \in Session, Request(s)
  PROVE  WaitingInv'
  <1> DEFINE r(op, pc, seen) ==
        [Idle EXCEPT !.pc = pc, !.op = op, !.status = row.status,
             !.version = row.version, !.iter = row.iter, !.seen = seen]
  <1>1. ASSUME NEW op, NEW pc \in {"loaded", "swept"}, NEW seen,
               Snapshot(s, op, pc, seen),
               UNCHANGED <<row, log, question, wall, lock, claimant>>,
               seen \subseteq DOMAIN question,
               pc = "swept" => \A p \in Pending, q \in seen : p <= q => p \in seen
        PROVE  WaitingInv'
    <2>1. sess' = [sess EXCEPT ![s] = r(op, pc, seen)]
      BY <1>1 DEF Snapshot
    <2>2. /\ r(op, pc, seen).seen = seen /\ r(op, pc, seen).pc = pc
          /\ r(op, pc, seen).status = row.status
      BY DEF Idle
    <2>3. Pending' = Pending
      BY <1>1 DEF Pending
    <2> HIDE DEF r
    <2>4. row.status = "WAITING_FOR_USER" => Len(question) \in Pending'
      BY <2>3 DEF WaitingInv
    <2>5. QED
      BY <1>1, <2>1, <2>2, <2>3, <2>4, KeepsWaitingInv
  <1>2. ASSUME NEW op \in RequestKinds, Receive(s, op) PROVE WaitingInv'
    <2>1. /\ Snapshot(s, op, "loaded", {})
          /\ UNCHANGED <<row, log, question, wall, lock, claimant>>
      BY <1>2 DEF Receive
    <2>2. QED
      BY <1>1, <2>1
  <1>3. ASSUME NEW op \in RequestKinds, ReceiveSweep(s, op) PROVE WaitingInv'
    <2>1. /\ UNCHANGED <<row, log, question, wall, lock, claimant>>
          /\ \/ Snapshot(s, op, "loaded", {})
             \/ \E expired \in Expirable \ {{}} : Snapshot(s, op, "swept", expired)
      BY <1>3, Zenon DEF ReceiveSweep
    <2>2. CASE Snapshot(s, op, "loaded", {})
      BY <1>1, <2>1, <2>2
    <2>3. CASE \E expired \in Expirable \ {{}} : Snapshot(s, op, "swept", expired)
      <3>1. PICK expired \in Expirable : Snapshot(s, op, "swept", expired)
        BY <2>3
      <3>2. PICK n \in 0..Len(question) : expired = {q \in Pending : q <= n}
        BY <3>1 DEF Expirable
      <3>3. Pending \subseteq DOMAIN question /\ DOMAIN question \subseteq Nat
        BY PartsType DEF Pending
      <3>4. expired \subseteq DOMAIN question
        BY <3>2, <3>3
      <3>5. \A p \in Pending, q \in expired : p <= q => p \in expired
        BY <3>2, <3>3
      <3>6. QED
        BY <1>1, <2>1, <3>1, <3>4, <3>5
    <2>4. QED
      BY <2>1, <2>2, <2>3
  <1>4. ASSUME NEW q \in Pending, ReceiveAnswer(s, q) PROVE WaitingInv'
    <2>1. /\ Snapshot(s, "resolve", "loaded", {q})
          /\ UNCHANGED <<row, log, question, wall, lock, claimant>>
      BY <1>4 DEF ReceiveAnswer
    <2>2. {q} \subseteq DOMAIN question
      BY DEF Pending
    <2>3. QED
      BY <1>1, <2>1, <2>2
  <1>5. QED
    BY <1>2, <1>3, <1>4 DEF Request

LEMMA EndingHandlersKeepWaitingInv ==
  ASSUME ColumnsOK, WaitingInv, NEW s \in Session,
         \/ CommitPause(s) \/ CommitCancel(s) \/ CommitRecovery(s)
         \/ BootSweepEnds(s) \/ Conflict(s)
  PROVE  WaitingInv'
  <1>1. sess' = [sess EXCEPT ![s] = Done] /\ Done.seen = {}
    BY EmptySeen
       DEF EndRequest, CommitPause, CommitCancel, CommitRecovery, BootSweepEnds, Conflict
  <1>2. CASE CommitPause(s)
    <2>1. row'.status = "PAUSED" /\ UNCHANGED question
      BY <1>2, CommitRowStatus DEF CommitPause
    <2>2. QED
      BY <1>1, <2>1, EndsKeepWaitingInv
  <1>3. CASE CommitCancel(s)
    <2>1. row'.status = "CANCELLED" /\ question' = Close(Pending, "CANCELLED")
      BY <1>3, CommitRowStatus DEF CommitCancel
    <2>2. "CANCELLED" \in QuestionStatus \ {"PENDING"}
      BY DEF QuestionStatus
    <2>3. QED
      BY <1>1, <2>1, <2>2, EndsKeepWaitingInv
  <1>4. CASE CommitRecovery(s)
    <2>1. row'.status = "PAUSED"
          /\ \E expired \in Expirable : question' = Close(expired, "EXPIRED")
      BY <1>4, CommitRowStatus DEF CommitRecovery
    <2>2. "EXPIRED" \in QuestionStatus \ {"PENDING"}
      BY DEF QuestionStatus
    <2>3. QED
      BY <1>1, <2>1, <2>2, EndsKeepWaitingInv
  <1>5. CASE BootSweepEnds(s) \/ Conflict(s)
    <2>1. UNCHANGED <<row, question>>
      BY <1>5 DEF BootSweepEnds, Conflict
    <2>2. QED
      BY <1>1, <2>1, EndsKeepWaitingInv
  <1>6. QED
    BY <1>2, <1>3, <1>4, <1>5

\* A sweep that does not release the run leaves the latest question open: either
\* it never selected it, or an older one it did not select is still open, which
\* its selection rules out.
LEMMA ExpiryKeepsWaitingInv ==
  ASSUME ColumnsOK, WaitingInv, NEW s \in Session, CommitExpiry(s)
  PROVE  WaitingInv'
  <1>1. /\ sess' = [sess EXCEPT ![s] = Done] /\ Done.seen = {} /\ Done.pc = "done"
        /\ question' = Close(sess[s].seen, "EXPIRED") /\ sess[s].pc = "release"
    BY EmptySeen DEF EndRequest, CommitExpiry, Done
  <1>2. "EXPIRED" \in QuestionStatus \ {"PENDING"}
    BY DEF QuestionStatus
  <1>3. CASE LastQuestionExpires(s)
    <2>1. row'.status = "PAUSED"
      BY <1>3, CommitRowStatus DEF CommitExpiry
    <2>2. QED
      BY <1>1, <1>2, <2>1, EndsKeepWaitingInv
  <1>4. CASE ~LastQuestionExpires(s)
    <2>1. UNCHANGED <<row, log>>
      BY <1>4 DEF CommitExpiry
    <2>2. question \in Seq(QuestionStatus)
      BY PartsType
    <2>3. /\ Len(question') = Len(question) /\ question' \in Seq(QuestionStatus)
          /\ Pending' = Pending \ sess[s].seen
      BY <1>1, <1>2, <2>2, CloseQuestions
    <2>4. DOMAIN question' = DOMAIN question
      BY <2>2, <2>3
    <2>5. ASSUME row.status = "WAITING_FOR_USER" PROVE Len(question) \in Pending'
      <3>1. Len(question) \in Pending
        BY <2>5 DEF WaitingInv
      <3>2. CASE sess[s].status # "WAITING_FOR_USER"
        BY <1>1, <2>3, <2>5, <3>1, <3>2 DEF WaitingInv
      <3>3. CASE ~(Pending \subseteq sess[s].seen)
        <4>1. PICK p \in Pending : p \notin sess[s].seen
          BY <3>3
        <4>2. p <= Len(question)
          BY <2>2 DEF Pending
        <4>3. Len(question) \notin sess[s].seen
          BY <1>1, <4>1, <4>2 DEF WaitingInv
        <4>4. QED
          BY <2>3, <3>1, <4>3
      <3>4. QED
        BY <1>4, <3>2, <3>3 DEF LastQuestionExpires
    <2>6. QED
      BY <1>1, <2>1, <2>3, <2>4, <2>5, KeepsWaitingInv
  <1>5. QED
    BY <1>3, <1>4

LEMMA ContinuingHandlersKeepWaitingInv ==
  ASSUME ColumnsOK, WaitingInv, NEW s \in Session,
         CommitStart(s) \/ CommitResume(s) \/ CommitAnswer(s) \/ SweepLoadsRun(s)
  PROVE  WaitingInv'
  <1> DEFINE r(n, d) == [Idle EXCEPT !.pc = "ready", !.status = "RUNNING",
                 !.version = sess[s].version + n, !.iter = sess[s].iter, !.dirty = d]
  <1>0. \A n, d : r(n, d).seen = {} /\ r(n, d).pc = "ready"
    BY DEF Idle
  <1>h. ASSUME NEW n, NEW d, HandOver(s, n, d)
        PROVE  sess' = [sess EXCEPT ![s] = r(n, d)]
    BY <1>h DEF HandOver
  <1> HIDE DEF r
  <1>1. CASE CommitStart(s)
    <2>1. row'.status = "STARTING" /\ UNCHANGED question /\ HandOver(s, 1, TRUE)
      BY <1>1, CommitRowStatus DEF CommitStart
    <2>2. sess' = [sess EXCEPT ![s] = r(1, TRUE)] /\ r(1, TRUE).seen = {}
      BY <1>0, <1>h, <2>1
    <2>3. QED
      BY <2>1, <2>2, EndsKeepWaitingInv
  <1>2. CASE CommitResume(s)
    <2>1. row' = [row EXCEPT !.status = "RUNNING", !.version = sess[s].version + 1,
                             !.beat = "fresh"]
          /\ UNCHANGED question /\ HandOver(s, 1, FALSE)
      BY <1>2 DEF CommitResume
    <2>2. row'.status = "RUNNING"
      BY <2>1, PartsType DEF RowType
    <2>3. QED
      BY <1>0, <1>h, <2>1, <2>2, EndsKeepWaitingInv
  <1>3. CASE CommitAnswer(s)
    <2> DEFINE waiting == sess[s].status = "WAITING_FOR_USER"
               n       == IF waiting THEN 2 ELSE 1
               d       == sess[s].status = "STARTING"
    <2>1. /\ row'.status = IF waiting THEN "RUNNING" ELSE row.status
          /\ question' = Close(sess[s].seen, "RESOLVED") /\ sess[s].pc = "loaded"
          /\ HandOver(s, n, d)
      BY <1>3, CommitRowStatus DEF CommitAnswer
    <2>2. sess' = [sess EXCEPT ![s] = r(n, d)]
      BY <1>h, <2>1
    <2>3. "RESOLVED" \in QuestionStatus \ {"PENDING"}
      BY DEF QuestionStatus
    <2>4. CASE waiting
      <3>1. row'.status # "WAITING_FOR_USER"
        BY <2>1, <2>4
      <3>2. QED
        BY <1>0, <2>1, <2>2, <2>3, <3>1, EndsKeepWaitingInv
    <2>5. CASE ~waiting
      <3>1. question \in Seq(QuestionStatus)
        BY PartsType
      <3>2. /\ Len(question') = Len(question) /\ question' \in Seq(QuestionStatus)
            /\ Pending' = Pending \ sess[s].seen
        BY <2>1, <2>3, <3>1, CloseQuestions
      <3>3. DOMAIN question' = DOMAIN question
        BY <3>1, <3>2
      <3>4. row.status = "WAITING_FOR_USER" => Len(question) \in Pending'
        BY <2>1, <2>5, <3>2 DEF WaitingInv
      <3>5. row'.status = row.status
        BY <2>1, <2>5
      <3>6. QED
        BY <1>0, <2>2, <3>2, <3>3, <3>4, <3>5, KeepsWaitingInv
    <2>6. QED
      BY <2>4, <2>5
  <1>4. CASE SweepLoadsRun(s)
    <2> DEFINE q == [Idle EXCEPT !.pc = "release", !.op = sess[s].op,
                 !.status = row.status, !.version = row.version, !.iter = row.iter,
                 !.seen = sess[s].seen]
    <2>1. /\ sess' = [sess EXCEPT ![s] = q] /\ sess[s].pc = "swept"
          /\ UNCHANGED <<row, question>>
      BY <1>4 DEF SweepLoadsRun, Snapshot
    <2>2. q.seen = sess[s].seen /\ q.status = row.status
      BY DEF Idle
    <2>3. Pending' = Pending
      BY <2>1 DEF Pending
    <2> HIDE DEF q
    <2>4. /\ sess[s].seen \subseteq DOMAIN question
          /\ \A p \in Pending, x \in sess[s].seen : p <= x => p \in sess[s].seen
          /\ row.status = "WAITING_FOR_USER" => Len(question) \in Pending'
      BY <2>1, <2>3 DEF WaitingInv
    <2>5. QED
      BY <2>1, <2>2, <2>3, <2>4, KeepsWaitingInv
  <1>5. QED
    BY <1>1, <1>2, <1>3, <1>4

LEMMA ClaimsKeepWaitingInv ==
  ASSUME ColumnsOK, WaitingInv, NEW s \in Session,
         Claim(s) \/ OpenStep(s) \/ CommitMidStep(s) \/ Advance(s)
  PROVE  WaitingInv'
  <1>0. sess[s] \in SessionType /\ row \in RowType
    BY PartsType, SessionFields
  <1>1. CASE Claim(s) /\ ~ClaimWins(s)
    <2>1. sess' = [sess EXCEPT ![s] = Done] /\ UNCHANGED <<row, question>>
      BY <1>1 DEF Claim, EndRequest
    <2>2. QED
      BY <2>1, EmptySeen, EndsKeepWaitingInv
  <1>2. ASSUME NEW r, sess' = [sess EXCEPT ![s] = r], r.seen = sess[s].seen,
               r.pc \in {"claimed", "working", "offlock"}, UNCHANGED question,
               row'.status \in {"RUNNING", row.status}
        PROVE  WaitingInv'
    <2>1. Pending' = Pending
      BY <1>2 DEF Pending
    <2>2. /\ sess[s].seen \subseteq DOMAIN question
          /\ row.status = "WAITING_FOR_USER" => Len(question) \in Pending'
      BY <2>1 DEF WaitingInv
    <2>3. QED
      BY <1>2, <2>1, <2>2, KeepsWaitingInv
  <1>3. CASE Claim(s) /\ ClaimWins(s)
    <2> DEFINE r == [sess[s] EXCEPT !.pc = "claimed", !.version = @ + 1, !.iter = @ + 1,
                                    !.steps = 1, !.dirty = FALSE]
               st == IF sess[s].dirty THEN "RUNNING" ELSE row.status
    <2>1. sess' = [sess EXCEPT ![s] = r] /\ UNCHANGED question
      BY <1>3 DEF Claim
    <2>2. row' = [row EXCEPT !.status = st, !.version = @ + 1, !.iter = @ + 1,
                             !.beat = "fresh"]
      BY <1>3, Zenon DEF Claim
    <2>3. r.seen = sess[s].seen /\ r.pc = "claimed"
      BY <1>0 DEF SessionType
    <2>4. row'.status = st
      BY <1>0, <2>2 DEF RowType
    <2>5. row'.status \in {"RUNNING", row.status}
      BY <2>4, Zenon
    <2> HIDE DEF r
    <2>6. QED
      BY <1>2, <2>1, <2>3, <2>5
  <1>4. CASE OpenStep(s)
    <2> DEFINE r == [sess[s] EXCEPT !.pc = "working", !.version = @ + 1,
                                    !.pend = NextSeqs(s, 1)]
    <2>1. sess' = [sess EXCEPT ![s] = r] /\ UNCHANGED <<row, question>>
      BY <1>4 DEF OpenStep
    <2>2. r.seen = sess[s].seen /\ r.pc = "working"
      BY <1>0 DEF SessionType
    <2> HIDE DEF r
    <2>3. QED
      BY <1>2, <2>1, <2>2
  <1>5. CASE CommitMidStep(s)
    <2> DEFINE r == [sess[s] EXCEPT !.pc = "offlock", !.tools = @ + 1, !.pend = {}]
    <2>1. /\ sess' = [sess EXCEPT ![s] = r] /\ UNCHANGED question
          /\ row' = [row EXCEPT !.version = sess[s].version]
      BY <1>5 DEF CommitMidStep
    <2>2. r.seen = sess[s].seen /\ r.pc = "offlock"
      BY <1>0 DEF SessionType
    <2>3. row'.status = row.status
      BY <1>0, <2>1 DEF RowType
    <2> HIDE DEF r
    <2>4. QED
      BY <1>2, <2>1, <2>2, <2>3
  <1>6. CASE Advance(s)
    <2> DEFINE r == [sess[s] EXCEPT !.pc = "claimed", !.version = @ + 1, !.iter = @ + 1,
                                    !.steps = @ + 1, !.tools = 0, !.pend = {}]
    <2>1. /\ sess' = [sess EXCEPT ![s] = r] /\ UNCHANGED question
          /\ row' = [row EXCEPT !.version = sess[s].version + 1, !.iter = @ + 1,
                                !.beat = "fresh"]
      BY <1>6 DEF Advance
    <2>2. r.seen = sess[s].seen /\ r.pc = "claimed"
      BY <1>0 DEF SessionType
    <2>3. row'.status = row.status
      BY <1>0, <2>1 DEF RowType
    <2> HIDE DEF r
    <2>4. QED
      BY <1>2, <2>1, <2>2, <2>3
  <1>7. QED
    BY <1>1, <1>3, <1>4, <1>5, <1>6

LEMMA StopsKeepWaitingInv ==
  ASSUME ColumnsOK, WaitingInv, NEW s \in Session,
         \/ StopWithQuestion(s) \/ StopPaused(s) \/ StopBlocked(s) \/ StopFailed(s)
         \/ FailUnclaimed(s) \/ Finish(s)
  PROVE  WaitingInv'
  <1>1. sess' = [sess EXCEPT ![s] = Done] /\ Done.seen = {} /\ Done.pc = "done"
    BY EmptySeen DEF EndRequest, StopWith, StopWithQuestion, StopPaused, StopBlocked,
                     StopFailed, FailUnclaimed, Finish, Done
  <1>2. ASSUME NEW st, StopWith(s, st) PROVE row'.status = st
    BY <1>2, CommitRowStatus DEF StopWith
  <1>3. CASE StopWithQuestion(s)
    <2>1. question \in Seq(QuestionStatus)
      BY PartsType
    <2>2. question' = Append(question, "PENDING")
      BY <1>3 DEF StopWithQuestion
    <2>3. /\ Len(question') = Len(question) + 1 /\ Len(question) \in Nat
          /\ DOMAIN question' = 1..(Len(question) + 1) /\ DOMAIN question = 1..Len(question)
      BY <2>1, <2>2
    <2>4. Pending' = Pending \cup {Len(question')}
      BY <2>1, <2>2, <2>3 DEF Pending
    <2>5. /\ sess'[s] = Done /\ \A t \in Session \ {s} : sess'[t] = sess[t]
      BY <1>1 DEF ColumnsOK
    <2>6. \A t \in Session : sess'[t].seen \subseteq DOMAIN question
      BY <1>1, <2>5 DEF WaitingInv
    <2>7. \A t \in Session : sess'[t].seen \subseteq DOMAIN question'
                             /\ Len(question') \notin sess'[t].seen
      BY <2>3, <2>6
    <2>8. \A t \in Session : sess'[t].pc \in {"swept", "release"} =>
             \A p \in Pending', q \in sess'[t].seen : p <= q => p \in sess'[t].seen
      <3> SUFFICES ASSUME NEW t \in Session, sess'[t].pc \in {"swept", "release"},
                          NEW p \in Pending', NEW q \in sess'[t].seen, p <= q
                   PROVE  p \in sess'[t].seen
        OBVIOUS
      <3>1. t # s /\ sess'[t] = sess[t]
        BY <1>1, <2>5
      <3>2. q \in DOMAIN question
        BY <2>6
      <3>3. p # Len(question')
        BY <2>3, <3>2
      <3>4. QED
        BY <2>4, <3>1, <3>3 DEF WaitingInv
    <2>9. QED
      BY <2>4, <2>7, <2>8 DEF WaitingInv
  <1>4. CASE StopPaused(s) \/ StopBlocked(s)
    <2>1. row'.status \in {"PAUSED", "BLOCKED"} /\ UNCHANGED question
      BY <1>2, <1>4 DEF StopPaused, StopBlocked
    <2>2. QED
      BY <1>1, <2>1, EndsKeepWaitingInv
  <1>5. CASE StopFailed(s) \/ FailUnclaimed(s)
    <2>1. row'.status = "FAILED" /\ question' = Close(Pending, "RESOLVED")
      BY <1>2, <1>5, CommitRowStatus DEF StopFailed, FailUnclaimed
    <2>2. "RESOLVED" \in QuestionStatus \ {"PENDING"}
      BY DEF QuestionStatus
    <2>3. QED
      BY <1>1, <2>1, <2>2, EndsKeepWaitingInv
  <1>6. CASE Finish(s)
    <2>1. /\ UNCHANGED question
          /\ CommitRow(s, "BLOCKED", 1) \/ CommitRow(s, "COMPLETED", 1)
      BY <1>6, Zenon DEF Finish
    <2>2. row'.status = "BLOCKED" \/ row'.status = "COMPLETED"
      BY <2>1, CommitRowStatus
    <2>3. row'.status # "WAITING_FOR_USER" /\ UNCHANGED question
      BY <2>1, <2>2
    <2>4. QED
      BY <1>1, <2>3, EndsKeepWaitingInv
  <1>7. QED
    BY <1>3, <1>4, <1>5, <1>6

LEMMA EnvironmentKeepsWaitingInv ==
  ASSUME ColumnsOK, WaitingInv
  PROVE  /\ HeartbeatAges => WaitingInv'
         /\ \A s \in Session : Crash(s) => WaitingInv'
  <1>1. ASSUME HeartbeatAges PROVE WaitingInv'
    <2>1. row' = [row EXCEPT !.beat = "stale"] /\ row \in RowType
          /\ UNCHANGED <<question, sess>>
      BY <1>1, PartsType DEF HeartbeatAges
    <2>2. row'.status = row.status /\ Pending' = Pending
      BY <2>1 DEF RowType, Pending
    <2>3. QED
      BY <2>1, <2>2 DEF WaitingInv
  <1>2. ASSUME NEW s \in Session, Crash(s) PROVE WaitingInv'
    <2>1. sess' = [sess EXCEPT ![s] = Done] /\ UNCHANGED <<row, question>>
      BY <1>2 DEF Crash, EndRequest
    <2>2. QED
      BY <2>1, EmptySeen, EndsKeepWaitingInv
  <1>3. QED
    BY <1>1, <1>2

\* However answers, expiry sweeps, cancellations, resumptions and workers of one
\* run overlap, a run that waits for its student has a question to answer.
THEOREM WaitingRunHasQuestion == Spec => [](WaitingInv /\ WaitingHasQuestion)
  <1>1. ColumnsOK /\ WaitingInv /\ [Next]_vars => WaitingInv'
    <2> SUFFICES ASSUME ColumnsOK, WaitingInv, [Next]_vars PROVE WaitingInv'
      OBVIOUS
    <2>1. CASE UNCHANGED vars
      BY <2>1 DEF vars, WaitingInv, Pending
    <2>2. CASE HeartbeatAges
      BY <2>2, EnvironmentKeepsWaitingInv
    <2>3. ASSUME NEW s \in Session, Request(s) PROVE WaitingInv'
      BY <2>3, RequestKeepsWaitingInv
    <2>4. ASSUME NEW s \in Session, Handle(s) PROVE WaitingInv'
      BY <2>4, EndingHandlersKeepWaitingInv, ContinuingHandlersKeepWaitingInv,
         ExpiryKeepsWaitingInv DEF Handle
    <2>5. ASSUME NEW s \in Session, Work(s) PROVE WaitingInv'
      BY <2>5, ClaimsKeepWaitingInv, StopsKeepWaitingInv DEF Work
    <2>6. ASSUME NEW s \in Session, Crash(s) PROVE WaitingInv'
      BY <2>6, EnvironmentKeepsWaitingInv
    <2>7. QED
      BY <2>1, <2>2, <2>3, <2>4, <2>5, <2>6 DEF Next
  <1>2. QED
    BY <1>1, ColumnsCorrect, InitWaitingInv, WaitingInvGivesQuestion, PTL DEF Spec

-----------------------------------------------------------------------------
(* Who may write a step, until a request launches a worker on a run that    *)
(* does not wait for one.                                                  *)

\* Statuses a run waits in: a request that saw one of them may launch a worker.
Restartable == {"CREATED", "WAITING_FOR_USER", "PAUSED", "BLOCKED"}

Restarting  == {"start", "resume", "resolve"}
Restarts(s) == /\ sess[s].pc = "loaded" /\ sess[s].op \in Restarting
               /\ sess[s].status \in Restartable
Ready(s)    == sess[s].pc = "ready"
Claimed(s)  == sess[s].pc \in {"claimed", "offlock"}

\* Nothing has a number above top, except the event of the step in progress.
Bounded(top) ==
    /\ row.version <= top
    /\ log \subseteq 1..top
    /\ \A s \in Session : ~Working(s) => sess[s].version <= top /\ sess[s].pend = {}

\* The worker in a step claimed last and writes the next number; one between two
\* transactions is the last claimant at the top, or finds its next number taken.
OneWriter(top) ==
    \A s \in Session :
        /\ Working(s) => /\ s = claimant /\ sess[s].version = top + 1
                         /\ sess[s].pend = {top + 1}
        /\ Claimed(s) => \/ sess[s].version + 1 \in log
                         \/ s = claimant /\ sess[s].version = top

\* Whoever is about to claim wrote the event its version is the number of; if the
\* row still has that number, nothing has been written since.
ReadyWrote(top) ==
    \A s \in Session : Ready(s) =>
        /\ sess[s].version \in log
        /\ row.version = sess[s].version => row.version = top /\ row.status \notin Restartable
        /\ \A t \in Session \ {s} :
              Restarts(t) \/ Ready(t) \/ Claimed(t) => sess[t].version # sess[s].version

\* A number no event has was consumed by a claim: the events around it are there,
\* and neither the row nor a request that starts a worker is still before it.
GapsAreClaims(top) ==
    \A n \in 1..top : n \notin log =>
        /\ n - 1 \in log
        /\ n < top => n + 1 \in log
        /\ row.version # n - 1
        /\ \A s \in Session : Restarts(s) \/ Ready(s) => sess[s].version # n - 1

\* Who may still claim, or has claimed, counts the steps as the row does.
StepsCounted(top) ==
    /\ row.iter <= MaxIterations
    /\ \A s \in Session :
          /\ Working(s) => sess[s].iter = row.iter
          /\ (Restarts(s) \/ Ready(s) \/ Claimed(s)) /\ sess[s].version = top
                => sess[s].iter = row.iter

\* A run that says it is worked on has the latest number.
LiveIsLatest(top) == row.status \in RecoverableStatuses => row.version = top

NumbersFit(top) ==
    /\ Bounded(top) /\ OneWriter(top) /\ ReadyWrote(top) /\ GapsAreClaims(top)
    /\ StepsCounted(top) /\ LiveIsLatest(top)

NumbersInv == \E top \in Nat : NumbersFit(top)

\* What the two histories say: nobody has strayed, or the numbers may not fit.
FitsOrStray == stray \/ NumbersInv

\* A start or a resume under way read a status it may move the run from.
SawMovable(r) ==
    r.pc = "loaded" => /\ r.op = "start" => r.status = "CREATED"
                       /\ r.op = "resume" => r.status \in Restartable \cup {"STARTING"}

LoadedSawMovable == \A s \in Session : SawMovable(sess[s])

\* What a step can do to the numbers.
Becomes(s, r) == sess' = [sess EXCEPT ![s] = r]

Ended(r) == r.pc = "done" /\ r.version = 0 /\ r.pend = {}

Loads(s) ==
    \E r : /\ Becomes(s, r) /\ UNCHANGED <<row, log, claimant>>
           /\ r.pc \in {"loaded", "swept", "release"} /\ r.pend = {}
           /\ r.version = row.version /\ r.iter = row.iter
           /\ r.status = row.status

Ends(s) == \E r : Becomes(s, r) /\ Ended(r) /\ UNCHANGED <<row, log, claimant>>

Writes(s, status, n) ==
    /\ Fits(s, 1)
    /\ log' = log \cup sess[s].pend \cup {n} /\ n = sess[s].version + 1
    /\ row'.version = n /\ row'.status = status /\ row'.iter = row.iter
    /\ UNCHANGED claimant

Parks(s) ==
    \E r, n : /\ Becomes(s, r) /\ Ended(r) /\ Writes(s, row'.status, n)
              /\ row'.status \notin RecoverableStatuses
              /\ Working(s) \/ Unlocked

Launches(s) ==
    /\ Restarts(s) /\ Unlocked /\ Fits(s, 1)
    /\ \E r, n : /\ n \in {sess[s].version + 1, sess[s].version + 2}
                 /\ Becomes(s, r) /\ r.pc = "ready" /\ r.pend = {}
                 /\ r.version = n /\ r.iter = sess[s].iter
                 /\ log' = log \cup ((sess[s].version + 1)..n)
                 /\ row'.version = n /\ row'.iter = row.iter
                 /\ row'.status \in RecoverableStatuses
                 /\ UNCHANGED claimant

Wins(s) ==
    /\ Ready(s) /\ BudgetLeft(s) /\ Unlocked /\ ClaimWins(s)
    /\ \E r : /\ Becomes(s, r) /\ r.pc = "claimed" /\ r.pend = {}
              /\ r.version = sess[s].version + 1 /\ r.iter = sess[s].iter + 1
    /\ row'.status \in {row.status, "RUNNING"}
    /\ row'.version = row.version + 1 /\ row'.iter = row.iter + 1
    /\ claimant' = s /\ UNCHANGED log

Opens(s) ==
    /\ Claimed(s) /\ Unlocked /\ Fits(s, 1)
    /\ \E r : /\ Becomes(s, r) /\ r.pc = "working" /\ r.pend = {sess[s].version + 1}
              /\ r.version = sess[s].version + 1 /\ r.iter = sess[s].iter
    /\ UNCHANGED <<row, log, claimant>>

Commits(s) ==
    /\ Working(s)
    /\ \E r : /\ Becomes(s, r) /\ r.pc = "offlock" /\ r.pend = {}
              /\ r.version = sess[s].version /\ r.iter = sess[s].iter
    /\ row'.status = row.status /\ row'.version = sess[s].version /\ row'.iter = row.iter
    /\ log' = log \cup sess[s].pend /\ UNCHANGED claimant

Advances(s) ==
    /\ Working(s) /\ BudgetLeft(s)
    /\ \E r : /\ Becomes(s, r) /\ r.pc = "claimed" /\ r.pend = {}
              /\ r.version = sess[s].version + 1 /\ r.iter = sess[s].iter + 1
    /\ row'.status = row.status /\ row'.version = sess[s].version + 1
    /\ row'.iter = row.iter + 1
    /\ log' = log \cup sess[s].pend /\ claimant' = s

Ages ==
    /\ row'.status = row.status /\ row'.version = row.version /\ row'.iter = row.iter
    /\ UNCHANGED <<log, sess, claimant>>

Moves(s) ==
    \/ Loads(s) \/ Ends(s) \/ Parks(s) \/ Launches(s) \/ Wins(s) \/ Opens(s)
    \/ Commits(s) \/ Advances(s)

LEMMA OneMore ==
  ASSUME NEW top \in Nat, NEW S, S \subseteq 1..top
  PROVE  (S \cup {top + 1}) \subseteq 1..(top + 1)
  <1> SUFFICES ASSUME NEW n \in S \cup {top + 1} PROVE n \in 1..(top + 1)
    OBVIOUS
  <1>1. CASE n \in S
    <2>1. n \in 1..top
      BY <1>1
    <2> QED
      BY <2>1
  <1>2. CASE n = top + 1
    BY <1>2
  <1> QED
    BY <1>1, <1>2

LEMMA Numbers ==
  ASSUME ColumnsOK
  PROVE  /\ row.version \in Nat /\ row.iter \in Nat /\ log \subseteq Nat
         /\ \A s \in Session : /\ sess[s].version \in Nat /\ sess[s].iter \in Nat
                               /\ lock = s <=> Working(s)
  BY PartsType, SessionFields, RowFields DEF Working

LEMMA OthersStay ==
  ASSUME ColumnsOK, NEW s \in Session, NEW r, Becomes(s, r)
  PROVE  sess'[s] = r /\ \A t \in Session \ {s} : sess'[t] = sess[t]
  BY DEF ColumnsOK, Becomes

LEMMA NobodyWorks ==
  ASSUME ColumnsOK, Unlocked
  PROVE  \A s \in Session : ~Working(s)
  BY Numbers, AgentRunAssumption DEF Unlocked, AgentRunAssumption

LEMMA LoadsKeepsNumbers ==
  ASSUME ColumnsOK, NEW top \in Nat, NumbersFit(top), NEW s \in Session, Loads(s)
  PROVE  NumbersFit(top)'
  <1>1. PICK r : /\ Becomes(s, r) /\ UNCHANGED <<row, log, claimant>>
                 /\ r.pc \in {"loaded", "swept", "release"} /\ r.pend = {}
                 /\ r.version = row.version /\ r.iter = row.iter
                 /\ r.status = row.status
    BY DEF Loads
  <1>2. sess'[s] = r /\ \A t \in Session \ {s} : sess'[t] = sess[t]
    BY <1>1, OthersStay
  <1>3. UNCHANGED <<row, log, claimant>>
    BY <1>1
  <1>4. Bounded(top)'
    BY <1>1, <1>2 DEF NumbersFit, Bounded, Working
  <1>5. OneWriter(top)'
    BY <1>1, <1>2 DEF NumbersFit, OneWriter, Working, Claimed
  <1>6. ReadyWrote(top)'
    BY <1>1, <1>2 DEF NumbersFit, ReadyWrote, Ready, Restarts, Claimed
  <1>7. GapsAreClaims(top)'
    BY <1>1, <1>2 DEF NumbersFit, GapsAreClaims, Ready, Restarts
  <1>8. StepsCounted(top)'
    BY <1>1, <1>2 DEF NumbersFit, StepsCounted, Working, Ready, Restarts, Claimed
  <1>9. LiveIsLatest(top)'
    BY <1>3 DEF NumbersFit, LiveIsLatest
  <1> QED
    BY <1>4, <1>5, <1>6, <1>7, <1>8, <1>9 DEF NumbersFit

LEMMA EndsKeepsNumbers ==
  ASSUME ColumnsOK, NEW top \in Nat, NumbersFit(top), NEW s \in Session, Ends(s)
  PROVE  NumbersFit(top)'
  <1>1. PICK r : Becomes(s, r) /\ Ended(r) /\ UNCHANGED <<row, log, claimant>>
    BY DEF Ends
  <1>2. sess'[s] = r /\ \A t \in Session \ {s} : sess'[t] = sess[t]
    BY <1>1, OthersStay
  <1>3. UNCHANGED <<row, log, claimant>>
    BY <1>1
  <1>4. Bounded(top)'
    BY <1>1, <1>2 DEF NumbersFit, Bounded, Working, Ended
  <1>5. OneWriter(top)'
    BY <1>1, <1>2 DEF NumbersFit, OneWriter, Working, Claimed, Ended
  <1>6. ReadyWrote(top)'
    BY <1>1, <1>2 DEF NumbersFit, ReadyWrote, Ready, Restarts, Claimed, Ended
  <1>7. GapsAreClaims(top)'
    BY <1>1, <1>2 DEF NumbersFit, GapsAreClaims, Ready, Restarts, Ended
  <1>8. StepsCounted(top)'
    BY <1>1, <1>2 DEF NumbersFit, StepsCounted, Working, Ready, Restarts, Claimed, Ended
  <1>9. LiveIsLatest(top)'
    BY <1>3 DEF NumbersFit, LiveIsLatest
  <1> QED
    BY <1>4, <1>5, <1>6, <1>7, <1>8, <1>9 DEF NumbersFit

\* What the number of a written event is: the next one, or a claim's.
LEMMA WrittenNumber ==
  ASSUME ColumnsOK, NEW top \in Nat, NumbersFit(top), NEW s \in Session, Unlocked, Fits(s, 1)
  PROVE  /\ sess[s].version + 1 \notin log
         /\ sess[s].version + 1 \in 1..(top + 1) /\ sess[s].pend = {}
         /\ sess[s].version + 2 \in 1..top => sess[s].version + 2 \in log
  <1>1. sess[s].version \in Nat /\ ~Working(s)
    BY Numbers, NobodyWorks
  <1>2. sess[s].version + 1 \notin log
    BY <1>1 DEF Fits, NextSeqs
  <1>3. sess[s].version <= top /\ sess[s].pend = {}
    BY <1>1 DEF NumbersFit, Bounded
  <1>4. ASSUME sess[s].version + 2 \in 1..top PROVE sess[s].version + 2 \in log
    <2>1. (sess[s].version + 2) - 1 = sess[s].version + 1
      BY <1>1
    <2> QED
      BY <1>2, <1>4, <2>1 DEF NumbersFit, GapsAreClaims
  <1> QED
    BY <1>1, <1>2, <1>3, <1>4

LEMMA ParksKeepsNumbers ==
  ASSUME ColumnsOK, NEW top \in Nat, NumbersFit(top), NEW s \in Session, Parks(s), ~Working(s)
  PROVE  \E up \in Nat : NumbersFit(up)'
  <1>1. PICK r, n : /\ Becomes(s, r) /\ Ended(r) /\ Writes(s, row'.status, n)
                    /\ row'.status \notin RecoverableStatuses /\ Unlocked
    BY DEF Parks
  <1>2. sess'[s] = r /\ \A t \in Session \ {s} : sess'[t] = sess[t]
    BY <1>1, OthersStay
  <1>3. /\ n \notin log /\ n \in 1..(top + 1) /\ log' = log \cup {n}
        /\ n + 1 \in 1..top => n + 1 \in log
    BY <1>1, WrittenNumber, Numbers DEF Writes
  <1>4. /\ row'.version = n /\ row'.iter = row.iter /\ claimant' = claimant
        /\ row'.status \notin RecoverableStatuses
        /\ \A t \in Session : ~Working(t)
        /\ \A t \in Session : sess[t].version \in Nat
    BY <1>1, NobodyWorks, Numbers DEF Writes
  <1>5. PICK up \in Nat : up = (IF n > top THEN n ELSE top)
    BY <1>3
  <1>6. up >= top /\ up >= n /\ up \in {top, n} /\ up \in {top, top + 1}
    BY <1>3, <1>5
  <1>7. Bounded(up)'
    BY <1>1, <1>2, <1>3, <1>4, <1>6 DEF NumbersFit, Bounded, Working, Ended
  <1>8. OneWriter(up)'
    <2> SUFFICES ASSUME NEW t \in Session
                 PROVE  /\ ~Working(t)'
                        /\ Claimed(t)' => \/ sess'[t].version + 1 \in log'
                                          \/ t = claimant' /\ sess'[t].version = up
      BY DEF OneWriter
    <2>1. CASE t = s
      BY <1>1, <1>2, <2>1 DEF Ended, Working, Claimed
    <2>2. CASE t # s
      <3>1. sess'[t] = sess[t]
        BY <1>2, <2>2
      <3>2. Claimed(t) => \/ sess[t].version + 1 \in log
                          \/ t = claimant /\ sess[t].version = top
        BY DEF NumbersFit, OneWriter
      <3> QED
        BY <1>3, <1>4, <1>6, <3>1, <3>2 DEF Working, Claimed
    <2> QED
      BY <2>1, <2>2
  <1>9. ReadyWrote(up)'
    BY <1>1, <1>2, <1>3, <1>4 DEF NumbersFit, ReadyWrote, Ready, Restarts, Claimed, Ended
  <1>10. GapsAreClaims(up)'
    <2> SUFFICES ASSUME NEW g \in 1..up, g \notin log'
                 PROVE  /\ g - 1 \in log' /\ (g < up => g + 1 \in log') /\ row'.version # g - 1
                        /\ \A t \in Session : (Restarts(t) \/ Ready(t))' => sess'[t].version # g - 1
      BY DEF GapsAreClaims
    <2>1. g \in 1..top /\ g \notin log /\ g # n
      BY <1>3, <1>6
    <2>2. /\ g - 1 \in log /\ (g < top => g + 1 \in log)
          /\ \A t \in Session : Restarts(t) \/ Ready(t) => sess[t].version # g - 1
      BY <2>1 DEF NumbersFit, GapsAreClaims
    <2>3. g < up => g + 1 \in log'
      BY <1>3, <1>6, <2>1, <2>2
    <2>4. n # g - 1
      BY <1>3, <2>2
    <2>5. \A t \in Session : (Restarts(t) \/ Ready(t))' => sess'[t].version # g - 1
      BY <1>1, <1>2, <2>2 DEF Restarts, Ready, Ended
    <2> QED
      BY <1>3, <1>4, <2>2, <2>3, <2>4, <2>5
  <1>11. StepsCounted(up)'
    <2>1. row'.iter <= MaxIterations
      BY <1>4 DEF NumbersFit, StepsCounted
    <2>2. ASSUME NEW t \in Session, (Restarts(t) \/ Ready(t) \/ Claimed(t))', sess'[t].version = up
          PROVE  sess'[t].iter = row'.iter
      <3>1. t # s /\ sess'[t] = sess[t]
        BY <1>1, <1>2, <2>2 DEF Restarts, Ready, Claimed, Ended
      <3>2. sess[t].version <= top
        BY <1>4 DEF NumbersFit, Bounded
      <3>3. sess[t].version = top
        BY <1>4, <1>6, <2>2, <3>1, <3>2
      <3> QED
        BY <1>4, <2>2, <3>1, <3>3 DEF NumbersFit, StepsCounted, Restarts, Ready, Claimed
    <2>3. \A t \in Session : ~Working(t)'
      BY <1>1, <1>2, <1>4 DEF Working, Ended
    <2> QED
      BY <2>1, <2>2, <2>3 DEF StepsCounted
  <1>12. LiveIsLatest(up)'
    BY <1>4 DEF LiveIsLatest
  <1> QED
    BY <1>7, <1>8, <1>9, <1>10, <1>11, <1>12 DEF NumbersFit

\* A worker is started only by an event after the latest number.
LEMMA LaunchesKeepsNumbers ==
  ASSUME ColumnsOK, NEW top \in Nat, NumbersFit(top), NEW s \in Session, Launches(s)
  PROVE  \E up \in Nat : NumbersFit(up)'
  <1>1. PICK r, n : /\ n \in {sess[s].version + 1, sess[s].version + 2}
                    /\ Becomes(s, r) /\ r.pc = "ready" /\ r.pend = {}
                    /\ r.version = n /\ r.iter = sess[s].iter
                    /\ log' = log \cup ((sess[s].version + 1)..n)
                    /\ row'.version = n /\ row'.iter = row.iter
                    /\ row'.status \in RecoverableStatuses
                    /\ UNCHANGED claimant
    BY DEF Launches
  <1>2. sess'[s] = r /\ \A t \in Session \ {s} : sess'[t] = sess[t]
    BY <1>1, OthersStay
  <1>3. /\ Restarts(s) /\ sess[s].version + 1 \notin log /\ sess[s].pend = {}
        /\ sess[s].version + 1 \in 1..(top + 1) /\ sess[s].version \in Nat
    BY WrittenNumber, Numbers DEF Launches
  <1>4. sess[s].version = top
    <2> SUFFICES ASSUME sess[s].version + 1 \in 1..top PROVE FALSE
      BY <1>3
    <2>1. sess[s].version = (sess[s].version + 1) - 1
      BY <1>3
    <2> QED
      BY <1>3, <2>1 DEF NumbersFit, GapsAreClaims
  <1>5. PICK up \in Nat : up = n /\ up \in {top + 1, top + 2}
    BY <1>1, <1>3, <1>4
  <1>6. /\ log' = log \cup ((top + 1)..up) /\ row'.version = up /\ row'.iter = row.iter
        /\ claimant' = claimant /\ row'.status \in RecoverableStatuses
        /\ \A t \in Session : ~Working(t)
        /\ \A t \in Session : sess[t].version \in Nat /\ sess[t].version <= top
        /\ log \subseteq 1..top /\ \A t \in Session : sess[t].pend = {}
    BY <1>1, <1>3, <1>4, <1>5, NobodyWorks, Numbers DEF Launches, NumbersFit, Bounded
  <1>7. \A g \in Nat : g \in log' <=> g \in log \/ g \in (top + 1)..up
    BY <1>6
  <1>8. Bounded(up)'
    <2>1. \A t \in Session : sess'[t].version <= up /\ sess'[t].pend = {}
      BY <1>1, <1>2, <1>5, <1>6
    <2>2. log' \subseteq 1..up
      <3> SUFFICES ASSUME NEW g \in log' PROVE g \in 1..up
        OBVIOUS
      <3>1. g \in 1..top \/ g \in (top + 1)..up
        BY <1>6
      <3> QED
        BY <1>5, <3>1
    <2>3. row'.version <= up
      BY <1>6
    <2> QED
      BY <2>1, <2>2, <2>3 DEF Bounded
  <1>9. OneWriter(up)'
    <2> SUFFICES ASSUME NEW t \in Session
                 PROVE  /\ ~Working(t)'
                        /\ Claimed(t)' => sess'[t].version + 1 \in log'
      BY DEF OneWriter
    <2>1. CASE t = s
      BY <1>1, <1>2, <2>1 DEF Working, Claimed
    <2>2. CASE t # s
      <3>1. sess'[t] = sess[t]
        BY <1>2, <2>2
      <3>2. Claimed(t) => \/ sess[t].version + 1 \in log
                          \/ t = claimant /\ sess[t].version = top
        BY DEF NumbersFit, OneWriter
      <3>3. top + 1 \in log'
        BY <1>5, <1>6
      <3> QED
        BY <1>6, <3>1, <3>2, <3>3 DEF Working, Claimed
    <2> QED
      BY <2>1, <2>2
  <1>10. ReadyWrote(up)'
    <2> SUFFICES ASSUME NEW t \in Session, Ready(t)'
                 PROVE  /\ sess'[t].version \in log'
                        /\ row'.version = sess'[t].version =>
                              row'.version = up /\ row'.status \notin Restartable
                        /\ \A u \in Session \ {t} : (Restarts(u) \/ Ready(u) \/ Claimed(u))'
                              => sess'[u].version # sess'[t].version
      BY DEF ReadyWrote
    <2>1. row'.status \notin Restartable
      BY <1>6 DEF RecoverableStatuses, Restartable
    <2>2. CASE t = s
      <3>1. sess'[t].version = up /\ up \in log'
        BY <1>1, <1>2, <1>5, <1>6, <2>2
      <3>2. \A u \in Session \ {t} : sess'[u].version <= top
        BY <1>2, <1>6, <2>2
      <3> QED
        BY <1>5, <1>6, <2>1, <3>1, <3>2
    <2>3. CASE t # s
      <3>1. sess'[t] = sess[t] /\ Ready(t)
        BY <1>2, <2>3 DEF Ready
      <3>2. /\ sess[t].version \in log
            /\ \A u \in Session \ {t} :
                  Restarts(u) \/ Ready(u) \/ Claimed(u) => sess[u].version # sess[t].version
        BY <3>1 DEF NumbersFit, ReadyWrote
      <3>3. ASSUME NEW u \in Session \ {t}, (Restarts(u) \/ Ready(u) \/ Claimed(u))'
            PROVE  sess'[u].version # sess'[t].version
        <4>1. CASE u = s
          BY <1>1, <1>2, <1>5, <1>6, <3>1, <4>1
        <4>2. CASE u # s
          BY <1>2, <3>1, <3>2, <3>3, <4>2 DEF Restarts, Ready, Claimed
        <4> QED
          BY <4>1, <4>2
      <3> QED
        BY <1>6, <2>1, <3>1, <3>2, <3>3
    <2> QED
      BY <2>2, <2>3
  <1>11. GapsAreClaims(up)'
    <2> SUFFICES ASSUME NEW g \in 1..up, g \notin log'
                 PROVE  /\ g - 1 \in log' /\ g + 1 \in log' /\ row'.version # g - 1
                        /\ \A t \in Session : (Restarts(t) \/ Ready(t))' => sess'[t].version # g - 1
      BY DEF GapsAreClaims
    <2>1. g \in 1..top /\ g \notin log
      BY <1>5, <1>7
    <2>2. /\ g - 1 \in log /\ (g < top => g + 1 \in log)
          /\ \A t \in Session : Restarts(t) \/ Ready(t) => sess[t].version # g - 1
      BY <2>1 DEF NumbersFit, GapsAreClaims
    <2>3. ASSUME NEW t \in Session, (Restarts(t) \/ Ready(t))' PROVE sess'[t].version # g - 1
      <3>1. CASE t = s
        BY <1>1, <1>2, <1>5, <2>1, <3>1
      <3>2. CASE t # s
        BY <1>2, <2>2, <2>3, <3>2 DEF Restarts, Ready
      <3> QED
        BY <3>1, <3>2
    <2>4. g + 1 \in log'
      BY <1>5, <1>7, <2>1, <2>2
    <2>5. row'.version # g - 1
      BY <1>5, <1>6, <2>1
    <2> QED
      BY <1>6, <2>2, <2>3, <2>4, <2>5
  <1>12. StepsCounted(up)'
    <2>1. sess[s].iter = row.iter /\ row.iter <= MaxIterations
      BY <1>3, <1>4 DEF NumbersFit, StepsCounted
    <2>2. ASSUME NEW t \in Session, (Restarts(t) \/ Ready(t) \/ Claimed(t))', sess'[t].version = up
          PROVE  sess'[t].iter = row'.iter
      <3>1. t = s
        BY <1>2, <1>5, <1>6, <2>2
      <3> QED
        BY <1>1, <1>2, <2>1, <3>1
    <2>3. \A t \in Session : ~Working(t)'
      BY <1>1, <1>2, <1>6 DEF Working
    <2> QED
      BY <1>6, <2>1, <2>2, <2>3 DEF StepsCounted
  <1>13. LiveIsLatest(up)'
    BY <1>6 DEF LiveIsLatest
  <1>14. NumbersFit(up)'
    BY <1>8, <1>9, <1>10, <1>11, <1>12, <1>13 DEF NumbersFit
  <1> QED
    BY <1>14

\* A claim is won only from the latest number, and whoever claimed before finds its
\* next number taken.
LEMMA WinsKeepsNumbers ==
  ASSUME ColumnsOK, NEW top \in Nat, NumbersFit(top), NEW s \in Session, Wins(s)
  PROVE  NumbersFit(top + 1)'
  <1>1. PICK r : /\ Becomes(s, r) /\ r.pc = "claimed" /\ r.pend = {}
                 /\ r.version = sess[s].version + 1 /\ r.iter = sess[s].iter + 1
    BY DEF Wins
  <1>2. sess'[s] = r /\ \A t \in Session \ {s} : sess'[t] = sess[t]
    BY <1>1, OthersStay
  <1>3. /\ Ready(s) /\ row.version = sess[s].version
        /\ row'.status \in {row.status, "RUNNING"}
        /\ row'.version = row.version + 1 /\ row'.iter = row.iter + 1
        /\ claimant' = s /\ log' = log /\ sess[s].iter < MaxIterations
    BY DEF Wins, ClaimWins, BudgetLeft
  <1>4. row.version = top /\ sess[s].version = top /\ top \in log
    BY <1>3 DEF NumbersFit, ReadyWrote
  <1>5. /\ \A t \in Session : ~Working(t)
        /\ \A t \in Session : /\ sess[t].version \in Nat /\ sess[t].version <= top
                              /\ sess[t].pend = {}
        /\ log \subseteq 1..top /\ MaxIterations \in Nat /\ row.iter \in Nat
    BY NobodyWorks, Numbers, AgentRunAssumption
       DEF Wins, NumbersFit, Bounded, AgentRunAssumption
  <1>6. \A t \in Session \ {s} : Restarts(t) \/ Ready(t) \/ Claimed(t) => sess[t].version # top
    BY <1>3, <1>4 DEF NumbersFit, ReadyWrote
  <1>7. Bounded(top + 1)'
    BY <1>1, <1>2, <1>3, <1>4, <1>5 DEF Bounded, Working
  <1>8. OneWriter(top + 1)'
    <2> SUFFICES ASSUME NEW t \in Session
                 PROVE  /\ ~Working(t)'
                        /\ Claimed(t)' => \/ sess'[t].version + 1 \in log'
                                          \/ t = claimant' /\ sess'[t].version = top + 1
      BY DEF OneWriter
    <2>1. CASE t = s
      BY <1>1, <1>2, <1>3, <1>4, <2>1 DEF Working, Claimed
    <2>2. CASE t # s
      <3>1. sess'[t] = sess[t]
        BY <1>2, <2>2
      <3>2. Claimed(t) => \/ sess[t].version + 1 \in log
                          \/ t = claimant /\ sess[t].version = top
        BY DEF NumbersFit, OneWriter
      <3> QED
        BY <1>3, <1>5, <1>6, <2>2, <3>1, <3>2 DEF Working, Claimed
    <2> QED
      BY <2>1, <2>2
  <1>9. ReadyWrote(top + 1)'
    <2> SUFFICES ASSUME NEW t \in Session, Ready(t)'
                 PROVE  /\ sess'[t].version \in log' /\ row'.version # sess'[t].version
                        /\ \A u \in Session \ {t} : (Restarts(u) \/ Ready(u) \/ Claimed(u))'
                              => sess'[u].version # sess'[t].version
      BY DEF ReadyWrote
    <2>1. t # s /\ sess'[t] = sess[t] /\ Ready(t)
      BY <1>1, <1>2 DEF Ready
    <2>2. /\ sess[t].version \in log
          /\ \A u \in Session \ {t} :
                Restarts(u) \/ Ready(u) \/ Claimed(u) => sess[u].version # sess[t].version
      BY <2>1 DEF NumbersFit, ReadyWrote
    <2>3. \A u \in Session \ {t} : (Restarts(u) \/ Ready(u) \/ Claimed(u))'
                              => sess'[u].version # sess'[t].version
      BY <1>1, <1>2, <1>4, <1>5, <2>1, <2>2 DEF Restarts, Ready, Claimed
    <2> QED
      BY <1>3, <1>4, <1>5, <2>1, <2>2, <2>3
  <1>10. GapsAreClaims(top + 1)'
    <2> SUFFICES ASSUME NEW g \in 1..(top + 1), g \notin log
                 PROVE  /\ g - 1 \in log /\ (g < top + 1 => g + 1 \in log)
                        /\ row'.version # g - 1
                        /\ \A t \in Session : (Restarts(t) \/ Ready(t))' => sess'[t].version # g - 1
      BY <1>3 DEF GapsAreClaims
    <2>1. CASE g = top + 1
      BY <1>1, <1>2, <1>3, <1>4, <1>6, <2>1 DEF Restarts, Ready
    <2>2. CASE g \in 1..top
      <3>1. /\ g - 1 \in log /\ (g < top => g + 1 \in log)
            /\ \A t \in Session : Restarts(t) \/ Ready(t) => sess[t].version # g - 1
        BY <2>2 DEF NumbersFit, GapsAreClaims
      <3>2. g < top
        BY <1>4, <2>2
      <3>3. \A t \in Session : (Restarts(t) \/ Ready(t))' => sess'[t].version # g - 1
        BY <1>1, <1>2, <3>1 DEF Restarts, Ready
      <3> QED
        BY <1>3, <1>4, <3>1, <3>2, <3>3
    <2> QED
      BY <2>1, <2>2
  <1>11. StepsCounted(top + 1)'
    <2>1. sess[s].iter = row.iter
      BY <1>3, <1>4 DEF NumbersFit, StepsCounted
    <2>2. row'.iter <= MaxIterations /\ sess'[s].iter = row'.iter
      BY <1>1, <1>2, <1>3, <1>5, <2>1
    <2>3. \A t \in Session \ {s} : sess'[t].version # top + 1 /\ ~Working(t)'
      BY <1>2, <1>5 DEF Working
    <2>4. ~Working(s)'
      BY <1>1, <1>2 DEF Working
    <2> QED
      BY <2>2, <2>3, <2>4 DEF StepsCounted
  <1>12. LiveIsLatest(top + 1)'
    BY <1>3, <1>4 DEF LiveIsLatest
  <1> QED
    BY <1>7, <1>8, <1>9, <1>10, <1>11, <1>12 DEF NumbersFit

\* Only the last claimant finds its next number free.
LEMMA OpensKeepsNumbers ==
  ASSUME ColumnsOK, NEW top \in Nat, NumbersFit(top), NEW s \in Session, Opens(s)
  PROVE  NumbersFit(top)'
  <1>1. PICK r : /\ Becomes(s, r) /\ r.pc = "working" /\ r.pend = {sess[s].version + 1}
                 /\ r.version = sess[s].version + 1 /\ r.iter = sess[s].iter
    BY DEF Opens
  <1>2. sess'[s] = r /\ \A t \in Session \ {s} : sess'[t] = sess[t]
    BY <1>1, OthersStay
  <1>3. Claimed(s) /\ row' = row /\ log' = log /\ claimant' = claimant
        /\ sess[s].version + 1 \notin log
    BY WrittenNumber DEF Opens
  <1>4. s = claimant /\ sess[s].version = top /\ sess[s].iter = row.iter
    BY <1>3 DEF NumbersFit, OneWriter, StepsCounted
  <1>5. Bounded(top)'
    BY <1>1, <1>2, <1>3 DEF NumbersFit, Bounded, Working
  <1>6. \A t \in Session : ~Working(t)
    BY NobodyWorks DEF Opens
  <1>7. OneWriter(top)'
    BY <1>1, <1>2, <1>3, <1>4, <1>6 DEF NumbersFit, OneWriter, Working, Claimed
  <1>8. ReadyWrote(top)'
    BY <1>1, <1>2, <1>3 DEF NumbersFit, ReadyWrote, Ready, Restarts, Claimed
  <1>9. GapsAreClaims(top)'
    BY <1>1, <1>2, <1>3 DEF NumbersFit, GapsAreClaims, Ready, Restarts
  <1>10. StepsCounted(top)'
    BY <1>1, <1>2, <1>3, <1>4, <1>6
       DEF NumbersFit, StepsCounted, Working, Ready, Restarts, Claimed
  <1>11. LiveIsLatest(top)'
    BY <1>3 DEF NumbersFit, LiveIsLatest
  <1> QED
    BY <1>5, <1>7, <1>8, <1>9, <1>10, <1>11 DEF NumbersFit

\* What is known of a worker inside a step.
LEMMA AtWork ==
  ASSUME ColumnsOK, NEW top \in Nat, NumbersFit(top), NEW s \in Session, Working(s)
  PROVE  /\ s = claimant /\ sess[s].version = top + 1 /\ sess[s].pend = {top + 1}
         /\ sess[s].iter = row.iter /\ row.iter \in Nat /\ row.version <= top
         /\ row.version \in Nat /\ log \subseteq 1..top
         /\ \A t \in Session \ {s} : /\ ~Working(t) /\ sess[t].version \in Nat
                                     /\ sess[t].version <= top /\ sess[t].pend = {}
  BY Numbers DEF NumbersFit, OneWriter, Bounded, StepsCounted

LEMMA CommitsKeepsNumbers ==
  ASSUME ColumnsOK, NEW top \in Nat, NumbersFit(top), NEW s \in Session, Commits(s)
  PROVE  NumbersFit(top + 1)'
  <1>1. PICK r : /\ Becomes(s, r) /\ r.pc = "offlock" /\ r.pend = {}
                 /\ r.version = sess[s].version /\ r.iter = sess[s].iter
    BY DEF Commits
  <1>2. sess'[s] = r /\ \A t \in Session \ {s} : sess'[t] = sess[t]
    BY <1>1, OthersStay
  <1>3. /\ s = claimant /\ sess[s].version = top + 1 /\ sess[s].iter = row.iter
        /\ row.iter \in Nat /\ log \subseteq 1..top
        /\ \A t \in Session \ {s} : /\ ~Working(t) /\ sess[t].version \in Nat
                                    /\ sess[t].version <= top /\ sess[t].pend = {}
    BY AtWork DEF Commits
  <1>4. /\ row'.status = row.status /\ row'.version = top + 1 /\ row'.iter = row.iter
        /\ log' = log \cup {top + 1} /\ claimant' = claimant
    BY AtWork DEF Commits
  <1>5. Bounded(top + 1)'
    BY <1>1, <1>2, <1>3, <1>4 DEF Bounded, Working
  <1>6. OneWriter(top + 1)'
    BY <1>1, <1>2, <1>3, <1>4 DEF NumbersFit, OneWriter, Working, Claimed
  <1>7. ReadyWrote(top + 1)'
    <2> SUFFICES ASSUME NEW t \in Session, Ready(t)'
                 PROVE  /\ sess'[t].version \in log' /\ row'.version # sess'[t].version
                        /\ \A u \in Session \ {t} : (Restarts(u) \/ Ready(u) \/ Claimed(u))'
                              => sess'[u].version # sess'[t].version
      BY DEF ReadyWrote
    <2>1. t # s /\ sess'[t] = sess[t] /\ Ready(t)
      BY <1>1, <1>2 DEF Ready
    <2>2. /\ sess[t].version \in log
          /\ \A u \in Session \ {t} :
                Restarts(u) \/ Ready(u) \/ Claimed(u) => sess[u].version # sess[t].version
      BY <2>1 DEF NumbersFit, ReadyWrote
    <2>3. \A u \in Session \ {t} : (Restarts(u) \/ Ready(u) \/ Claimed(u))'
                              => sess'[u].version # sess'[t].version
      BY <1>1, <1>2, <1>3, <2>1, <2>2 DEF Restarts, Ready, Claimed
    <2> QED
      BY <1>3, <1>4, <2>1, <2>2, <2>3
  <1>8. GapsAreClaims(top + 1)'
    <2> SUFFICES ASSUME NEW g \in 1..(top + 1), g \notin log'
                 PROVE  /\ g - 1 \in log' /\ g + 1 \in log' /\ row'.version # g - 1
                        /\ \A t \in Session : (Restarts(t) \/ Ready(t))' => sess'[t].version # g - 1
      BY DEF GapsAreClaims
    <2>1. g \in 1..top /\ g \notin log
      BY <1>4
    <2>2. /\ g - 1 \in log /\ (g < top => g + 1 \in log)
          /\ \A t \in Session : Restarts(t) \/ Ready(t) => sess[t].version # g - 1
      BY <2>1 DEF NumbersFit, GapsAreClaims
    <2>3. \A t \in Session : (Restarts(t) \/ Ready(t))' => sess'[t].version # g - 1
      BY <1>1, <1>2, <2>2 DEF Restarts, Ready
    <2> QED
      BY <1>4, <2>1, <2>2, <2>3
  <1>9. StepsCounted(top + 1)'
    BY <1>1, <1>2, <1>3, <1>4
       DEF NumbersFit, StepsCounted, Restarts, Ready, Claimed, Working
  <1>10. LiveIsLatest(top + 1)'
    BY <1>4 DEF LiveIsLatest
  <1> QED
    BY <1>5, <1>6, <1>7, <1>8, <1>9, <1>10 DEF NumbersFit

LEMMA AdvancesKeepsNumbers ==
  ASSUME ColumnsOK, NEW top \in Nat, NumbersFit(top), NEW s \in Session, Advances(s)
  PROVE  NumbersFit(top + 2)'
  <1>1. PICK r : /\ Becomes(s, r) /\ r.pc = "claimed" /\ r.pend = {}
                 /\ r.version = sess[s].version + 1 /\ r.iter = sess[s].iter + 1
    BY DEF Advances
  <1>2. sess'[s] = r /\ \A t \in Session \ {s} : sess'[t] = sess[t]
    BY <1>1, OthersStay
  <1>3. /\ s = claimant /\ sess[s].version = top + 1 /\ sess[s].iter = row.iter
        /\ row.iter \in Nat /\ log \subseteq 1..top
        /\ \A t \in Session \ {s} : /\ ~Working(t) /\ sess[t].version \in Nat
                                    /\ sess[t].version <= top /\ sess[t].pend = {}
    BY AtWork DEF Advances
  <1>4. /\ row'.status = row.status /\ row'.version = top + 2 /\ row'.iter = row.iter + 1
        /\ log' = log \cup {top + 1} /\ claimant' = s /\ row.iter < MaxIterations
        /\ MaxIterations \in Nat
    BY AtWork, AgentRunAssumption DEF Advances, BudgetLeft, AgentRunAssumption
  <1>5. Bounded(top + 2)'
    BY <1>1, <1>2, <1>3, <1>4 DEF Bounded, Working
  <1>6. OneWriter(top + 2)'
    BY <1>1, <1>2, <1>3, <1>4 DEF NumbersFit, OneWriter, Working, Claimed
  <1>7. ReadyWrote(top + 2)'
    <2> SUFFICES ASSUME NEW t \in Session, Ready(t)'
                 PROVE  /\ sess'[t].version \in log' /\ row'.version # sess'[t].version
                        /\ \A u \in Session \ {t} : (Restarts(u) \/ Ready(u) \/ Claimed(u))'
                              => sess'[u].version # sess'[t].version
      BY DEF ReadyWrote
    <2>1. t # s /\ sess'[t] = sess[t] /\ Ready(t)
      BY <1>1, <1>2 DEF Ready
    <2>2. /\ sess[t].version \in log
          /\ \A u \in Session \ {t} :
                Restarts(u) \/ Ready(u) \/ Claimed(u) => sess[u].version # sess[t].version
      BY <2>1 DEF NumbersFit, ReadyWrote
    <2>3. \A u \in Session \ {t} : (Restarts(u) \/ Ready(u) \/ Claimed(u))'
                              => sess'[u].version # sess'[t].version
      BY <1>1, <1>2, <1>3, <2>1, <2>2 DEF Restarts, Ready, Claimed
    <2> QED
      BY <1>3, <1>4, <2>1, <2>2, <2>3
  <1>8. GapsAreClaims(top + 2)'
    <2> SUFFICES ASSUME NEW g \in 1..(top + 2), g \notin log'
                 PROVE  /\ g - 1 \in log' /\ (g < top + 2 => g + 1 \in log')
                        /\ row'.version # g - 1
                        /\ \A t \in Session : (Restarts(t) \/ Ready(t))' => sess'[t].version # g - 1
      BY DEF GapsAreClaims
    <2>1. \/ g \in 1..top /\ g \notin log
          \/ g = top + 2
      BY <1>4
    <2>2. CASE g \in 1..top /\ g \notin log
      <3>1. /\ g - 1 \in log /\ (g < top => g + 1 \in log)
            /\ \A t \in Session : Restarts(t) \/ Ready(t) => sess[t].version # g - 1
        BY <2>2 DEF NumbersFit, GapsAreClaims
      <3>2. \A t \in Session : (Restarts(t) \/ Ready(t))' => sess'[t].version # g - 1
        BY <1>1, <1>2, <3>1 DEF Restarts, Ready
      <3> QED
        BY <1>4, <2>2, <3>1, <3>2
    <2>3. CASE g = top + 2
      <3>1. \A t \in Session : (Restarts(t) \/ Ready(t))' => sess'[t].version # top + 1
        BY <1>1, <1>2, <1>3 DEF Restarts, Ready
      <3> QED
        BY <1>4, <2>3, <3>1
    <2> QED
      BY <2>1, <2>2, <2>3
  <1>9. StepsCounted(top + 2)'
    BY <1>1, <1>2, <1>3, <1>4 DEF StepsCounted, Restarts, Ready, Claimed, Working
  <1>10. LiveIsLatest(top + 2)'
    BY <1>4 DEF LiveIsLatest
  <1> QED
    BY <1>5, <1>6, <1>7, <1>8, <1>9, <1>10 DEF NumbersFit

LEMMA StopsKeepsNumbers ==
  ASSUME ColumnsOK, NEW top \in Nat, NumbersFit(top), NEW s \in Session, Parks(s), Working(s)
  PROVE  NumbersFit(top + 2)'
  <1>1. PICK r, n : /\ Becomes(s, r) /\ Ended(r) /\ Writes(s, row'.status, n)
                    /\ row'.status \notin RecoverableStatuses
    BY DEF Parks
  <1>2. sess'[s] = r /\ \A t \in Session \ {s} : sess'[t] = sess[t]
    BY <1>1, OthersStay
  <1>3. /\ s = claimant /\ row.iter \in Nat /\ log \subseteq 1..top
        /\ \A t \in Session \ {s} : /\ ~Working(t) /\ sess[t].version \in Nat
                                    /\ sess[t].version <= top /\ sess[t].pend = {}
    BY AtWork
  <1>4. /\ row'.version = top + 2 /\ row'.iter = row.iter
        /\ log' = log \cup {top + 1, top + 2} /\ claimant' = claimant
        /\ row'.status \notin RecoverableStatuses
    BY <1>1, AtWork DEF Writes
  <1>5. Bounded(top + 2)'
    <2>1. \A t \in Session : sess'[t].version <= top + 2 /\ sess'[t].pend = {}
      BY <1>1, <1>2, <1>3 DEF Ended
    <2>2. log' \subseteq 1..(top + 2)
      <3>1. (log \cup {top + 1}) \subseteq 1..(top + 1)
        BY <1>3, OneMore
      <3>2. ((log \cup {top + 1}) \cup {top + 1 + 1}) \subseteq 1..(top + 1 + 1)
        BY <3>1, OneMore
      <3>3. top + 1 + 1 = top + 2
        OBVIOUS
      <3> QED
        BY <3>2, <3>3, <1>4
    <2>3. row'.version <= top + 2
      BY <1>4
    <2> QED
      BY <2>1, <2>2, <2>3 DEF Bounded
  <1>6. OneWriter(top + 2)'
    BY <1>1, <1>2, <1>3, <1>4 DEF NumbersFit, OneWriter, Working, Claimed, Ended
  <1>7. ReadyWrote(top + 2)'
    <2> SUFFICES ASSUME NEW t \in Session, Ready(t)'
                 PROVE  /\ sess'[t].version \in log' /\ row'.version # sess'[t].version
                        /\ \A u \in Session \ {t} : (Restarts(u) \/ Ready(u) \/ Claimed(u))'
                              => sess'[u].version # sess'[t].version
      BY DEF ReadyWrote
    <2>1. t # s /\ sess'[t] = sess[t] /\ Ready(t)
      BY <1>1, <1>2 DEF Ready, Ended
    <2>2. /\ sess[t].version \in log
          /\ \A u \in Session \ {t} :
                Restarts(u) \/ Ready(u) \/ Claimed(u) => sess[u].version # sess[t].version
      BY <2>1 DEF NumbersFit, ReadyWrote
    <2>3. \A u \in Session \ {t} : (Restarts(u) \/ Ready(u) \/ Claimed(u))'
                              => sess'[u].version # sess'[t].version
      BY <1>1, <1>2, <2>1, <2>2 DEF Restarts, Ready, Claimed, Ended
    <2> QED
      BY <1>3, <1>4, <2>1, <2>2, <2>3
  <1>8. GapsAreClaims(top + 2)'
    <2> SUFFICES ASSUME NEW g \in 1..(top + 2), g \notin log'
                 PROVE  /\ g - 1 \in log' /\ g + 1 \in log' /\ row'.version # g - 1
                        /\ \A t \in Session : (Restarts(t) \/ Ready(t))' => sess'[t].version # g - 1
      BY DEF GapsAreClaims
    <2>1. g \in 1..top /\ g \notin log
      BY <1>4
    <2>2. /\ g - 1 \in log /\ (g < top => g + 1 \in log)
          /\ \A t \in Session : Restarts(t) \/ Ready(t) => sess[t].version # g - 1
      BY <2>1 DEF NumbersFit, GapsAreClaims
    <2>3. \A t \in Session : (Restarts(t) \/ Ready(t))' => sess'[t].version # g - 1
      BY <1>1, <1>2, <2>2 DEF Restarts, Ready, Ended
    <2> QED
      BY <1>4, <2>1, <2>2, <2>3
  <1>9. StepsCounted(top + 2)'
    <2>1. \A t \in Session : ~Working(t)' /\ (Restarts(t) \/ Ready(t) \/ Claimed(t))'
                                => sess'[t].version # top + 2
      BY <1>1, <1>2, <1>3 DEF Restarts, Ready, Claimed, Working, Ended
    <2>2. \A t \in Session : ~Working(t)'
      BY <1>1, <1>2, <1>3 DEF Working, Ended
    <2> QED
      BY <1>4, <2>1, <2>2 DEF NumbersFit, StepsCounted
  <1>10. LiveIsLatest(top + 2)'
    BY <1>4 DEF LiveIsLatest
  <1> QED
    BY <1>5, <1>6, <1>7, <1>8, <1>9, <1>10 DEF NumbersFit

LEMMA AgesKeepsNumbers ==
  ASSUME NEW top \in Nat, NumbersFit(top), Ages
  PROVE  NumbersFit(top)'
  BY DEF Ages, NumbersFit, Bounded, OneWriter, ReadyWrote, GapsAreClaims, StepsCounted,
         LiveIsLatest, Working, Ready, Restarts, Claimed

LEMMA MovesKeepNumbers ==
  ASSUME ColumnsOK, NumbersInv, NEW s \in Session, Moves(s)
  PROVE  NumbersInv'
  <1>1. PICK top \in Nat : NumbersFit(top)
    BY DEF NumbersInv
  <1>2. \E up \in Nat : NumbersFit(up)'
    <2>1. top + 1 \in Nat /\ top + 2 \in Nat
      OBVIOUS
    <2> QED
      BY <1>1, <2>1, LoadsKeepsNumbers, EndsKeepsNumbers, ParksKeepsNumbers, StopsKeepsNumbers,
         LaunchesKeepsNumbers, WinsKeepsNumbers, OpensKeepsNumbers, CommitsKeepsNumbers,
         AdvancesKeepsNumbers DEF Moves
  <1> QED
    BY <1>2 DEF NumbersInv

\* Every step of the run is one of the moves.
LEMMA SnapshotLoads ==
  ASSUME ColumnsOK, NEW s \in Session, NEW op, NEW pc \in {"loaded", "swept", "release"}, NEW seen,
         Snapshot(s, op, pc, seen), UNCHANGED <<row, log, claimant>>
  PROVE  Loads(s)
  <1> DEFINE r == [Idle EXCEPT !.pc = pc, !.op = op, !.status = row.status,
                       !.version = row.version, !.iter = row.iter, !.seen = seen]
  <1>1. /\ r.pc = pc /\ r.op = op /\ r.version = row.version /\ r.iter = row.iter
        /\ r.pend = {} /\ r.status = row.status
    BY DEF Idle
  <1>2. Becomes(s, r)
    BY DEF Snapshot, Becomes
  <1> HIDE DEF r
  <1> QED
    BY <1>1, <1>2 DEF Loads

LEMMA RequestMoves ==
  ASSUME ColumnsOK, NEW s \in Session, Request(s)
  PROVE  Loads(s)
  <1>1. ASSUME NEW op \in RequestKinds, Receive(s, op) PROVE Loads(s)
    BY <1>1, SnapshotLoads DEF Receive
  <1>2. ASSUME NEW op \in RequestKinds, ReceiveSweep(s, op) PROVE Loads(s)
    <2>1. /\ \E pc \in {"loaded", "swept"} : \E seen : Snapshot(s, op, pc, seen)
          /\ UNCHANGED <<row, log, claimant>>
      BY <1>2 DEF ReceiveSweep
    <2> QED
      BY <2>1, SnapshotLoads
  <1>3. ASSUME NEW q \in Pending, ReceiveAnswer(s, q) PROVE Loads(s)
    BY <1>3, SnapshotLoads DEF ReceiveAnswer
  <1> QED
    BY <1>1, <1>2, <1>3 DEF Request

LEMMA EndedSessions == Ended(Done)
  BY DEF Ended, Done, Idle

LEMMA WrittenRow ==
  ASSUME ColumnsOK, NEW s \in Session, NEW status, Fits(s, 1), CommitRow(s, status, 1),
         UNCHANGED claimant
  PROVE  Writes(s, status, sess[s].version + 1) /\ row'.status = status
  <1>1. row' = [row EXCEPT !.status = status, !.version = sess[s].version + 1]
    BY DEF CommitRow
  <1>2. row'.status = status /\ row'.version = sess[s].version + 1 /\ row'.iter = row.iter
    BY <1>1, PartsType DEF RowType
  <1>3. NextSeqs(s, 1) = {sess[s].version + 1}
    BY Numbers DEF NextSeqs
  <1> QED
    BY <1>2, <1>3 DEF CommitRow, Writes

LEMMA EndingMoves ==
  ASSUME ColumnsOK, NEW s \in Session, EndRequest(s)
  PROVE  /\ UNCHANGED <<row, log, claimant>> => Ends(s)
         /\ \A status \in Statuses \ RecoverableStatuses :
               /\ Unlocked \/ Working(s)
               /\ Fits(s, 1) /\ CommitRow(s, status, 1) /\ UNCHANGED claimant
               => Parks(s)
  <1>1. Becomes(s, Done) /\ Ended(Done)
    BY EndedSessions DEF EndRequest, Becomes
  <1>2. ASSUME NEW status \in Statuses \ RecoverableStatuses, Unlocked \/ Working(s),
               Fits(s, 1), CommitRow(s, status, 1), UNCHANGED claimant
        PROVE  Parks(s)
    BY <1>1, <1>2, WrittenRow DEF Parks
  <1> QED
    BY <1>1, <1>2 DEF Ends

LEMMA HandlersMove ==
  ASSUME ColumnsOK, NumbersInv, LoadedSawMovable, NEW s \in Session, Handle(s), ~stray'
  PROVE  Moves(s)
  <1>0. {"PAUSED", "CANCELLED"} \subseteq Statuses \ RecoverableStatuses
    BY DEF Statuses, RecoverableStatuses
  <1>1. CASE CommitPause(s) \/ CommitCancel(s) \/ CommitRecovery(s)
    BY <1>0, <1>1, EndingMoves DEF CommitPause, CommitCancel, CommitRecovery, Moves
  <1>2. CASE CommitExpiry(s)
    BY <1>0, <1>2, EndingMoves DEF CommitExpiry, Moves
  <1>3. CASE BootSweepEnds(s) \/ Conflict(s)
    BY <1>3, EndingMoves DEF BootSweepEnds, Conflict, Moves
  <1>4. CASE SweepLoadsRun(s)
    BY <1>4, SnapshotLoads DEF SweepLoadsRun, Moves
  <1>5. ASSUME NEW d, NEW n, HandOver(s, n, d)
        PROVE  \E r : /\ Becomes(s, r) /\ r.pc = "ready" /\ r.pend = {}
                      /\ r.version = sess[s].version + n /\ r.iter = sess[s].iter
    <2> DEFINE r == [Idle EXCEPT !.pc = "ready", !.status = "RUNNING",
                 !.version = sess[s].version + n, !.iter = sess[s].iter, !.dirty = d]
    <2>1. /\ r.pc = "ready" /\ r.pend = {}
          /\ r.version = sess[s].version + n /\ r.iter = sess[s].iter
      BY DEF Idle
    <2>2. Becomes(s, r)
      BY <1>5 DEF HandOver, Becomes
    <2> HIDE DEF r
    <2> QED
      BY <2>1, <2>2
  <1>6. ASSUME NEW n \in {1, 2}, NEW d, HandOver(s, n, d), Restarts(s), Unlocked, Fits(s, n),
               row'.version = sess[s].version + n, row'.iter = row.iter,
               row'.status \in RecoverableStatuses,
               log' = log \cup NextSeqs(s, n), UNCHANGED claimant
        PROVE  Launches(s)
    <2>1. PICK r : /\ Becomes(s, r) /\ r.pc = "ready" /\ r.pend = {}
                   /\ r.version = sess[s].version + n /\ r.iter = sess[s].iter
      BY <1>5, <1>6
    <2>2. sess[s].version \in Nat
      BY Numbers
    <2>3. Fits(s, 1)
      <3>1. NextSeqs(s, 1) \subseteq NextSeqs(s, n)
        BY <1>6, <2>2 DEF NextSeqs
      <3> QED
        BY <1>6, <3>1 DEF Fits
    <2>4. sess[s].version + n \in {sess[s].version + 1, sess[s].version + 2}
      BY <1>6, <2>2
    <2> QED
      BY <1>6, <2>1, <2>3, <2>4 DEF Launches, NextSeqs
  <1>7. sess[s].pc = "loaded" => sess[s].pend = {}
    BY DEF NumbersInv, NumbersFit, Bounded, Working
  <1>8. ASSUME NEW st, NEW n \in {1, 2}, CommitRow(s, st, n), sess[s].pc = "loaded"
        PROVE  /\ row'.version = sess[s].version + n /\ row'.iter = row.iter
               /\ row'.status = st /\ log' = log \cup NextSeqs(s, n)
    BY <1>7, <1>8, PartsType DEF CommitRow, RowType
  <1>9. CASE CommitStart(s)
    <2>1. /\ sess[s].pc = "loaded" /\ Unlocked /\ Fits(s, 1) /\ CommitRow(s, "STARTING", 1)
          /\ HandOver(s, 1, TRUE) /\ UNCHANGED claimant
      BY <1>9 DEF CommitStart
    <2>2. Restarts(s)
      BY <1>9 DEF CommitStart, Restarts, Restarting, Restartable, LoadedSawMovable, SawMovable
    <2> QED
      BY <1>6, <1>8, <2>1, <2>2 DEF Moves, RecoverableStatuses
  <1>10. CASE CommitResume(s)
    <2>1. /\ sess[s].pc = "loaded" /\ Unlocked /\ Fits(s, 1)
          /\ HandOver(s, 1, FALSE) /\ UNCHANGED claimant /\ log' = log \cup NextSeqs(s, 1)
      BY <1>10 DEF CommitResume
    <2>2. /\ row'.status = "RUNNING" /\ row'.version = sess[s].version + 1
          /\ row'.iter = row.iter
      BY <1>10, PartsType DEF CommitResume, RowType
    <2>3. sess[s].status # "STARTING"
      BY <1>10 DEF CommitResume
    <2>4. Restarts(s)
      BY <1>10, <2>3 DEF CommitResume, Restarts, Restarting, LoadedSawMovable, SawMovable
    <2> QED
      BY <1>6, <2>1, <2>2, <2>4 DEF Moves, RecoverableStatuses
  <1>11. CASE CommitAnswer(s)
    <2>1. sess[s].status = "WAITING_FOR_USER" /\ sess[s].op = "resolve"
      BY <1>11 DEF CommitAnswer
    <2>2. /\ sess[s].pc = "loaded" /\ Unlocked /\ Fits(s, 2) /\ CommitRow(s, "RUNNING", 2)
          /\ HandOver(s, 2, FALSE) /\ UNCHANGED claimant
      BY <1>11, <2>1 DEF CommitAnswer
    <2>3. Restarts(s)
      BY <2>1, <2>2 DEF Restarts, Restarting, Restartable
    <2> QED
      BY <1>6, <1>8, <2>2, <2>3 DEF Moves, RecoverableStatuses
  <1> QED
    BY <1>1, <1>2, <1>3, <1>4, <1>9, <1>10, <1>11 DEF Handle

LEMMA WorkMoves ==
  ASSUME ColumnsOK, NumbersInv, NEW s \in Session, Work(s)
  PROVE  Moves(s)
  <1>0. sess[s] \in SessionType /\ row \in RowType /\ sess[s].version \in Nat
    BY PartsType, SessionFields
  <1>1. ~Working(s) => sess[s].pend = {}
    BY DEF NumbersInv, NumbersFit, Bounded
  <1>2. {"PAUSED", "BLOCKED", "COMPLETED", "FAILED", "WAITING_FOR_USER"}
           \subseteq Statuses \ RecoverableStatuses
    BY DEF Statuses, RecoverableStatuses
  <1>3. CASE Claim(s) /\ ~ClaimWins(s)
    BY <1>3, EndingMoves DEF Claim, Moves
  <1>4. CASE Claim(s) /\ ClaimWins(s)
    <2> DEFINE r == [sess[s] EXCEPT !.pc = "claimed", !.version = @ + 1, !.iter = @ + 1,
                                    !.steps = 1, !.dirty = FALSE]
               st == IF sess[s].dirty THEN "RUNNING" ELSE row.status
    <2>1. /\ Becomes(s, r) /\ UNCHANGED log /\ claimant' = s /\ Ready(s)
          /\ BudgetLeft(s) /\ Unlocked
      BY <1>4 DEF Claim, Becomes, Ready
    <2>2. row' = [row EXCEPT !.status = st, !.version = @ + 1, !.iter = @ + 1,
                             !.beat = "fresh"]
      BY <1>4, Zenon DEF Claim
    <2>3. /\ r.pc = "claimed" /\ r.version = sess[s].version + 1
          /\ r.iter = sess[s].iter + 1 /\ r.pend = sess[s].pend
      BY <1>0 DEF SessionType
    <2>4. /\ row'.status = st /\ row'.version = row.version + 1 /\ row'.iter = row.iter + 1
      BY <1>0, <2>2 DEF RowType
    <2>5. row'.status \in {row.status, "RUNNING"} /\ r.pend = {}
      BY <1>1, <2>1, <2>3, <2>4 DEF Ready, Working
    <2> HIDE DEF r, st
    <2> QED
      BY <1>4, <2>1, <2>3, <2>4, <2>5 DEF Wins, Moves
  <1>5. CASE OpenStep(s)
    <2> DEFINE r == [sess[s] EXCEPT !.pc = "working", !.version = @ + 1,
                                    !.pend = NextSeqs(s, 1)]
    <2>1. /\ Becomes(s, r) /\ UNCHANGED <<row, log, claimant>>
          /\ Claimed(s) /\ Unlocked /\ Fits(s, 1)
      BY <1>5 DEF OpenStep, Becomes, Claimed
    <2>2. NextSeqs(s, 1) = {sess[s].version + 1}
      BY <1>0 DEF NextSeqs
    <2>3. /\ r.pc = "working" /\ r.version = sess[s].version + 1
          /\ r.iter = sess[s].iter /\ r.pend = {sess[s].version + 1}
      BY <1>0, <2>2 DEF SessionType
    <2> HIDE DEF r
    <2> QED
      BY <2>1, <2>3 DEF Opens, Moves
  <1>6. CASE CommitMidStep(s)
    <2> DEFINE r == [sess[s] EXCEPT !.pc = "offlock", !.tools = @ + 1, !.pend = {}]
    <2>1. /\ Becomes(s, r) /\ UNCHANGED claimant /\ Working(s)
          /\ log' = log \cup sess[s].pend
          /\ row' = [row EXCEPT !.version = sess[s].version]
      BY <1>6 DEF CommitMidStep, Becomes
    <2>2. /\ r.pc = "offlock" /\ r.version = sess[s].version
          /\ r.iter = sess[s].iter /\ r.pend = {}
      BY <1>0 DEF SessionType
    <2>3. /\ row'.status = row.status /\ row'.version = sess[s].version
          /\ row'.iter = row.iter
      BY <1>0, <2>1 DEF RowType
    <2> HIDE DEF r
    <2> QED
      BY <2>1, <2>2, <2>3 DEF Commits, Moves
  <1>7. CASE Advance(s)
    <2> DEFINE r == [sess[s] EXCEPT !.pc = "claimed", !.version = @ + 1, !.iter = @ + 1,
                                    !.steps = @ + 1, !.tools = 0, !.pend = {}]
    <2>1. /\ Becomes(s, r) /\ claimant' = s /\ Working(s) /\ BudgetLeft(s)
          /\ log' = log \cup sess[s].pend
          /\ row' = [row EXCEPT !.version = sess[s].version + 1, !.iter = @ + 1,
                                !.beat = "fresh"]
      BY <1>7 DEF Advance, Becomes
    <2>2. /\ r.pc = "claimed" /\ r.version = sess[s].version + 1
          /\ r.iter = sess[s].iter + 1 /\ r.pend = {}
      BY <1>0 DEF SessionType
    <2>3. /\ row'.status = row.status /\ row'.version = sess[s].version + 1
          /\ row'.iter = row.iter + 1
      BY <1>0, <2>1 DEF RowType
    <2> HIDE DEF r
    <2> QED
      BY <2>1, <2>2, <2>3 DEF Advances, Moves
  <1>8. ASSUME NEW st \in Statuses \ RecoverableStatuses, StopWith(s, st) PROVE Moves(s)
    BY <1>8, EndingMoves DEF StopWith, Moves
  <1>9. CASE StopWithQuestion(s) \/ StopPaused(s) \/ StopBlocked(s) \/ StopFailed(s)
    BY <1>2, <1>8, <1>9 DEF StopWithQuestion, StopPaused, StopBlocked, StopFailed
  <1>10. CASE FailUnclaimed(s)
    BY <1>2, <1>10, EndingMoves DEF FailUnclaimed, Moves
  <1>11. CASE Finish(s)
    <2>1. /\ CommitRow(s, "BLOCKED", 1) \/ CommitRow(s, "COMPLETED", 1)
          /\ Unlocked /\ Fits(s, 1) /\ EndRequest(s) /\ UNCHANGED claimant
      BY <1>11, Zenon DEF Finish
    <2> QED
      BY <1>2, <2>1, EndingMoves DEF Moves
  <1> QED
    BY <1>3, <1>4, <1>5, <1>6, <1>7, <1>9, <1>10, <1>11 DEF Work

LEMMA InitNumbers == Init => NumbersInv /\ LoadedSawMovable
  <1> SUFFICES ASSUME Init PROVE NumbersFit(1) /\ LoadedSawMovable
    BY DEF NumbersInv
  <1>1. \A s \in Session : sess[s] = Idle
    BY DEF Init
  <1>2. /\ Idle.pc = "idle" /\ Idle.op = "none" /\ Idle.version = 0 /\ Idle.pend = {}
    BY DEF Idle
  <1>3. /\ row.version = 1 /\ row.iter = 0 /\ row.status = "CREATED" /\ log = {1}
        /\ MaxIterations \in Nat
    BY AgentRunAssumption DEF Init, AgentRunAssumption
  <1> HIDE DEF Init
  <1> QED
    BY <1>1, <1>2, <1>3
       DEF NumbersFit, Bounded, OneWriter, ReadyWrote, GapsAreClaims, StepsCounted,
           LiveIsLatest, LoadedSawMovable, SawMovable, Working, Ready, Claimed, Restarts, RecoverableStatuses

LEMMA StatusesToMoveFrom ==
  /\ \A st \in Statuses : CanMove(st, "STARTING") => st = "CREATED"
  /\ \A st \in Statuses : CanMove(st, "RUNNING") => st \in Restartable \cup {"STARTING"}
  BY DEF CanMove, Transitions, Statuses, Restartable

LEMMA SawMovableStays ==
  ASSUME ColumnsOK, LoadedSawMovable, [Next]_vars
  PROVE  LoadedSawMovable'
  <1>1. ASSUME NEW s \in Session, NEW r, sess' = [sess EXCEPT ![s] = r], SawMovable(r)
        PROVE  LoadedSawMovable'
    BY <1>1 DEF LoadedSawMovable, ColumnsOK
  <1>2. ASSUME NEW s \in Session, EndRequest(s) PROVE LoadedSawMovable'
    <2>1. Done.pc # "loaded"
      BY DEF Done, Idle
    <2> QED
      BY <1>1, <1>2, <2>1 DEF EndRequest, SawMovable
  <1>3. ASSUME NEW s \in Session, NEW op, NEW pc, NEW seen, Snapshot(s, op, pc, seen),
               /\ pc = "loaded" /\ op = "start" => row.status = "CREATED"
               /\ pc = "loaded" /\ op = "resume" => row.status \in Restartable \cup {"STARTING"}
        PROVE  LoadedSawMovable'
    <2> DEFINE r == [Idle EXCEPT !.pc = pc, !.op = op, !.status = row.status,
                         !.version = row.version, !.iter = row.iter, !.seen = seen]
    <2>1. /\ r.op = op /\ r.pc = pc /\ r.status = row.status
          /\ sess' = [sess EXCEPT ![s] = r]
      BY <1>3 DEF Snapshot, Idle
    <2> HIDE DEF r
    <2>2. SawMovable(r)
      BY <1>3, <2>1 DEF SawMovable
    <2> QED
      BY <1>1, <2>1, <2>2
  <1>4. ASSUME NEW s \in Session, NEW n, NEW d, HandOver(s, n, d) PROVE LoadedSawMovable'
    <2> DEFINE r == [Idle EXCEPT !.pc = "ready", !.status = "RUNNING",
                 !.version = sess[s].version + n, !.iter = sess[s].iter, !.dirty = d]
    <2>1. r.pc # "loaded" /\ sess' = [sess EXCEPT ![s] = r]
      BY <1>4 DEF HandOver, Idle
    <2> HIDE DEF r
    <2> QED
      BY <1>1, <2>1 DEF SawMovable
  <1>5. CASE UNCHANGED sess
    BY <1>5 DEF LoadedSawMovable
  <1>6. ASSUME NEW s \in Session, Request(s) PROVE LoadedSawMovable'
    <2>1. ASSUME NEW op \in RequestKinds, Receive(s, op) PROVE LoadedSawMovable'
      <3>1. op = "start" => row.status = "CREATED"
        BY <2>1, StatusesToMoveFrom, RowFields DEF Receive, Admissible
      <3>2. op = "resume" => row.status \in Restartable \cup {"STARTING"}
        BY <2>1, StatusesToMoveFrom, RowFields DEF Receive, Admissible
      <3> QED
        BY <1>3, <2>1, <3>1, <3>2 DEF Receive
    <2>2. ASSUME NEW op \in RequestKinds, ReceiveSweep(s, op) PROVE LoadedSawMovable'
      <3>1. op \in {"recover", "boot"} /\ \E pc, seen : Snapshot(s, op, pc, seen)
        BY <2>2 DEF ReceiveSweep
      <3> QED
        BY <1>3, <3>1
    <2>3. ASSUME NEW q \in Pending, ReceiveAnswer(s, q) PROVE LoadedSawMovable'
      BY <1>3, <2>3 DEF ReceiveAnswer
    <2> QED
      BY <1>6, <2>1, <2>2, <2>3 DEF Request
  <1>7. ASSUME NEW s \in Session, Handle(s) PROVE LoadedSawMovable'
    <2>1. CASE SweepLoadsRun(s)
      BY <1>3, <2>1 DEF SweepLoadsRun
    <2> QED
      BY <1>2, <1>4, <1>7, <2>1
         DEF Handle, CommitPause, CommitCancel, CommitStart, CommitResume, CommitAnswer,
             CommitRecovery, CommitExpiry, BootSweepEnds, Conflict
  <1>8. ASSUME NEW s \in Session, Work(s) PROVE LoadedSawMovable'
    <2>1. ASSUME NEW r, r.pc # "loaded", sess' = [sess EXCEPT ![s] = r]
          PROVE  LoadedSawMovable'
      BY <1>1, <2>1 DEF SawMovable
    <2>2. sess[s] \in SessionType
      BY SessionFields
    <2>3. CASE Claim(s) /\ ClaimWins(s)
      <3> DEFINE r == [sess[s] EXCEPT !.pc = "claimed", !.version = @ + 1, !.iter = @ + 1,
                                      !.steps = 1, !.dirty = FALSE]
      <3>1. r.pc # "loaded" /\ sess' = [sess EXCEPT ![s] = r]
        BY <2>2, <2>3 DEF Claim, SessionType
      <3> HIDE DEF r
      <3> QED
        BY <2>1, <3>1
    <2>4. CASE OpenStep(s)
      <3> DEFINE r == [sess[s] EXCEPT !.pc = "working", !.version = @ + 1,
                                      !.pend = NextSeqs(s, 1)]
      <3>1. r.pc # "loaded" /\ sess' = [sess EXCEPT ![s] = r]
        BY <2>2, <2>4 DEF OpenStep, SessionType
      <3> HIDE DEF r
      <3> QED
        BY <2>1, <3>1
    <2>5. CASE CommitMidStep(s)
      <3> DEFINE r == [sess[s] EXCEPT !.pc = "offlock", !.tools = @ + 1, !.pend = {}]
      <3>1. r.pc # "loaded" /\ sess' = [sess EXCEPT ![s] = r]
        BY <2>2, <2>5 DEF CommitMidStep, SessionType
      <3> HIDE DEF r
      <3> QED
        BY <2>1, <3>1
    <2>6. CASE Advance(s)
      <3> DEFINE r == [sess[s] EXCEPT !.pc = "claimed", !.version = @ + 1, !.iter = @ + 1,
                                      !.steps = @ + 1, !.tools = 0, !.pend = {}]
      <3>1. r.pc # "loaded" /\ sess' = [sess EXCEPT ![s] = r]
        BY <2>2, <2>6 DEF Advance, SessionType
      <3> HIDE DEF r
      <3> QED
        BY <2>1, <3>1
    <2>7. CASE Claim(s) /\ ~ClaimWins(s)
      BY <1>2, <2>7 DEF Claim
    <2> QED
      BY <1>2, <1>8, <2>3, <2>4, <2>5, <2>6, <2>7
         DEF Work, StopWith, StopWithQuestion, StopPaused, StopBlocked, StopFailed,
             FailUnclaimed, Finish
  <1>9. ASSUME NEW s \in Session, Crash(s) PROVE LoadedSawMovable'
    BY <1>2, <1>9 DEF Crash
  <1>10. CASE HeartbeatAges \/ UNCHANGED vars
    BY <1>5, <1>10 DEF HeartbeatAges, vars
  <1> QED
    BY <1>6, <1>7, <1>8, <1>9, <1>10 DEF Next

LEMMA NumbersStay ==
  ASSUME ColumnsOK, NumbersInv, LoadedSawMovable, [Next]_vars, ~stray'
  PROVE  NumbersInv'
  <1>1. CASE UNCHANGED vars
    <2>1. PICK top \in Nat : NumbersFit(top)
      BY DEF NumbersInv
    <2>2. Ages
      BY <1>1 DEF vars, Ages
    <2> QED
      BY <2>1, <2>2, AgesKeepsNumbers DEF NumbersInv
  <1>2. CASE HeartbeatAges
    <2>1. PICK top \in Nat : NumbersFit(top)
      BY DEF NumbersInv
    <2>2. Ages
      BY <1>2, PartsType DEF HeartbeatAges, RowType, Ages
    <2> QED
      BY <2>1, <2>2, AgesKeepsNumbers DEF NumbersInv
  <1>3. ASSUME NEW s \in Session, Crash(s) PROVE Moves(s)
    BY <1>3, EndedSessions DEF Crash, EndRequest, Moves, Ends, Becomes
  <1>4. ASSUME NEW s \in Session, Request(s) \/ Handle(s) \/ Work(s) \/ Crash(s)
        PROVE  NumbersInv'
    BY <1>3, <1>4, RequestMoves, HandlersMove, WorkMoves, MovesKeepNumbers DEF Moves
  <1> QED
    BY <1>1, <1>2, <1>4 DEF Next

LEMMA FitsOrStrayStays ==
  ASSUME TypeOK, FitsOrStray, LoadedSawMovable, [Next]_vars
  PROVE  FitsOrStray'
  BY NumbersStay, StrayStays DEF TypeOK, FitsOrStray

LEMMA NumbersTell ==
  ASSUME ColumnsOK, NumbersInv
  PROVE  StepWriterIsClaimant /\ row.iter <= MaxIterations
  <1>1. PICK top \in Nat : NumbersFit(top)
    BY DEF NumbersInv
  <1>2. ASSUME lock # NoSession PROVE lock = claimant
    <2>1. lock \in Session /\ Working(lock)
      BY <1>2, Numbers DEF ColumnsOK
    <2> QED
      BY <1>1, <2>1 DEF NumbersFit, OneWriter
  <1> QED
    BY <1>1, <1>2 DEF StepWriterIsClaimant, NumbersFit, StepsCounted

\* The numbers fit throughout, until a request strays.
LEMMA NumbersHold == Spec => [](TypeOK /\ FitsOrStray /\ LoadedSawMovable)
  <1>1. Init => FitsOrStray /\ LoadedSawMovable
    BY InitNumbers DEF FitsOrStray
  <1>2. TypeOK /\ LoadedSawMovable /\ [Next]_vars => LoadedSawMovable'
    BY SawMovableStays DEF TypeOK
  <1>3. TypeOK /\ FitsOrStray /\ LoadedSawMovable /\ [Next]_vars => FitsOrStray'
    BY FitsOrStrayStays
  <1> QED
    BY <1>1, <1>2, <1>3, TypeCorrect, PTL DEF Spec

\* Two workers never interleave steps on one run, whatever starts, answers, pauses,
\* resumptions, sweeps and crashes overlap, until an answer goes to a question the
\* run does not wait for or a resume to a starting run (OneWriterUnlessStray).
THEOREM OneWriterPerRun == Spec => []OneWriterUnlessStray
  <1>1. TypeOK /\ FitsOrStray => OneWriterUnlessStray
    BY NumbersTell DEF TypeOK, FitsOrStray, OneWriterUnlessStray
  <1> QED
    BY <1>1, NumbersHold, PTL

\* And until then no run takes more steps than its budget, though each of its
\* workers counts on a copy of its own (BudgetUnlessStray).
THEOREM RunsStayInBudget == Spec => []BudgetUnlessStray
  <1>1. TypeOK /\ FitsOrStray => BudgetUnlessStray
    BY NumbersTell DEF TypeOK, FitsOrStray, BudgetUnlessStray
  <1> QED
    BY <1>1, NumbersHold, PTL

\* A sweep that holds the latest number is not refused.
LEMMA SweepIsNotRefused ==
  ASSUME ColumnsOK, NumbersInv, NEW s \in Session, Abandoned(s), sess[s].op = "recover"
  PROVE  ~Conflict(s)
  <1>1. PICK top \in Nat : NumbersFit(top)
    BY DEF NumbersInv
  <1>2. sess[s].version = top /\ log \subseteq 1..top
    BY <1>1 DEF Abandoned, NumbersFit, LiveIsLatest, Bounded
  <1>3. NextAppend(s) = 1
    BY DEF NextAppend
  <1>4. Fits(s, 1)
    BY <1>2 DEF Fits, NextSeqs
  <1> QED
    BY <1>3, <1>4 DEF Conflict

LEMMA SweepsPark ==
  ASSUME TypeOK, FitsOrStray, ~stray,
         NEW s \in Session, Abandoned(s), sess[s].op = "recover", Handle(s)
  PROVE  row'.status \notin RecoverableStatuses
  <1>1. ColumnsOK /\ NumbersInv /\ sess[s].pc = "loaded"
    BY DEF TypeOK, FitsOrStray, Abandoned
  <1>2. CommitRecovery(s)
    BY <1>1, SweepIsNotRefused
       DEF Handle, CommitPause, CommitCancel, CommitStart, CommitResume, CommitAnswer,
           SweepLoadsRun, CommitExpiry, BootSweepEnds
  <1>3. row'.status = "PAUSED"
    BY <1>1, <1>2, CommitRowStatus DEF CommitRecovery
  <1> QED
    BY <1>3 DEF RecoverableStatuses

\* A recovery request that finds a run claiming to be worked on, and nobody working,
\* takes it out of that status: unless a request has strayed, the number its event
\* needs is free (SweepParks).
THEOREM SweepsAlwaysPark == Spec => SweepParks
  <1>1. TypeOK /\ FitsOrStray /\ [Next]_vars
        => [\A s \in Session :
              ~stray /\ Abandoned(s) /\ sess[s].op = "recover" /\ Handle(s)
                 => row'.status \notin RecoverableStatuses]_vars
    BY SweepsPark
  <1> QED
    BY <1>1, NumbersHold, PTL DEF Spec, SweepParks

-----------------------------------------------------------------------------
(* A run that failed or was cancelled asks nothing.                        *)

\* Only a step that closes every open question gives a run one of these statuses;
\* the question a worker asks comes with the status that waits for it.
LEMMA ClosedStays ==
  ASSUME ColumnsOK, ClosedRunHasNoQuestion, [Next]_vars
  PROVE  ClosedRunHasNoQuestion'
  <1>0. row \in RowType /\ question \in Seq(QuestionStatus)
    BY PartsType
  <1>1. ASSUME row'.status = row.status, Pending' \subseteq Pending
        PROVE  ClosedRunHasNoQuestion'
    BY <1>1 DEF ClosedRunHasNoQuestion
  <1>2. ASSUME row'.status \notin {"FAILED", "CANCELLED"}
        PROVE  ClosedRunHasNoQuestion'
    BY <1>2 DEF ClosedRunHasNoQuestion
  <1>3. ASSUME NEW outcome \in QuestionStatus \ {"PENDING"}, NEW qs,
               question' = Close(qs, outcome)
        PROVE  Pending' = Pending \ qs
    BY <1>0, <1>3, CloseQuestions
  <1>4. {"RESOLVED", "CANCELLED", "EXPIRED"} \subseteq QuestionStatus \ {"PENDING"}
    BY DEF QuestionStatus
  <1>5. ASSUME UNCHANGED question PROVE Pending' = Pending
    BY <1>5 DEF Pending
  <1>6. CASE HeartbeatAges \/ UNCHANGED vars
    BY <1>0, <1>1, <1>5, <1>6 DEF HeartbeatAges, vars, RowType
  <1>7. ASSUME NEW s \in Session, Request(s) \/ Crash(s) PROVE ClosedRunHasNoQuestion'
    BY <1>1, <1>5, <1>7 DEF Request, Receive, ReceiveSweep, ReceiveAnswer, Crash
  <1>8. ASSUME NEW s \in Session, Handle(s) PROVE ClosedRunHasNoQuestion'
    <2>1. CASE CommitPause(s) \/ CommitStart(s) \/ CommitRecovery(s)
      BY <1>2, <2>1, CommitRowStatus DEF CommitPause, CommitStart, CommitRecovery
    <2>2. CASE CommitResume(s)
      BY <1>0, <1>2, <2>2 DEF CommitResume, RowType
    <2>3. CASE CommitCancel(s)
      BY <1>3, <1>4, <2>3 DEF CommitCancel, ClosedRunHasNoQuestion
    <2>4. CASE CommitAnswer(s)
      <3>1. /\ row'.status \in {"RUNNING", row.status}
            /\ question' = Close(sess[s].seen, "RESOLVED")
        BY <2>4, CommitRowStatus DEF CommitAnswer
      <3> QED
        BY <1>1, <1>2, <1>3, <1>4, <3>1
    <2>5. CASE CommitExpiry(s)
      <3>1. /\ row'.status \in {"PAUSED", row.status}
            /\ question' = Close(sess[s].seen, "EXPIRED")
        BY <2>5, CommitRowStatus DEF CommitExpiry
      <3> QED
        BY <1>1, <1>2, <1>3, <1>4, <3>1
    <2>6. CASE SweepLoadsRun(s) \/ BootSweepEnds(s) \/ Conflict(s)
      BY <1>1, <1>5, <2>6 DEF SweepLoadsRun, BootSweepEnds, Conflict
    <2> QED
      BY <1>8, <2>1, <2>2, <2>3, <2>4, <2>5, <2>6 DEF Handle
  <1>9. ASSUME NEW s \in Session, Work(s) PROVE ClosedRunHasNoQuestion'
    <2>1. CASE Claim(s)
      <3>1. UNCHANGED question
        BY <2>1 DEF Claim
      <3>2. \/ row' = row
            \/ \E st \in {"RUNNING", row.status} :
                  row' = [row EXCEPT !.status = st, !.version = @ + 1, !.iter = @ + 1,
                                     !.beat = "fresh"]
        BY <2>1, Zenon DEF Claim
      <3>3. row'.status \in {"RUNNING", row.status}
        BY <1>0, <3>2 DEF RowType
      <3> QED
        BY <1>1, <1>2, <1>5, <3>1, <3>3
    <2>2. CASE OpenStep(s) \/ CommitMidStep(s) \/ Advance(s)
      <3>1. UNCHANGED question /\ row'.status = row.status
        BY <1>0, <2>2 DEF OpenStep, CommitMidStep, Advance, RowType
      <3> QED
        BY <1>1, <1>5, <3>1
    <2>3. CASE StopWithQuestion(s) \/ StopPaused(s) \/ StopBlocked(s)
      BY <1>2, <2>3, CommitRowStatus DEF StopWithQuestion, StopPaused, StopBlocked, StopWith
    <2>4. CASE StopFailed(s) \/ FailUnclaimed(s)
      <3>1. question' = Close(Pending, "RESOLVED")
        BY <2>4 DEF StopFailed, FailUnclaimed
      <3> QED
        BY <1>3, <1>4, <3>1 DEF ClosedRunHasNoQuestion
    <2>5. CASE Finish(s)
      <3>1. CommitRow(s, "BLOCKED", 1) \/ CommitRow(s, "COMPLETED", 1)
        BY <2>5, Zenon DEF Finish
      <3> QED
        BY <1>2, <3>1, CommitRowStatus
    <2> QED
      BY <1>9, <2>1, <2>2, <2>3, <2>4, <2>5 DEF Work
  <1> QED
    BY <1>6, <1>7, <1>8, <1>9 DEF Next

\* No question outlives a run that failed or was cancelled, whatever requests and
\* sweeps overlap (ClosedRunHasNoQuestion).
THEOREM ClosedRunsAskNothing == Spec => []ClosedRunHasNoQuestion
  <1>1. Init => ClosedRunHasNoQuestion
    BY DEF Init, ClosedRunHasNoQuestion
  <1>2. ColumnsOK /\ ClosedRunHasNoQuestion /\ [Next]_vars => ClosedRunHasNoQuestion'
    BY ClosedStays
  <1> QED
    BY <1>1, <1>2, ColumnsCorrect, PTL DEF Spec

===============================================================================
