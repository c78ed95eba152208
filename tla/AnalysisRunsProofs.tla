------------------------- MODULE AnalysisRunsProofs -------------------------
(***************************************************************************)
(* Proofs about AnalysisRuns for any number of overlapping requests, any   *)
(* specifications, notes and corrections.                                  *)
(***************************************************************************)
EXTENDS AnalysisRuns, FiniteSetTheorems, TLAPS

Columns == {"key", "content", "notes", "revision", "version", "flagged", "overlay", "types",
            "verdict", "question", "raced"}

\* What a stored analysis says of itself.
RowFits(a, past) ==
    /\ DOMAIN a = Columns
    /\ a.content \in Contents /\ a.version \in 1..Len(past)
    /\ a.overlay \subseteq Fields /\ a.types \subseteq Types
    /\ a.verdict \in Verdicts /\ a.question \in QuestionStatuses
    /\ a.key.content = a.content /\ a.key.notes = a.notes
    /\ ~a.raced => past[a.version] = a.content

RowsInv ==
    /\ IsFiniteSet(analyses) /\ \A a \in analyses : RowFits(a, history)
    /\ \A a, b \in analyses : a.key = b.key => a = b
    /\ RevisionsAreDense

RunsInv ==
    /\ \A r, q \in runs : r.key = q.key => r = q
    /\ RunsTellTheTruth
    /\ \A a \in analyses : \E r \in runs : r.key = a.key

StatusInv ==
    /\ status \in AssignmentStatuses /\ StatusIsEarned
    /\ history \in Seq(Contents) /\ Len(history) > 0

OpFits(op) ==
    /\ op.do \in {"analyze", "edit", "review", "question"}
    /\ op.do = "edit" => op.fields \subseteq Fields /\ (op.types = Keep \/ op.types \subseteq Types)
    /\ op.do = "review" => op.verdict \in Verdicts
    /\ op.do = "question" => op.answer \in QuestionStatuses

\* The request has a run that no other request sees yet.
Pending(me) == me.pc \in {"asked", "refused", "written"}

Apart(me, you) == Pending(me) /\ Pending(you) => me.key # you.key

\* What a request in progress has read is there, and is what is there now
\* unless it was overtaken.
SessionFits(me, rows, used, past, now) ==
    /\ DOMAIN me = DOMAIN Rest
    /\ me.pc \in {"idle", "loaded", "flushed", "asked", "refused", "written"}
    /\ me.pc # "idle" =>
          /\ OpFits(me.op)
          /\ me.content \in Contents
          /\ me.status \in AssignmentStatuses \ {"ANALYSIS_IN_PROGRESS"}
          /\ me.status = "ANALYZED" => rows # {}
          /\ ~me.overtaken => me.status = now /\ me.content = past[Len(past)]
          /\ me.pc = "loaded" /\ ~me.raced => me.content = past[Len(past)]
          /\ Pending(me) <=> me.op.do = "analyze" /\ me.pc # "loaded"
          /\ me.op.do # "analyze" =>
                /\ \E a \in rows : a.key = me.op.of
                /\ me.loaded.overlay \subseteq Fields
                /\ ~me.overtaken => \A a \in rows : a.key = me.op.of => me.loaded = a
    /\ Pending(me) =>
          /\ \A r \in used : r.key # me.key
          /\ me.key.content = me.content /\ me.key.notes = me.op.notes
          /\ me.version \in 1..Len(past)
          /\ ~me.raced => past[me.version] = me.content
          /\ me.pc = "refused" => ~MayAnalyze(me.status)
          /\ \A k \in me.flags : k.content # me.content

SessInv ==
    /\ DOMAIN sess = Sessions
    /\ \A s \in Sessions : SessionFits(sess[s], analyses, runs, history, status)
    /\ \A s, t \in Sessions : s # t => Apart(sess[s], sess[t])

AnalysisInv == RowsInv /\ RunsInv /\ StatusInv /\ ReuseIsHonest /\ SessInv

LEMMA RestFits ==
  ASSUME NEW rows, NEW used, NEW past, NEW now
  PROVE  SessionFits(Rest, rows, used, past, now) /\ Rest.pc = "idle" /\ ~Pending(Rest)
  BY DEF Rest, SessionFits, Pending

-----------------------------------------------------------------------------
(* Steps of one request that write nothing anybody else sees.              *)

LEMMA QuietStep ==
  ASSUME AnalysisInv, NEW s \in Sessions, NEW r, sess' = [sess EXCEPT ![s] = r],
         UNCHANGED <<analyses, runs, history, status>>,
         SessionFits(r, analyses, runs, history, status),
         \A t \in Sessions \ {s} : Apart(sess[t], r) /\ Apart(r, sess[t])
  PROVE  RowsInv' /\ RunsInv' /\ StatusInv' /\ SessInv'
  <1>1. DOMAIN sess' = Sessions /\ \A t \in Sessions : sess'[t] = IF t = s THEN r ELSE sess[t]
    BY DEF AnalysisInv, SessInv
  <1>2. \A t \in Sessions : SessionFits(sess'[t], analyses', runs', history', status')
    BY <1>1 DEF AnalysisInv, SessInv
  <1>3. \A t, u \in Sessions : t # u => Apart(sess'[t], sess'[u])
    BY <1>1 DEF AnalysisInv, SessInv
  <1>4. SessInv'
    BY <1>1, <1>2, <1>3 DEF SessInv
  <1>5. RowsInv'
    BY DEF AnalysisInv, RowsInv, RevisionsAreDense
  <1>6. RunsInv'
    BY DEF AnalysisInv, RunsInv, RunsTellTheTruth, Keys
  <1>7. StatusInv'
    BY DEF AnalysisInv, StatusInv, StatusIsEarned
  <1> QED
    BY <1>4, <1>5, <1>6, <1>7

\* Nothing is given that was not given before.
LEMMA SameReuse ==
  ASSUME ReuseIsHonest, reused' = reused, analyses' = analyses
  PROVE  ReuseIsHonest'
  BY DEF ReuseIsHonest

\* A request that ends, or goes on without a run.
LEMMA QuietEnd ==
  ASSUME AnalysisInv, NEW s \in Sessions, Become(s, Rest),
         UNCHANGED <<analyses, runs, history, status>>
  PROVE  RowsInv' /\ RunsInv' /\ StatusInv' /\ SessInv'
  <1>1. \A t \in Sessions \ {s} : Apart(sess[t], Rest) /\ Apart(Rest, sess[t])
    BY RestFits DEF Apart
  <1>2. sess' = [sess EXCEPT ![s] = Rest]
    BY DEF Become
  <1> QED
    BY <1>1, <1>2, RestFits, QuietStep

LEMMA StoredIsThere ==
  ASSUME RowsInv, NEW k \in Keys
  PROVE  /\ Stored(k) \in analyses /\ Stored(k).key = k
         /\ \A a \in analyses : a.key = k => a = Stored(k)
  <1>1. \E a \in analyses : a.key = k
    BY DEF Keys
  <1>2. Stored(k) \in analyses /\ Stored(k).key = k
    BY <1>1 DEF Stored
  <1> QED
    BY <1>2 DEF RowsInv

LEMMA LoadKeeps == ASSUME AnalysisInv, NEW s \in Sessions, Load(s) PROVE AnalysisInv'
  <1>1. PICK op \in Requests :
          sess' = [sess EXCEPT ![s] =
              [Rest EXCEPT !.pc = "loaded", !.op = op, !.content = Content, !.status = status,
                           !.loaded = IF op.do = "analyze" THEN Keep ELSE Stored(op.of)]]
    BY DEF Load, Become
  <1> DEFINE r == [Rest EXCEPT !.pc = "loaded", !.op = op, !.content = Content, !.status = status,
                               !.loaded = IF op.do = "analyze" THEN Keep ELSE Stored(op.of)]
  <1>2. /\ DOMAIN r = DOMAIN Rest /\ r.pc = "loaded" /\ r.op = op /\ r.content = Content
        /\ r.status = status /\ r.loaded = IF op.do = "analyze" THEN Keep ELSE Stored(op.of)
    BY DEF Rest
  <1>3. OpFits(op)
    BY AnalysisRunsAssumption DEF Requests, OpFits, AnalysisRunsAssumption, Verdicts,
                                  QuestionStatuses
  <1>4. ASSUME op.do # "analyze"
        PROVE  /\ \E a \in analyses : a.key = op.of
               /\ Stored(op.of).overlay \subseteq Fields
               /\ \A a \in analyses : a.key = op.of => Stored(op.of) = a
    <2>1. op.of \in Keys
      BY <1>4 DEF Requests
    <2> QED
      BY <2>1, StoredIsThere DEF AnalysisInv, RowsInv, RowFits
  <1> HIDE DEF r
  <1>5. status \in AssignmentStatuses \ {"ANALYSIS_IN_PROGRESS"}
        /\ (status = "ANALYZED" => analyses # {})
    BY DEF AnalysisInv, StatusInv, StatusIsEarned
  <1>6. Content \in Contents /\ Content = history[Len(history)]
    BY DEF AnalysisInv, StatusInv, Content
  <1>7. ~Pending(r)
    BY <1>2 DEF Pending
  <1>8. SessionFits(r, analyses, runs, history, status)
    BY <1>2, <1>3, <1>4, <1>5, <1>6, <1>7 DEF SessionFits
  <1>9. \A t \in Sessions \ {s} : Apart(sess[t], r) /\ Apart(r, sess[t])
    BY <1>7 DEF Apart
  <1>10. UNCHANGED <<analyses, runs, history, status, reused>> /\ sess' = [sess EXCEPT ![s] = r]
    BY <1>1 DEF Load, r
  <1> QED
    BY <1>8, <1>9, <1>10, QuietStep, SameReuse DEF AnalysisInv

LEMMA LeavingKeeps ==
  ASSUME AnalysisInv, NEW s \in Sessions, RefuseBusy(s) \/ RefuseKey(s) \/ RollBack(s)
  PROVE  AnalysisInv'
  <1>1. Become(s, Rest) /\ UNCHANGED <<analyses, runs, history, status, reused>>
    BY DEF RefuseBusy, RefuseKey, RollBack
  <1> QED
    BY <1>1, QuietEnd, SameReuse DEF AnalysisInv

LEMMA ReuseKeeps == ASSUME AnalysisInv, NEW s \in Sessions, Reuse(s) PROVE AnalysisInv'
  <1>1. PICK a \in analyses :
          /\ a.key = Asked(sess[s])
          /\ reused' = reused \cup {[content |-> sess[s].content, notes |-> sess[s].op.notes,
                                     got |-> a.key]}
    BY DEF Reuse, Reusable
  <1>2. a.content = sess[s].content /\ a.notes = sess[s].op.notes
    BY <1>1 DEF AnalysisInv, RowsInv, RowFits, Asked, Key
  <1>3. analyses' = analyses
    BY DEF Reuse
  <1>4. ReuseIsHonest'
    BY <1>1, <1>2, <1>3 DEF AnalysisInv, ReuseIsHonest
  <1>5. Become(s, Rest) /\ UNCHANGED <<analyses, runs, history, status>>
    BY DEF Reuse
  <1> QED
    BY <1>4, <1>5, QuietEnd DEF AnalysisInv

LEMMA StartKeeps == ASSUME AnalysisInv, NEW s \in Sessions, Start(s) PROVE AnalysisInv'
  <1> DEFINE me == sess[s]
             key == RunKey(me)
             r == [me EXCEPT !.pc = IF MayAnalyze(me.status) THEN "asked" ELSE "refused",
                             !.key = key, !.version = CurrentVersion,
                             !.flags = Outdated(me.content)]
  <1>1. /\ me.pc = "loaded" /\ me.op.do = "analyze"
        /\ ~KeyTaken(key) /\ ~KeyPending(s, key)
        /\ sess' = [sess EXCEPT ![s] = r]
        /\ UNCHANGED <<analyses, runs, history, status, reused>>
    BY DEF Start, Ready4Run, At, Analyzing, Become
  <1>2. SessionFits(me, analyses, runs, history, status)
    BY DEF AnalysisInv, SessInv
  <1>3. DOMAIN me = {"pc", "op", "content", "status", "key", "version", "flags", "loaded",
                     "dropped", "raced", "overtaken"}
    BY <1>2 DEF SessionFits, Rest
  <1>4. /\ DOMAIN r = DOMAIN me /\ r.pc = IF MayAnalyze(me.status) THEN "asked" ELSE "refused"
        /\ r.key = key /\ r.version = CurrentVersion /\ r.flags = Outdated(me.content)
        /\ r.op = me.op /\ r.content = me.content /\ r.status = me.status
        /\ r.raced = me.raced /\ r.overtaken = me.overtaken
    BY <1>3
  <1>5. key.content = me.content /\ key.notes = me.op.notes
    BY DEF RunKey, Asked, Key
  <1>6. /\ \A q \in runs : q.key # key
        /\ \A t \in Sessions \ {s} : sess[t].key # key
    BY <1>1 DEF KeyTaken, KeyPending
  <1>7. \A k \in Outdated(me.content) : k.content # me.content
    BY DEF Outdated, AnalysisInv, RowsInv, RowFits
  <1>8. Len(history) \in 1..Len(history) /\ CurrentVersion = Len(history)
    BY DEF AnalysisInv, StatusInv, CurrentVersion
  <1> HIDE DEF me, key, r
  <1>9. Pending(r)
    BY <1>4 DEF Pending
  <1>10. SessionFits(r, analyses, runs, history, status)
    BY <1>1, <1>2, <1>4, <1>5, <1>6, <1>7, <1>8, <1>9 DEF SessionFits
  <1>11. \A t \in Sessions \ {s} : Apart(sess[t], r) /\ Apart(r, sess[t])
    BY <1>4, <1>6 DEF Apart
  <1> QED
    BY <1>1, <1>10, <1>11, QuietStep, SameReuse DEF AnalysisInv

LEMMA AnswerKeeps == ASSUME AnalysisInv, NEW s \in Sessions, Answer(s) PROVE AnalysisInv'
  <1> DEFINE me == sess[s]
             r == [me EXCEPT !.pc = "written"]
  <1>1. /\ me.pc = "asked" /\ sess' = [sess EXCEPT ![s] = r]
        /\ UNCHANGED <<analyses, runs, history, status, reused>>
    BY DEF Answer, At, Become
  <1>2. SessionFits(me, analyses, runs, history, status)
    BY DEF AnalysisInv, SessInv
  <1>3. DOMAIN me = {"pc", "op", "content", "status", "key", "version", "flags", "loaded",
                     "dropped", "raced", "overtaken"}
    BY <1>2 DEF SessionFits, Rest
  <1>4. /\ DOMAIN r = DOMAIN me /\ r.pc = "written"
        /\ \A f \in DOMAIN me \ {"pc"} : r[f] = me[f]
    BY <1>3
  <1>5. /\ r.key = me.key /\ r.version = me.version /\ r.flags = me.flags
        /\ r.op = me.op /\ r.content = me.content /\ r.status = me.status
        /\ r.raced = me.raced /\ r.overtaken = me.overtaken
    BY <1>3, <1>4
  <1>6. \A t \in Sessions \ {s} : Apart(sess[t], me) /\ Apart(me, sess[t])
    BY DEF AnalysisInv, SessInv
  <1> HIDE DEF me, r
  <1>7. Pending(r) /\ Pending(me)
    BY <1>1, <1>4 DEF Pending
  <1>8. SessionFits(r, analyses, runs, history, status)
    BY <1>1, <1>2, <1>4, <1>5, <1>7 DEF SessionFits
  <1>9. \A t \in Sessions \ {s} : Apart(sess[t], r) /\ Apart(r, sess[t])
    BY <1>5, <1>6, <1>7 DEF Apart
  <1> QED
    BY <1>1, <1>8, <1>9, QuietStep, SameReuse DEF AnalysisInv

LEMMA CorrectKeeps == ASSUME AnalysisInv, NEW s \in Sessions, Correct(s) PROVE AnalysisInv'
  <1> DEFINE me == sess[s]
             lost == IF me.op.types = Keep THEN {} ELSE Stored(me.op.of).types
             r == [me EXCEPT !.pc = "flushed", !.dropped = lost]
  <1>1. /\ me.pc = "loaded" /\ me.op.do = "edit" /\ sess' = [sess EXCEPT ![s] = r]
        /\ UNCHANGED <<analyses, runs, history, status, reused>>
    BY DEF Correct, At, Become
  <1>2. SessionFits(me, analyses, runs, history, status)
    BY DEF AnalysisInv, SessInv
  <1>3. DOMAIN me = {"pc", "op", "content", "status", "key", "version", "flags", "loaded",
                     "dropped", "raced", "overtaken"}
    BY <1>2 DEF SessionFits, Rest
  <1>4. /\ DOMAIN r = DOMAIN me /\ r.pc = "flushed"
        /\ r.op = me.op /\ r.content = me.content /\ r.status = me.status
        /\ r.loaded = me.loaded /\ r.overtaken = me.overtaken
    BY <1>3
  <1> HIDE DEF me, r
  <1>5. ~Pending(r)
    BY <1>4 DEF Pending
  <1>6. SessionFits(r, analyses, runs, history, status)
    BY <1>1, <1>2, <1>4, <1>5 DEF SessionFits
  <1>7. \A t \in Sessions \ {s} : Apart(sess[t], r) /\ Apart(r, sess[t])
    BY <1>5 DEF Apart
  <1> QED
    BY <1>1, <1>6, <1>7, QuietStep, SameReuse DEF AnalysisInv

-----------------------------------------------------------------------------
(* Steps that others see: those in progress are overtaken.                 *)

SessionFields == {"op", "pc", "content", "status", "key", "version", "flags", "loaded", "dropped"}

LEMMA OvertakenFits ==
  ASSUME NEW me, NEW you, NEW rows, NEW new, NEW used, NEW more, NEW past, NEW longer, NEW now,
         NEW later, SessionFits(me, rows, used, past, now),
         DOMAIN you = DOMAIN me, \A f \in SessionFields : you[f] = me[f],
         me.pc # "idle" => you.overtaken, ~you.raced => ~me.raced,
         me.pc = "loaded" /\ longer # past => you.raced,
         Len(past) \in Nat, Len(longer) \in Nat, Len(past) <= Len(longer),
         \A i \in 1..Len(past) : longer[i] = past[i],
         \A a \in rows : \E b \in new : b.key = a.key,
         \A q \in more : q \in used \/ (Pending(me) => q.key # me.key)
  PROVE  SessionFits(you, new, more, longer, later)
  <1>1. /\ you.op = me.op /\ you.pc = me.pc /\ you.content = me.content /\ you.status = me.status
        /\ you.key = me.key /\ you.version = me.version /\ you.flags = me.flags
        /\ you.loaded = me.loaded
    BY DEF SessionFields
  <1>2. Pending(you) <=> Pending(me)
    BY <1>1 DEF Pending
  <1>3. DOMAIN you = DOMAIN Rest
        /\ you.pc \in {"idle", "loaded", "flushed", "asked", "refused", "written"}
    BY <1>1 DEF SessionFits
  <1>4. rows # {} => new # {}
    OBVIOUS
  <1>5. ASSUME you.pc # "idle"
        PROVE  /\ OpFits(you.op)
               /\ you.content \in Contents
               /\ you.status \in AssignmentStatuses \ {"ANALYSIS_IN_PROGRESS"}
               /\ you.status = "ANALYZED" => new # {}
               /\ you.overtaken
               /\ you.pc = "loaded" /\ ~you.raced => you.content = longer[Len(longer)]
               /\ Pending(you) <=> you.op.do = "analyze" /\ you.pc # "loaded"
               /\ you.op.do # "analyze" =>
                     (\E a \in new : a.key = you.op.of) /\ you.loaded.overlay \subseteq Fields
    BY <1>1, <1>2, <1>4, <1>5 DEF SessionFits
  <1>6. ASSUME Pending(you)
        PROVE  /\ \A r \in more : r.key # you.key
               /\ you.key.content = you.content /\ you.key.notes = you.op.notes
               /\ you.version \in 1..Len(longer)
               /\ ~you.raced => longer[you.version] = you.content
               /\ you.pc = "refused" => ~MayAnalyze(you.status)
               /\ \A k \in you.flags : k.content # you.content
    <2>1. /\ \A r \in used : r.key # me.key
          /\ me.key.content = me.content /\ me.key.notes = me.op.notes
          /\ me.version \in 1..Len(past)
          /\ ~me.raced => past[me.version] = me.content
          /\ me.pc = "refused" => ~MayAnalyze(me.status)
          /\ \A k \in me.flags : k.content # me.content
      BY <1>2, <1>6 DEF SessionFits
    <2>2. me.version \in 1..Len(longer) /\ longer[me.version] = past[me.version]
      BY <2>1
    <2> QED
      BY <1>1, <1>2, <1>6, <2>1, <2>2
  <1> QED
    BY <1>3, <1>5, <1>6 DEF SessionFits

\* A request that ends with a commit.
LEMMA EndingStep ==
  ASSUME AnalysisInv, NEW s \in Sessions, Ends(s), history' = history,
         \A a \in analyses : \E b \in analyses' : b.key = a.key,
         \A q \in runs' : q \in runs \/ (Pending(sess[s]) /\ q.key = sess[s].key)
  PROVE  SessInv'
  <1>1. /\ DOMAIN sess' = Sessions /\ sess'[s] = Rest
        /\ \A r \in Sessions \ {s} : sess'[r] =
               IF sess[r].pc # "idle" THEN [sess[r] EXCEPT !.overtaken = TRUE] ELSE sess[r]
    BY DEF Ends, Overtaken, At
  <1>2. ASSUME NEW r \in Sessions \ {s}
        PROVE  /\ DOMAIN sess'[r] = DOMAIN sess[r] /\ \A f \in SessionFields : sess'[r][f] = sess[r][f]
               /\ sess[r].pc # "idle" => sess'[r].overtaken
               /\ ~sess'[r].raced => ~sess[r].raced
    <2>1. DOMAIN sess[r] = DOMAIN Rest
      BY DEF AnalysisInv, SessInv, SessionFits
    <2>2. DOMAIN sess[r] = SessionFields \cup {"overtaken", "raced"}
      BY <2>1 DEF Rest, SessionFields
    <2>3. \A f \in SessionFields : f # "overtaken" /\ f # "raced"
      BY DEF SessionFields
    <2> QED
      BY <1>1, <2>2, <2>3
  <1>3. Len(history) \in Nat /\ history' = history
    BY DEF AnalysisInv, StatusInv
  <1>4. ASSUME NEW r \in Sessions \ {s}
        PROVE  SessionFits(sess'[r], analyses', runs', history', status')
    <2>1. SessionFits(sess[r], analyses, runs, history, status) /\ Apart(sess[s], sess[r])
      BY DEF AnalysisInv, SessInv
    <2>2. \A q \in runs' : q \in runs \/ (Pending(sess[r]) => q.key # sess[r].key)
      BY <2>1 DEF Apart
    <2> HIDE DEF SessionFits
    <2> DEFINE you == sess'[r]
               new == analyses'
               more == runs'
               longer == history'
               later == status'
    <2>3. /\ DOMAIN you = DOMAIN sess[r] /\ \A f \in SessionFields : you[f] = sess[r][f]
          /\ sess[r].pc # "idle" => you.overtaken
          /\ ~you.raced => ~sess[r].raced
      BY <1>2
    <2>4. longer = history /\ \A a \in analyses : \E b \in new : b.key = a.key
      BY <1>3
    <2>5. \A q \in more : q \in runs \/ (Pending(sess[r]) => q.key # sess[r].key)
      BY <2>2
    <2> HIDE DEF you, new, more, longer, later
    <2>6. SessionFits(you, new, more, longer, later)
      BY <1>3, <2>1, <2>3, <2>4, <2>5, OvertakenFits
    <2> QED
      BY <2>6 DEF you, new, more, longer, later
  <1>5. SessionFits(sess'[s], analyses', runs', history', status')
    BY <1>1, RestFits
  <1>6. \A t, u \in Sessions : t # u => Apart(sess'[t], sess'[u])
    <2>1. \A t \in Sessions \ {s} : (Pending(sess'[t]) <=> Pending(sess[t])) /\ sess'[t].key = sess[t].key
      BY <1>2 DEF Pending, SessionFields
    <2>2. ~Pending(sess'[s])
      BY <1>1, RestFits
    <2> QED
      BY <2>1, <2>2 DEF AnalysisInv, SessInv, Apart
  <1> QED
    BY <1>1, <1>4, <1>5, <1>6 DEF SessInv

-----------------------------------------------------------------------------
(* The assignment moves.                                                   *)

LEMMA MovedStep ==
  ASSUME AnalysisInv, NEW c \in Contents, history' = Append(history, c), sess' = Moved,
         UNCHANGED <<analyses, runs, reused>>,
         status' \in AssignmentStatuses \ {"ANALYSIS_IN_PROGRESS"},
         status' = "ANALYZED" => status = "ANALYZED"
  PROVE  AnalysisInv'
  <1>1. /\ history \in Seq(Contents) /\ Len(history) \in Nat /\ Len(history) > 0
        /\ history' \in Seq(Contents) /\ Len(history') = Len(history) + 1
        /\ \A i \in 1..Len(history) : history'[i] = history[i]
    BY DEF AnalysisInv, StatusInv
  <1>2. StatusInv'
    BY <1>1 DEF AnalysisInv, StatusInv, StatusIsEarned
  <1>3. \A a \in analyses : RowFits(a, history')
    BY <1>1 DEF AnalysisInv, RowsInv, RowFits
  <1>4. RowsInv'
    BY <1>3 DEF AnalysisInv, RowsInv, RevisionsAreDense
  <1>5. RunsInv' /\ ReuseIsHonest'
    BY DEF AnalysisInv, RunsInv, RunsTellTheTruth, Keys, ReuseIsHonest
  <1>6. /\ DOMAIN sess' = Sessions
        /\ \A r \in Sessions : sess'[r] =
               IF sess[r].pc = "idle" THEN sess[r]
               ELSE [sess[r] EXCEPT !.overtaken = TRUE, !.raced = @ \/ sess[r].pc = "loaded"]
    BY DEF Moved, At
  <1>7. ASSUME NEW r \in Sessions
        PROVE  /\ DOMAIN sess'[r] = DOMAIN sess[r] /\ \A f \in SessionFields : sess'[r][f] = sess[r][f]
               /\ sess[r].pc # "idle" => sess'[r].overtaken
               /\ ~sess'[r].raced => ~sess[r].raced
               /\ sess[r].pc = "loaded" => sess'[r].raced
    <2>1. DOMAIN sess[r] = DOMAIN Rest
      BY DEF AnalysisInv, SessInv, SessionFits
    <2>2. DOMAIN sess[r] = SessionFields \cup {"overtaken", "raced"}
      BY <2>1 DEF Rest, SessionFields
    <2>3. \A f \in SessionFields : f # "overtaken" /\ f # "raced"
      BY DEF SessionFields
    <2>4. CASE sess[r].pc = "idle"
      BY <1>6, <2>4
    <2>5. CASE sess[r].pc # "idle"
      <3>1. sess'[r] = [sess[r] EXCEPT !.overtaken = TRUE, !.raced = @ \/ sess[r].pc = "loaded"]
        BY <1>6, <2>5
      <3> QED
        BY <2>2, <2>3, <3>1
    <2> QED
      BY <2>4, <2>5
  <1>8. ASSUME NEW r \in Sessions
        PROVE  SessionFits(sess'[r], analyses', runs', history', status')
    <2>1. SessionFits(sess[r], analyses, runs, history, status)
      BY DEF AnalysisInv, SessInv
    <2> HIDE DEF SessionFits
    <2> DEFINE you == sess'[r]
               longer == history'
               later == status'
    <2>2. /\ DOMAIN you = DOMAIN sess[r] /\ \A f \in SessionFields : you[f] = sess[r][f]
          /\ sess[r].pc # "idle" => you.overtaken
          /\ ~you.raced => ~sess[r].raced
          /\ sess[r].pc = "loaded" => you.raced
      BY <1>7
    <2>3. /\ Len(longer) \in Nat /\ Len(history) <= Len(longer)
          /\ \A i \in 1..Len(history) : longer[i] = history[i]
      BY <1>1
    <2> HIDE DEF you, longer, later
    <2>4. SessionFits(you, analyses, runs, longer, later)
      BY <1>1, <2>1, <2>2, <2>3, OvertakenFits
    <2> QED
      BY <2>4 DEF you, longer, later
  <1>9. \A t, u \in Sessions : t # u => Apart(sess'[t], sess'[u])
    <2>1. \A t \in Sessions : (Pending(sess'[t]) <=> Pending(sess[t])) /\ sess'[t].key = sess[t].key
      BY <1>7 DEF Pending, SessionFields
    <2> QED
      BY <2>1 DEF AnalysisInv, SessInv, Apart
  <1> QED
    BY <1>2, <1>4, <1>5, <1>6, <1>8, <1>9 DEF AnalysisInv, SessInv

LEMMA MoveKeeps == ASSUME AnalysisInv, EditSpecification \/ SetStatus PROVE AnalysisInv'
  <1>1. status \in AssignmentStatuses \ {"ANALYSIS_IN_PROGRESS"} /\ Content \in Contents
    BY DEF AnalysisInv, StatusInv, StatusIsEarned, Content
  <1>2. \A now, ready : Demoted(now, ready) \in {now, "INCOMPLETE"}
    BY DEF Demoted
  <1>3. /\ ClientSettable \subseteq AssignmentStatuses \ {"ANALYSIS_IN_PROGRESS", "ANALYZED"}
        /\ "INCOMPLETE" \in AssignmentStatuses
    BY DEF ClientSettable, AssignmentStatuses, Building, Settled
  <1>4. CASE EditSpecification
    <2>1. PICK c \in Contents : history' = Append(history, c) /\ status' = Demoted(status, c \in Ready)
      BY <1>4 DEF EditSpecification
    <2>2. status' \in {status, "INCOMPLETE"}
      BY <1>2, <2>1
    <2> QED
      BY <1>1, <1>3, <1>4, <2>1, <2>2, MovedStep DEF EditSpecification
  <1>5. CASE SetStatus
    <2>1. PICK target \in ClientSettable : status' = Demoted(target, Content \in Ready)
      BY <1>5 DEF SetStatus
    <2>2. status' \in {target, "INCOMPLETE"}
      BY <1>2, <2>1
    <2> QED
      BY <1>1, <1>3, <1>5, <2>1, <2>2, MovedStep DEF SetStatus
  <1> QED
    BY <1>4, <1>5

-----------------------------------------------------------------------------
(* The rows rewritten: the same analyses, by key and revision.             *)

Kin(a, b) == b.key = a.key /\ b.revision = a.revision

Rewritten(new) ==
    /\ \A a \in analyses : \E b \in new : Kin(a, b)
    /\ \A b \in new : \E a \in analyses : Kin(a, b)
    /\ \A b, c \in new : b.key = c.key => b = c

LEMMA Recount ==
  ASSUME RowsInv, NEW new, Rewritten(new)
  PROVE  /\ IsFiniteSet(new) /\ Cardinality(new) = Cardinality(analyses)
         /\ {b.revision : b \in new} = {a.revision : a \in analyses}
         /\ {b.key : b \in new} = {a.key : a \in analyses}
  <1> DEFINE heir == [a \in analyses |-> CHOOSE b \in new : Kin(a, b)]
  <1>1. \A a \in analyses : heir[a] \in new /\ Kin(a, heir[a])
    BY DEF Rewritten
  <1> HIDE DEF heir
  <1>2. heir \in [analyses -> new]
    BY <1>1 DEF heir
  <1>3. \A a, b \in analyses : heir[a] = heir[b] => a = b
    BY <1>1 DEF Kin, RowsInv
  <1>4. \A b \in new : \E a \in analyses : heir[a] = b
    BY <1>1 DEF Kin, Rewritten
  <1>5. ExistsBijection(analyses, new)
    BY <1>2, <1>3, <1>4 DEF ExistsBijection, Bijection, Injection, Surjection, IsInjective
  <1>6. IsFiniteSet(new) /\ Cardinality(new) = Cardinality(analyses)
    BY <1>5, FS_Bijection DEF RowsInv
  <1>7. {b.revision : b \in new} = {a.revision : a \in analyses}
    BY DEF Rewritten, Kin
  <1>8. {b.key : b \in new} = {a.key : a \in analyses}
    BY DEF Rewritten, Kin
  <1> QED
    BY <1>6, <1>7, <1>8

\* Flagging changes nothing else.
Same(a, b) == DOMAIN b = Columns /\ \A f \in Columns \ {"flagged"} : b[f] = a[f]

LEMMA FlaggedRows ==
  ASSUME RowsInv, NEW keys
  PROVE  /\ Rewritten(Flagged(keys))
         /\ \A b \in Flagged(keys) : RowFits(b, history)
         /\ \A a \in analyses : \E b \in Flagged(keys) : Same(a, b) /\ (~a.flagged /\ a.key \notin keys => ~b.flagged)
         /\ \A b \in Flagged(keys) : \E a \in analyses : Same(a, b)
  <1> DEFINE new == Flagged(keys)
             flag(a) == [a EXCEPT !.flagged = @ \/ a.key \in keys]
  <1>1. \A a \in analyses : DOMAIN a = Columns
    BY DEF RowsInv, RowFits
  <1>2. \A a \in analyses : Same(a, flag(a))
    BY <1>1 DEF Same, Columns
  <1>3. new = {flag(a) : a \in analyses}
    BY DEF Flagged
  <1> HIDE DEF flag, new
  <1>4. \A a, b : Same(a, b) =>
          /\ b.key = a.key /\ b.content = a.content /\ b.notes = a.notes /\ b.revision = a.revision
          /\ b.version = a.version /\ b.overlay = a.overlay /\ b.types = a.types
          /\ b.verdict = a.verdict /\ b.question = a.question /\ b.raced = a.raced
    BY DEF Same, Columns
  <1>5. \A b \in new : \E a \in analyses : b = flag(a) /\ Same(a, b)
    BY <1>2, <1>3
  <1>6. Rewritten(new)
    <2>1. \A a \in analyses : \E b \in new : Kin(a, b)
      BY <1>2, <1>3, <1>4 DEF Kin
    <2>2. \A b \in new : \E a \in analyses : Kin(a, b)
      BY <1>4, <1>5 DEF Kin
    <2>3. \A b, c \in new : b.key = c.key => b = c
      BY <1>4, <1>5 DEF RowsInv
    <2> QED
      BY <2>1, <2>2, <2>3 DEF Rewritten
  <1>7. \A b \in new : RowFits(b, history)
    BY <1>4, <1>5 DEF RowsInv, RowFits, Same
  <1>8. ASSUME NEW a \in analyses PROVE \E b \in new : Same(a, b) /\ (~a.flagged /\ a.key \notin keys => ~b.flagged)
    <2>1. ~a.flagged /\ a.key \notin keys => ~flag(a).flagged
      BY <1>1 DEF flag, Columns
    <2> QED
      BY <1>2, <1>3, <2>1
  <1> QED
    BY <1>5, <1>6, <1>7, <1>8 DEF new

-----------------------------------------------------------------------------
(* What a request leaves behind.                                           *)

LEMMA HonestAfter ==
  ASSUME ReuseIsHonest, reused' = reused,
         \A a \in analyses : \E b \in analyses' :
             b.key = a.key /\ b.content = a.content /\ b.notes = a.notes
  PROVE  ReuseIsHonest'
  BY DEF ReuseIsHonest

LEMMA SameFields ==
  ASSUME NEW a, NEW b, Same(a, b)
  PROVE  /\ b.key = a.key /\ b.content = a.content /\ b.notes = a.notes /\ Word(b) = Word(a)
         /\ b.overlay = a.overlay
  BY DEF Same, Columns, Word

\* The key of a request's run is its own: no run and no analysis has it.
LEMMA OwnKey ==
  ASSUME AnalysisInv, NEW s \in Sessions, Pending(sess[s])
  PROVE  /\ \A q \in runs : q.key # sess[s].key
         /\ sess[s].key \notin Keys
  BY DEF AnalysisInv, SessInv, SessionFits, RunsInv, Keys

LEMMA RecordedRun ==
  ASSUME AnalysisInv, NEW s \in Sessions, Pending(sess[s]),
         NEW outcome \in {"RUNNING", "SUCCEEDED", "FAILED"},
         runs' = runs \cup {Run(sess[s], outcome)},
         outcome = "RUNNING" => ~MayAnalyze(sess[s].status),
         Keys' = Keys \cup IF outcome = "SUCCEEDED" THEN {sess[s].key} ELSE {}
  PROVE  RunsInv'
  <1> DEFINE new == Run(sess[s], outcome)
  <1>1. new.key = sess[s].key /\ new.status = outcome /\ new.from = sess[s].status
    BY DEF Run
  <1> HIDE DEF new
  <1>2. runs' = runs \cup {new}
    BY DEF new
  <1>3. (\A q \in runs : q.key # sess[s].key) /\ sess[s].key \notin Keys
    BY OwnKey
  <1>4. \A r, q \in runs' : r.key = q.key => r = q
    BY <1>1, <1>2, <1>3 DEF AnalysisInv, RunsInv
  <1>5. RunsTellTheTruth'
    BY <1>1, <1>2, <1>3 DEF AnalysisInv, RunsInv, RunsTellTheTruth
  <1>6. \A k \in Keys' : \E r \in runs' : r.key = k
    <2>1. \A k \in Keys : \E r \in runs : r.key = k
      BY DEF AnalysisInv, RunsInv, Keys
    <2> QED
      BY <1>1, <1>2, <2>1
  <1>7. \A a \in analyses' : a.key \in Keys'
    BY DEF Keys
  <1> QED
    BY <1>4, <1>5, <1>6, <1>7 DEF RunsInv

\* The rows are the flagged ones and nothing more.
LEMMA FlagsOnly ==
  ASSUME AnalysisInv, NEW keys, analyses' = Flagged(keys), history' = history
  PROVE  /\ RowsInv' /\ Keys' = Keys /\ Cardinality(analyses') = Cardinality(analyses)
         /\ \A a \in analyses : \E b \in analyses' :
                Same(a, b) /\ (~a.flagged /\ a.key \notin keys => ~b.flagged)
  <1> DEFINE new == Flagged(keys)
  <1>1. RowsInv
    BY DEF AnalysisInv
  <1>2. /\ Rewritten(new) /\ \A b \in new : RowFits(b, history)
        /\ \A a \in analyses : \E b \in new :
               Same(a, b) /\ (~a.flagged /\ a.key \notin keys => ~b.flagged)
    BY <1>1, FlaggedRows
  <1> HIDE DEF new
  <1>3. /\ IsFiniteSet(new) /\ Cardinality(new) = Cardinality(analyses)
        /\ {b.revision : b \in new} = {a.revision : a \in analyses}
        /\ {b.key : b \in new} = {a.key : a \in analyses}
    BY <1>1, <1>2, Recount
  <1>4. analyses' = new
    BY DEF new
  <1>5. RowsInv'
    BY <1>1, <1>2, <1>3, <1>4 DEF RowsInv, RevisionsAreDense, Rewritten
  <1> QED
    BY <1>2, <1>3, <1>4, <1>5 DEF Keys

LEMMA KeysLast ==
  ASSUME Keys \subseteq Keys'
  PROVE  \A a \in analyses : \E b \in analyses' : b.key = a.key
  BY DEF Keys

LEMMA RefuseBareKeeps == ASSUME AnalysisInv, NEW s \in Sessions, RefuseBare(s) PROVE AnalysisInv'
  <1>1. /\ analyses' = Flagged(Outdated(sess[s].content)) /\ Ends(s)
        /\ UNCHANGED <<status, history, runs, reused>>
    BY DEF RefuseBare
  <1>2. /\ RowsInv' /\ Keys' = Keys
        /\ \A a \in analyses : \E b \in analyses' : Same(a, b)
    BY <1>1, FlagsOnly
  <1>3. SessInv'
    BY <1>1, <1>2, EndingStep, KeysLast
  <1>4. ReuseIsHonest'
    BY <1>1, <1>2, SameFields, HonestAfter DEF AnalysisInv
  <1>5. RunsInv'
    <2>1. \A a \in analyses' : a.key \in Keys
      BY <1>2 DEF Keys
    <2>2. \A k \in Keys : \E r \in runs : r.key = k
      BY DEF AnalysisInv, RunsInv, Keys
    <2>3. RunsTellTheTruth'
      BY <1>1, <1>2 DEF AnalysisInv, RunsInv, RunsTellTheTruth
    <2> QED
      BY <1>1, <2>1, <2>2, <2>3 DEF AnalysisInv, RunsInv
  <1>6. StatusInv'
    BY <1>1, <1>2 DEF AnalysisInv, StatusInv, StatusIsEarned
  <1> QED
    BY <1>2, <1>3, <1>4, <1>5, <1>6 DEF AnalysisInv

LEMMA UnsuccessfulKeeps ==
  ASSUME AnalysisInv, NEW s \in Sessions, CommitRefused(s) \/ Fail(s)
  PROVE  AnalysisInv'
  <1>1. SessionFits(sess[s], analyses, runs, history, status)
    BY DEF AnalysisInv, SessInv
  <1>2. Pending(sess[s]) /\ sess[s].pc # "idle"
    BY DEF CommitRefused, Fail, At, Pending
  <1>3. PICK outcome \in {"RUNNING", "FAILED"} :
          /\ runs' = runs \cup {Run(sess[s], outcome)}
          /\ outcome = "RUNNING" => ~MayAnalyze(sess[s].status)
    <2>1. CASE CommitRefused(s)
      BY <1>1, <2>1 DEF CommitRefused, At, SessionFits, Pending
    <2>2. CASE Fail(s)
      BY <2>2 DEF Fail
    <2> QED
      BY <2>1, <2>2
  <1>4. /\ analyses' = Flagged(sess[s].flags) /\ Ends(s) /\ UNCHANGED <<history, reused>>
        /\ status' \in {status, sess[s].status}
    BY DEF CommitRefused, Fail, Restored
  <1>5. /\ RowsInv' /\ Keys' = Keys
        /\ \A a \in analyses : \E b \in analyses' : Same(a, b)
    BY <1>4, FlagsOnly
  <1>6. RunsInv'
    BY <1>2, <1>3, <1>5, RecordedRun
  <1>7. \A q \in runs' : q \in runs \/ (Pending(sess[s]) /\ q.key = sess[s].key)
    BY <1>2, <1>3 DEF Run
  <1>8. SessInv'
    BY <1>4, <1>5, <1>7, EndingStep, KeysLast
  <1>9. ReuseIsHonest'
    BY <1>4, <1>5, SameFields, HonestAfter DEF AnalysisInv
  <1>10. StatusInv'
    <2>1. /\ sess[s].status \in AssignmentStatuses \ {"ANALYSIS_IN_PROGRESS"}
          /\ sess[s].status = "ANALYZED" => analyses # {}
      BY <1>1, <1>2 DEF SessionFits
    <2>2. analyses # {} => analyses' # {}
      BY <1>5
    <2> QED
      BY <1>4, <2>1, <2>2 DEF AnalysisInv, StatusInv, StatusIsEarned
  <1> QED
    BY <1>5, <1>6, <1>8, <1>9, <1>10 DEF AnalysisInv

LEMMA NextRevisionIs ==
  ASSUME RowsInv
  PROVE  NextRevision = Cardinality(analyses) + 1 /\ Cardinality(analyses) \in Nat
  <1> DEFINE count == Cardinality(analyses)
             marks == {a.revision : a \in analyses}
  <1>1. count \in Nat
    BY FS_CardinalityType DEF RowsInv
  <1>2. marks = 1..count
    BY DEF RowsInv, RevisionsAreDense
  <1>3. \A a \in analyses : a.revision \in 1..count
    BY <1>2
  <1>4. count > 0 => \E a \in analyses : a.revision = count
    BY <1>1, <1>2
  <1> HIDE DEF count
  <1>5. \A n \in marks \cup {0} : (\A a \in analyses : a.revision <= n) <=> n = count
    BY <1>1, <1>2, <1>3, <1>4
  <1>6. count \in marks \cup {0}
    BY <1>1, <1>2
  <1>7. (CHOOSE n \in marks \cup {0} : \A a \in analyses : a.revision <= n) = count
    BY <1>5, <1>6
  <1>8. NextRevision = 1 + (CHOOSE n \in marks \cup {0} : \A a \in analyses : a.revision <= n)
    BY DEF NextRevision
  <1>9. NextRevision = 1 + count
    BY <1>7, <1>8
  <1>10. NextRevision = count + 1
    BY <1>1, <1>9
  <1> QED
    BY <1>1, <1>10 DEF count

LEMMA SucceedKeeps ==
  ASSUME AnalysisInv, NEW s \in Sessions, Succeed(s)
  PROVE  /\ AnalysisInv'
         /\ Cardinality(analyses) \in Nat /\ Cardinality(analyses') = Cardinality(analyses) + 1
         /\ \A a \in analyses : \E b \in analyses' :
                Same(a, b) /\ (~a.flagged /\ a.key \notin sess[s].flags => ~b.flagged)
  <1> DEFINE me == sess[s]
             old == Flagged(me.flags)
             one == Analysis(me, NextRevision)
  <1>1. SessionFits(me, analyses, runs, history, status)
    BY DEF AnalysisInv, SessInv
  <1>2. /\ me.pc = "written" /\ me.op.do = "analyze" /\ Pending(me)
        /\ analyses' = old \cup {one} /\ runs' = runs \cup {Run(me, "SUCCEEDED")}
        /\ status' = "ANALYZED" /\ Ends(s) /\ UNCHANGED <<history, reused>>
    BY DEF Succeed, At, Analyzing, Pending
  <1>3. RowsInv
    BY DEF AnalysisInv
  <1>4. /\ Rewritten(old) /\ \A b \in old : RowFits(b, history)
        /\ \A a \in analyses : \E b \in old :
               Same(a, b) /\ (~a.flagged /\ a.key \notin me.flags => ~b.flagged)
    BY <1>3, FlaggedRows
  <1>5. /\ IsFiniteSet(old) /\ Cardinality(old) = Cardinality(analyses)
        /\ {b.revision : b \in old} = {a.revision : a \in analyses}
        /\ {b.key : b \in old} = {a.key : a \in analyses}
    BY <1>3, <1>4, Recount
  <1>6. /\ DOMAIN one = Columns /\ one.key = me.key /\ one.content = me.content
        /\ one.notes = me.op.notes /\ one.revision = NextRevision /\ one.version = me.version
        /\ one.overlay = {} /\ one.types = {} /\ one.verdict = "PENDING"
        /\ one.question = "OPEN" /\ one.raced = me.raced
    BY DEF Analysis, Columns
  <1>7. /\ \A q \in runs : q.key # me.key
        /\ me.key \notin Keys
    BY <1>2, OwnKey
  <1>8. NextRevision = Cardinality(analyses) + 1 /\ Cardinality(analyses) \in Nat
    BY <1>3, NextRevisionIs
  <1>9. RowFits(one, history)
    BY <1>1, <1>2, <1>6 DEF RowFits, SessionFits, Verdicts, QuestionStatuses
  <1>10. \A b \in old : b.key # one.key
    BY <1>5, <1>6, <1>7 DEF Keys
  <1> HIDE DEF me, old, one
  <1>11. IsFiniteSet(analyses') /\ Cardinality(analyses') = Cardinality(analyses) + 1
    BY <1>2, <1>5, <1>10, FS_AddElement
  <1>12. RevisionsAreDense'
    <2>1. {a.revision : a \in analyses'} = {b.revision : b \in old} \cup {one.revision}
      BY <1>2
    <2>2. {b.revision : b \in old} = 1..Cardinality(analyses)
      BY <1>3, <1>5 DEF RowsInv, RevisionsAreDense
    <2>3. {a.revision : a \in analyses'} = (1..Cardinality(analyses)) \cup {Cardinality(analyses) + 1}
      BY <1>6, <1>8, <2>1, <2>2
    <2> DEFINE n == Cardinality(analyses)
    <2>4. n \in Nat
      BY <1>8
    <2> HIDE DEF n
    <2>5. (1..n) \cup {n + 1} = 1..(n + 1)
      BY <2>4
    <2> QED
      BY <1>11, <2>3, <2>5 DEF RevisionsAreDense, n
  <1>13. RowsInv'
    BY <1>2, <1>4, <1>9, <1>10, <1>11, <1>12 DEF RowsInv, Rewritten
  <1>14. Keys' = Keys \cup {me.key}
    BY <1>2, <1>5, <1>6 DEF Keys
  <1>15. RunsInv'
    BY <1>2, <1>14, RecordedRun DEF me
  <1>16. \A q \in runs' : q \in runs \/ (Pending(me) /\ q.key = me.key)
    BY <1>2 DEF Run
  <1>17. \A a \in analyses : \E b \in analyses' :
            Same(a, b) /\ (~a.flagged /\ a.key \notin me.flags => ~b.flagged)
    BY <1>2, <1>4
  <1>18. \A a \in analyses : \E b \in analyses' :
            b.key = a.key /\ b.content = a.content /\ b.notes = a.notes
    BY <1>17, SameFields
  <1>19. SessInv'
    BY <1>2, <1>16, <1>18, EndingStep DEF me
  <1>20. ReuseIsHonest'
    BY <1>2, <1>18, HonestAfter DEF AnalysisInv
  <1>21. StatusInv'
    BY <1>2 DEF AnalysisInv, StatusInv, StatusIsEarned, AssignmentStatuses
  <1> QED
    BY <1>8, <1>11, <1>13, <1>15, <1>17, <1>19, <1>20, <1>21 DEF AnalysisInv, me

\* What the student says of an analysis changes nothing of what it is.
LEMMA ReviewedIs ==
  ASSUME NEW a, NEW me, RowFits(a, history), OpFits(me.op), me.op.do # "analyze",
         me.loaded.overlay \subseteq Fields
  PROVE  /\ RowFits(Reviewed(a, me), history)
         /\ \A f \in Columns \ {"overlay", "types", "verdict", "question"} : Reviewed(a, me)[f] = a[f]
         /\ me.loaded = a => a.overlay \subseteq Reviewed(a, me).overlay
  <1> DEFINE b == Reviewed(a, me)
  <1>1. DOMAIN a = Columns
    BY DEF RowFits
  <1>2. CASE me.op.do = "edit"
    <2> DEFINE kinds == Reclassified(a.types, me)
               said == IF me.op.fields \subseteq me.loaded.overlay THEN a.overlay ELSE Overlaid(me)
    <2>1. b = [a EXCEPT !.types = kinds, !.overlay = said]
      BY <1>2 DEF Reviewed
    <2> HIDE DEF b, kinds, said
    <2>2. /\ DOMAIN b = Columns /\ b.types = kinds /\ b.overlay = said
          /\ \A f \in Columns \ {"overlay", "types"} : b[f] = a[f]
      BY <1>1, <2>1 DEF Columns
    <2>3. b.types \subseteq Types
      BY <1>2, <2>2 DEF kinds, Reclassified, RowFits, OpFits
    <2>4. b.overlay \subseteq Fields /\ (me.loaded = a => a.overlay \subseteq b.overlay)
      BY <1>2, <2>2 DEF said, Overlaid, RowFits, OpFits
    <2>5. RowFits(b, history)
      BY <2>2, <2>3, <2>4 DEF RowFits, Columns
    <2> QED
      BY <2>2, <2>4, <2>5 DEF b
  <1>3. CASE me.op.do = "review"
    <2>1. b = [a EXCEPT !.verdict = IF me.op.verdict = me.loaded.verdict THEN @ ELSE me.op.verdict]
      BY <1>3 DEF Reviewed
    <2>2. /\ DOMAIN b = Columns /\ b.verdict \in {a.verdict, me.op.verdict}
          /\ \A f \in Columns \ {"verdict"} : b[f] = a[f]
      BY <1>1, <2>1 DEF Columns
    <2> HIDE DEF b
    <2>3. RowFits(b, history)
      BY <1>3, <2>2 DEF RowFits, OpFits, Columns
    <2> QED
      BY <2>2, <2>3 DEF b, Columns
  <1>4. CASE me.op.do = "question"
    <2>1. b = [a EXCEPT !.question = IF me.op.answer = me.loaded.question THEN @ ELSE me.op.answer]
      BY <1>4 DEF Reviewed
    <2>2. /\ DOMAIN b = Columns /\ b.question \in {a.question, me.op.answer}
          /\ \A f \in Columns \ {"question"} : b[f] = a[f]
      BY <1>1, <2>1 DEF Columns
    <2> HIDE DEF b
    <2>3. RowFits(b, history)
      BY <1>4, <2>2 DEF RowFits, OpFits, Columns
    <2> QED
      BY <2>2, <2>3 DEF b, Columns
  <1> QED
    BY <1>2, <1>3, <1>4 DEF OpFits

\* The student's word replaces one row by itself.
LEMMA SayRows ==
  ASSUME AnalysisInv, NEW s \in Sessions, Say(s)
  PROVE  \E a \in analyses, b \in analyses' :
            /\ a.key = sess[s].op.of
            /\ analyses' = (analyses \ {a}) \cup {b}
            /\ RowFits(b, history)
            /\ \A f \in Columns \ {"overlay", "types", "verdict", "question"} : b[f] = a[f]
            /\ ~sess[s].overtaken => a.overlay \subseteq b.overlay
  <1> DEFINE me == sess[s]
             a == Stored(me.op.of)
             b == Reviewed(a, me)
  <1>1. SessionFits(me, analyses, runs, history, status)
    BY DEF AnalysisInv, SessInv
  <1>2. /\ me.pc # "idle" /\ me.op.do # "analyze"
        /\ analyses' = (analyses \ {a}) \cup {b}
    BY DEF Say, At, Analyzing
  <1>3. /\ OpFits(me.op) /\ me.loaded.overlay \subseteq Fields
        /\ \E c \in analyses : c.key = me.op.of
        /\ ~me.overtaken => \A c \in analyses : c.key = me.op.of => me.loaded = c
    BY <1>1, <1>2 DEF SessionFits
  <1>4. me.op.of \in Keys
    BY <1>3 DEF Keys
  <1>5. a \in analyses /\ a.key = me.op.of
    BY <1>4, StoredIsThere DEF AnalysisInv
  <1>6. RowFits(a, history)
    BY <1>5 DEF AnalysisInv, RowsInv
  <1> HIDE DEF me, a
  <1>7. /\ RowFits(b, history)
        /\ \A f \in Columns \ {"overlay", "types", "verdict", "question"} : b[f] = a[f]
        /\ me.loaded = a => a.overlay \subseteq b.overlay
    BY <1>2, <1>3, <1>6, ReviewedIs
  <1>8. ~me.overtaken => a.overlay \subseteq b.overlay
    BY <1>3, <1>5, <1>7
  <1> HIDE DEF b
  <1>9. b \in analyses'
    BY <1>2
  <1> QED
    BY <1>2, <1>5, <1>7, <1>8, <1>9 DEF me

LEMMA SayKeeps == ASSUME AnalysisInv, NEW s \in Sessions, Say(s) PROVE AnalysisInv'
  <1>1. /\ sess[s].op.do # "analyze" /\ Ends(s)
        /\ UNCHANGED <<status, history, runs, reused>>
    BY DEF Say, Analyzing
  <1>2. RowsInv
    BY DEF AnalysisInv
  <1>3. PICK a \in analyses, b \in analyses' :
            /\ a.key = sess[s].op.of
            /\ analyses' = (analyses \ {a}) \cup {b}
            /\ RowFits(b, history)
            /\ \A f \in Columns \ {"overlay", "types", "verdict", "question"} : b[f] = a[f]
    BY SayRows
  <1>4. b.key = a.key /\ b.revision = a.revision /\ b.content = a.content /\ b.notes = a.notes
    BY <1>3 DEF Columns
  <1> DEFINE new == analyses'
  <1>5. new = (analyses \ {a}) \cup {b}
    BY <1>3
  <1>6. \A c \in analyses : c.key = a.key => c = a
    BY <1>2 DEF RowsInv
  <1>7. analyses' = new
    OBVIOUS
  <1> HIDE DEF new
  <1>8. Rewritten(new)
    <2>1. \A c \in analyses : \E d \in new : Kin(c, d)
      BY <1>4, <1>5 DEF Kin
    <2>2. \A d \in new : \E c \in analyses : Kin(c, d)
      BY <1>4, <1>5 DEF Kin
    <2>3. \A c, d \in new : c.key = d.key => c = d
      BY <1>2, <1>4, <1>5, <1>6 DEF RowsInv
    <2> QED
      BY <2>1, <2>2, <2>3 DEF Rewritten
  <1>9. /\ IsFiniteSet(new) /\ Cardinality(new) = Cardinality(analyses)
        /\ {c.revision : c \in new} = {c.revision : c \in analyses}
        /\ {c.key : c \in new} = {c.key : c \in analyses}
    BY <1>2, <1>8, Recount
  <1>10. \A c \in new : RowFits(c, history)
    BY <1>2, <1>3, <1>5 DEF RowsInv
  <1>11. RowsInv'
    BY <1>1, <1>2, <1>7, <1>8, <1>9, <1>10 DEF RowsInv, RevisionsAreDense, Rewritten
  <1>12. Keys' = Keys
    BY <1>7, <1>9 DEF Keys
  <1>13. SessInv'
    BY <1>1, <1>12, EndingStep, KeysLast
  <1>14. \A c \in analyses : \E d \in analyses' :
            d.key = c.key /\ d.content = c.content /\ d.notes = c.notes
    BY <1>4, <1>5, <1>7
  <1>15. ReuseIsHonest'
    BY <1>1, <1>14, HonestAfter DEF AnalysisInv
  <1>16. RunsInv'
    <2>1. \A c \in analyses' : c.key \in Keys
      BY <1>12 DEF Keys
    <2>2. \A k \in Keys : \E r \in runs : r.key = k
      BY DEF AnalysisInv, RunsInv, Keys
    <2>3. RunsTellTheTruth'
      BY <1>1, <1>12 DEF AnalysisInv, RunsInv, RunsTellTheTruth
    <2> QED
      BY <1>1, <2>1, <2>2, <2>3 DEF AnalysisInv, RunsInv
  <1>17. StatusInv'
    BY <1>1, <1>3 DEF AnalysisInv, StatusInv, StatusIsEarned
  <1> QED
    BY <1>11, <1>13, <1>15, <1>16, <1>17 DEF AnalysisInv

-----------------------------------------------------------------------------
(* The invariant, and what follows from it.                                *)

LEMMA AnalysisInit == ASSUME Init PROVE AnalysisInv
  <1>1. PICK seed \in Seeds : status = seed.status /\ history = <<seed.content>>
    BY DEF Init
  <1>2. /\ status \in AssignmentStatuses \ {"ANALYSIS_IN_PROGRESS", "ANALYZED"}
        /\ seed.content \in Contents
    BY <1>1, SeedsAssumption, AnalysisRunsAssumption DEF SeedsAssumption, AnalysisRunsAssumption
  <1>3. StatusInv
    BY <1>1, <1>2 DEF StatusInv, StatusIsEarned
  <1>4. analyses = {} /\ runs = {} /\ reused = {}
    BY DEF Init
  <1>5. RevisionsAreDense
    <2>1. {a.revision : a \in analyses} = {}
      BY <1>4
    <2>2. Cardinality(analyses) = 0
      BY <1>4, FS_EmptySet
    <2> QED
      BY <2>1, <2>2 DEF RevisionsAreDense
  <1>6. RowsInv
    BY <1>4, <1>5, FS_EmptySet DEF RowsInv
  <1>7. RunsInv /\ ReuseIsHonest
    BY <1>4 DEF RunsInv, RunsTellTheTruth, Keys, ReuseIsHonest
  <1>8. DOMAIN sess = Sessions /\ \A s \in Sessions : sess[s] = Rest
    BY DEF Init
  <1>9. SessInv
    BY <1>8, RestFits DEF SessInv, Apart
  <1> QED
    BY <1>3, <1>6, <1>7, <1>9 DEF AnalysisInv

LEMMA AnalysisStep == ASSUME AnalysisInv, [Next]_vars PROVE AnalysisInv'
  <1>1. CASE EditSpecification \/ SetStatus
    BY <1>1, MoveKeeps
  <1>2. ASSUME NEW s \in Sessions,
               \/ Load(s) \/ RefuseBusy(s) \/ Reuse(s) \/ RefuseBare(s) \/ RefuseKey(s)
               \/ Start(s) \/ CommitRefused(s) \/ Answer(s) \/ Succeed(s) \/ Fail(s)
               \/ Correct(s) \/ Say(s) \/ RollBack(s)
        PROVE  AnalysisInv'
    BY <1>2, LoadKeeps, LeavingKeeps, ReuseKeeps, RefuseBareKeeps, StartKeeps, UnsuccessfulKeeps,
       AnswerKeeps, SucceedKeeps, CorrectKeeps, SayKeeps
  <1>3. CASE UNCHANGED vars
    BY <1>3 DEF vars, AnalysisInv, RowsInv, RevisionsAreDense, RunsInv, RunsTellTheTruth, Keys,
                StatusInv, StatusIsEarned, ReuseIsHonest, SessInv
  <1> QED
    BY <1>1, <1>2, <1>3 DEF Next

LEMMA AlwaysAnalysisInv == Spec => []AnalysisInv
  BY AnalysisInit, AnalysisStep, PTL DEF Spec

\* However many requests overlap, an analysis is what its revision, its key and
\* its version say it is: revisions are without gap or tie, a version is of the
\* specification analyzed unless it moved between the two reads, and what was
\* given without a run is of what was asked (AnalysesAreWhatTheySay).
THEOREM AnalysesAlwaysAreWhatTheySay == Spec => []AnalysesAreWhatTheySay
  <1>1. ASSUME AnalysisInv PROVE AnalysesAreWhatTheySay
    <2>1. TypeOK
      BY <1>1 DEF AnalysisInv, RowsInv, RowFits, RunsInv, StatusInv, TypeOK
    <2>2. VersionIsTheOneAnalyzed
      BY <1>1 DEF AnalysisInv, RowsInv, RowFits, VersionIsTheOneAnalyzed
    <2> QED
      BY <1>1, <2>1, <2>2 DEF AnalysisInv, RowsInv, AnalysesAreWhatTheySay
  <1> QED
    BY <1>1, AlwaysAnalysisInv, PTL

\* Every run that is recorded says how it ended, SUCCEEDED exactly when there is
\* an analysis of its key, and the assignment is never left
\* ANALYSIS_IN_PROGRESS, nor ANALYZED without an analysis (OutcomesAreTrue).
THEOREM OutcomesAreAlwaysTrue == Spec => []OutcomesAreTrue
  <1>1. ASSUME AnalysisInv PROVE OutcomesAreTrue
    BY <1>1 DEF AnalysisInv, RunsInv, StatusInv, OutcomesAreTrue
  <1> QED
    BY <1>1, AlwaysAnalysisInv, PTL

-----------------------------------------------------------------------------
(* What a request leaves of the others' work.                              *)

\* A request that ends with a run, or is refused one: what it makes of the rows,
\* and of the status when nothing overtook it.
LEMMA ClosingStep ==
  ASSUME AnalysisInv, NEW s \in Sessions, Closes(s)
  PROVE  /\ \A a \in analyses : \E b \in analyses' :
                /\ Same(a, b)
                /\ Alone(s) /\ ~a.flagged /\ a.content = Content => ~b.flagged
         /\ Alone(s) => IF Cardinality(analyses') > Cardinality(analyses) THEN status' = "ANALYZED"
                                                                          ELSE status' = status
  <1>1. SessionFits(sess[s], analyses, runs, history, status)
    BY DEF AnalysisInv, SessInv
  <1>2. sess[s].pc # "idle"
    BY DEF Closes, Succeed, Fail, CommitRefused, RefuseBare, Ready4Run, At
  <1>3. Alone(s) => sess[s].status = status /\ sess[s].content = Content
    BY <1>1, <1>2 DEF SessionFits, Alone, Content
  <1>4. \A a \in analyses : a.key.content = a.content
    BY DEF AnalysisInv, RowsInv, RowFits
  <1>5. Cardinality(analyses) \in Nat
    BY FS_CardinalityType DEF AnalysisInv, RowsInv
  <1>6. CASE Succeed(s)
    <2>1. /\ Cardinality(analyses') = Cardinality(analyses) + 1
          /\ \A a \in analyses : \E b \in analyses' :
                 Same(a, b) /\ (~a.flagged /\ a.key \notin sess[s].flags => ~b.flagged)
      BY <1>6, SucceedKeeps
    <2>2. \A k \in sess[s].flags : k.content # sess[s].content
      BY <1>1, <1>6 DEF SessionFits, Succeed, At, Pending
    <2>3. status' = "ANALYZED"
      BY <1>6 DEF Succeed
    <2>4. \A a \in analyses : Alone(s) /\ a.content = Content => a.key \notin sess[s].flags
      BY <1>3, <1>4, <2>2
    <2>5. Cardinality(analyses') > Cardinality(analyses)
      BY <1>5, <2>1
    <2> QED
      BY <2>1, <2>3, <2>4, <2>5
  <1>7. CASE Fail(s) \/ CommitRefused(s) \/ RefuseBare(s)
    <2> DEFINE keys == IF RefuseBare(s) THEN Outdated(sess[s].content) ELSE sess[s].flags
    <2>1. analyses' = Flagged(keys) /\ history' = history /\ status' \in {status, sess[s].status}
      BY <1>7 DEF Fail, CommitRefused, RefuseBare, Restored
    <2>2. \A k \in keys : k.content # sess[s].content
      <3>1. \A k \in Outdated(sess[s].content) : k.content # sess[s].content
        BY <1>4 DEF Outdated
      <3>2. ~RefuseBare(s) => \A k \in sess[s].flags : k.content # sess[s].content
        BY <1>1, <1>7 DEF SessionFits, Fail, CommitRefused, At, Pending
      <3> QED
        BY <3>1, <3>2
    <2> HIDE DEF keys
    <2>3. /\ Cardinality(analyses') = Cardinality(analyses)
          /\ \A a \in analyses : \E b \in analyses' :
                 Same(a, b) /\ (~a.flagged /\ a.key \notin keys => ~b.flagged)
      BY <2>1, FlagsOnly
    <2>4. \A a \in analyses : Alone(s) /\ a.content = Content => a.key \notin keys
      BY <1>3, <1>4, <2>2
    <2>5. Alone(s) => status' = status
      BY <1>3, <2>1
    <2>6. ~(Cardinality(analyses') > Cardinality(analyses))
      BY <1>5, <2>3
    <2> QED
      BY <2>3, <2>4, <2>5, <2>6
  <1> QED
    BY <1>6, <1>7 DEF Closes

\* Every analysis has an heir, with the same word of the student unless it is
\* this request that says it.
LEMMA WordStays ==
  ASSUME AnalysisInv, [Next]_vars, NEW a \in analyses
  PROVE  \E b \in analyses' :
            /\ b.key = a.key
            /\ Word(b) # Word(a) => \E s \in Sessions : Say(s) /\ sess[s].op.of = a.key
            /\ a.overlay \subseteq b.overlay \/ \E s \in Sessions : Say(s) /\ ~Alone(s)
  <1>1. CASE analyses' = analyses
    BY <1>1
  <1>2. ASSUME NEW s \in Sessions, Closes(s) PROVE \E b \in analyses' : Same(a, b)
    BY <1>2, ClosingStep
  <1>3. CASE \E s \in Sessions : Closes(s)
    BY <1>2, <1>3, SameFields
  <1>4. ASSUME NEW s \in Sessions, Say(s)
        PROVE  \E b \in analyses' :
                  /\ b.key = a.key
                  /\ Word(b) # Word(a) => sess[s].op.of = a.key
                  /\ a.overlay \subseteq b.overlay \/ ~Alone(s)
    <2>1. PICK c \in analyses, d \in analyses' :
              /\ c.key = sess[s].op.of
              /\ analyses' = (analyses \ {c}) \cup {d}
              /\ \A f \in Columns \ {"overlay", "types", "verdict", "question"} : d[f] = c[f]
              /\ ~sess[s].overtaken => c.overlay \subseteq d.overlay
      BY <1>4, SayRows
    <2>2. d.key = c.key
      BY <2>1 DEF Columns
    <2>3. CASE a = c
      BY <2>1, <2>2, <2>3 DEF Alone
    <2>4. CASE a # c
      BY <2>1, <2>4
    <2> QED
      BY <2>3, <2>4
  <1>5. CASE \E s \in Sessions : Say(s)
    BY <1>4, <1>5
  <1>6. (\E s \in Sessions : Closes(s)) \/ (\E s \in Sessions : Say(s)) \/ analyses' = analyses
    <2>1. EditSpecification \/ SetStatus => analyses' = analyses
      BY DEF EditSpecification, SetStatus
    <2>2. ASSUME NEW s \in Sessions,
                 \/ Load(s) \/ RefuseBusy(s) \/ Reuse(s) \/ RefuseKey(s) \/ Start(s)
                 \/ Answer(s) \/ Correct(s) \/ RollBack(s)
          PROVE  analyses' = analyses
      <3>1. CASE Load(s)
        BY <3>1 DEF Load
      <3>2. CASE RefuseBusy(s) \/ Reuse(s) \/ RefuseKey(s)
        BY <3>2 DEF RefuseBusy, Reuse, RefuseKey
      <3>3. CASE Start(s)
        BY <3>3 DEF Start
      <3>4. CASE Answer(s) \/ Correct(s) \/ RollBack(s)
        BY <3>4 DEF Answer, Correct, RollBack
      <3> QED
        BY <2>2, <3>1, <3>2, <3>3, <3>4
    <2>3. UNCHANGED vars => analyses' = analyses
      BY DEF vars
    <2>4. ASSUME Next
          PROVE  \/ EditSpecification \/ SetStatus
                 \/ \E s \in Sessions :
                        \/ Closes(s) \/ Say(s)
                        \/ Load(s) \/ RefuseBusy(s) \/ Reuse(s) \/ RefuseKey(s) \/ Start(s)
                        \/ Answer(s) \/ Correct(s) \/ RollBack(s)
      BY <2>4, Zenon DEF Next, Closes
    <2> QED
      BY <2>1, <2>2, <2>3, <2>4
  <1> QED
    BY <1>1, <1>3, <1>5, <1>6

\* Whatever overlaps, a request that nothing overtook moves the status only to
\* ANALYZED with a new analysis and leaves current analyses unflagged; no analysis
\* is lost, and no other request touches what the student said of one
\* (RequestsKeepToThemselves).
THEOREM RequestsAlwaysKeepToThemselves == Spec => RequestsKeepToThemselves
  <1>1. ASSUME AnalysisInv, [Next]_vars
        PROVE  [\A s \in Sessions : Alone(s) /\ Closes(s) =>
                  IF Cardinality(analyses') > Cardinality(analyses) THEN status' = "ANALYZED"
                                                                    ELSE status' = status]_vars
    BY <1>1, ClosingStep
  <1>2. ASSUME AnalysisInv, [Next]_vars
        PROVE  [\A s \in Sessions : Alone(s) /\ Closes(s) =>
                  \A a \in analyses : ~a.flagged /\ a.content = Content =>
                      \E b \in analyses' : b.key = a.key /\ ~b.flagged]_vars
    BY <1>2, ClosingStep, SameFields
  <1>3. ASSUME AnalysisInv, [Next]_vars
        PROVE  [\A a \in analyses : \E b \in analyses' :
                  /\ b.key = a.key
                  /\ Word(b) # Word(a) => \E s \in Sessions : Say(s) /\ sess[s].op.of = a.key
                  /\ a.overlay \subseteq b.overlay \/ \E s \in Sessions : Say(s) /\ ~Alone(s)]_vars
    BY <1>3, WordStays
  <1> QED
    BY <1>1, <1>2, <1>3, AlwaysAnalysisInv, PTL
       DEF Spec, RequestsKeepToThemselves, AloneMovesToAnalyzed, AloneFlagsOutdated, StudentsWordStays

=============================================================================
