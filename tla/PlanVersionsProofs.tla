------------------------- MODULE PlanVersionsProofs -------------------------
(***************************************************************************)
(* Proofs about PlanVersions for any number of overlapping requests, any   *)
(* plans and edits: versions are the history PlanHistory promises, a key   *)
(* has one outcome, a plan is current when it is added or approved, what   *)
(* people wrote or approved is kept, and the graphs that are stored stay   *)
(* sound.                                                                  *)
(***************************************************************************)
EXTENDS PlanVersions, FiniteSetTheorems, SequenceTheorems, TLAPS

Columns == {"status", "analysis", "key", "wording", "tasks", "edges", "milestones"}

PlanFits(plan) ==
    /\ DOMAIN plan = Columns
    /\ plan.status \in {"READY_FOR_REVIEW", "APPROVED"}
    /\ plan.key \in Keys \cup {NoKey}

\* What is stored: versions one after the other, one per key, each with the
\* run of its key, and no other run that has not failed.
StoredInv ==
    /\ \E any : plans \in Seq(any)
    /\ \A v \in DOMAIN plans : PlanFits(plans[v])
    /\ \A v, w \in DOMAIN plans : plans[v].key = plans[w].key /\ plans[v].key # NoKey => v = w
    /\ \A r \in runs : r.key \in Keys
    /\ \A r, q \in runs : r.key = q.key => r = q
    /\ \A v \in DOMAIN plans :
          plans[v].key # NoKey => \E r \in runs : r.key = plans[v].key /\ r.status # "FAILED"
    /\ \A r \in runs : r.status # "FAILED" => \E v \in DOMAIN plans : plans[v].key = r.key

Asking(me) == me.pc \in {"asked", "persisted", "refused"}

Apart(me, you) == Asking(me) /\ Asking(you) /\ me.key # NoKey => me.key # you.key

\* A request in progress: the key it asks under is still free, and what it is
\* about to add fits.
SessionFits(me, rows, done) ==
    /\ DOMAIN me = DOMAIN Rest
    /\ me.pc \in {"idle", "asked", "persisted", "refused", "edited", "agreed"}
    /\ me.pc \in {"edited", "agreed"} => me.version \in DOMAIN rows
    /\ me.pc = "edited" => Editable(me.status)
    /\ Asking(me) =>
          /\ me.key \in Keys \cup {NoKey}
          /\ me.key # NoKey => /\ \A v \in DOMAIN rows : rows[v].key # me.key
                               /\ \A r \in done : r.key # me.key
    /\ me.pc = "refused" => me.run = "FAILED"
    /\ me.pc = "persisted" =>
          /\ PlanFits(me.plan[2]) /\ me.plan[2].status = "READY_FOR_REVIEW"
          /\ me.plan[2].key = me.key
          /\ me.run \in {"none", "SUCCEEDED", "RUNNING"}
          /\ me.run = "none" => me.key = NoKey

SessInv ==
    /\ DOMAIN sess = Sessions
    /\ \A s \in Sessions : SessionFits(sess[s], plans, runs)
    /\ \A s, t \in Sessions : s # t => Apart(sess[s], sess[t])

PlanInv == StoredInv /\ SessInv

LEMMA RestFits ==
  ASSUME NEW rows, NEW done
  PROVE  SessionFits(Rest, rows, done) /\ Rest.pc = "idle" /\ ~Asking(Rest)
  BY DEF Rest, SessionFits, Asking

LEMMA RestFields ==
  DOMAIN Rest = {"pc", "version", "key", "basis", "mine", "plan", "run", "edit", "status",
                 "edges", "owed"}
  BY DEF Rest

LEMMA SamePlans ==
  ASSUME StoredInv, UNCHANGED <<plans, runs>>
  PROVE  StoredInv'
  BY DEF StoredInv

-----------------------------------------------------------------------------
(* Steps of one request that others do not see.                            *)

LEMMA QuietStep ==
  ASSUME PlanInv, NEW s \in Sessions, DOMAIN sess' = Sessions,
         \A t \in Sessions \ {s} : sess'[t] = sess[t],
         UNCHANGED <<plans, runs>>,
         SessionFits(sess'[s], plans, runs),
         \A t \in Sessions \ {s} : Apart(sess[t], sess'[s]) /\ Apart(sess'[s], sess[t])
  PROVE  PlanInv'
  <1>1. \A t \in Sessions : SessionFits(sess'[t], plans', runs')
    BY DEF PlanInv, SessInv
  <1>2. \A t, u \in Sessions : t # u => Apart(sess'[t], sess'[u])
    BY DEF PlanInv, SessInv
  <1> QED
    BY <1>1, <1>2, SamePlans DEF PlanInv, SessInv

\* A request that has just begun, and asks under no key or a free one.
LEMMA BeginningStep ==
  ASSUME PlanInv, NEW s \in Sessions, NEW r, sess' = [sess EXCEPT ![s] = r],
         UNCHANGED <<plans, runs>>, SessionFits(r, plans, runs),
         Asking(r) /\ r.key # NoKey => \A t \in Sessions : Asked(t) => sess[t].key # r.key
  PROVE  PlanInv'
  <1>1. /\ DOMAIN sess' = Sessions /\ sess'[s] = r
        /\ \A t \in Sessions \ {s} : sess'[t] = sess[t]
    BY DEF PlanInv, SessInv
  <1>2. \A t \in Sessions \ {s} : Apart(sess[t], r) /\ Apart(r, sess[t])
    BY DEF Apart, Asking, Asked
  <1> QED
    BY <1>1, <1>2, QuietStep

LEMMA AskKeeps ==
  ASSUME PlanInv, NEW s \in Sessions, NEW key \in Keys \cup {NoKey}, NEW basis, NEW version,
         NEW mine, NEW owed, Ask(s, key, basis, version, mine, owed)
  PROVE  PlanInv'
  <1> DEFINE r == [Rest EXCEPT !.pc = "asked", !.key = key, !.basis = basis,
                               !.version = version, !.mine = mine, !.owed = owed]
  <1>1. sess' = [sess EXCEPT ![s] = r] /\ UNCHANGED <<plans, runs>> /\ KeyFree(key)
    BY DEF Ask
  <1>2. DOMAIN r = DOMAIN Rest /\ r.pc = "asked" /\ r.key = key
    BY RestFields
  <1> HIDE DEF r
  <1>3. SessionFits(r, plans, runs)
    BY <1>1, <1>2 DEF SessionFits, KeyFree, Asking
  <1>4. r.key # NoKey => \A t \in Sessions : Asked(t) => sess[t].key # r.key
    BY <1>1, <1>2 DEF KeyFree
  <1> QED
    BY <1>1, <1>3, <1>4, BeginningStep

LEMMA VersionFits ==
  ASSUME NEW content, NEW basis, NEW key \in Keys \cup {NoKey}
  PROVE  LET plan == Version(content, basis, key)
         IN  /\ PlanFits(plan) /\ plan.status = "READY_FOR_REVIEW" /\ plan.key = key
             /\ plan.analysis = basis
  BY DEF Version, PlanFits, Columns

LEMMA RederiveKeeps == ASSUME PlanInv, NEW s \in Sessions, Rederive(s) PROVE PlanInv'
  <1> DEFINE base == plans[Latest]
             copy == [base EXCEPT !.milestones = Folded(Layers(base))]
             plan == Version(copy, base.analysis, NoKey)
             r == [Rest EXCEPT !.pc = "persisted", !.version = Latest, !.owed = Written(base),
                               !.plan = <<NextVersion, plan>>]
  <1>1. sess' = [sess EXCEPT ![s] = r] /\ UNCHANGED <<plans, runs>>
    BY DEF Rederive
  <1>2. PlanFits(plan) /\ plan.status = "READY_FOR_REVIEW" /\ plan.key = NoKey
    BY VersionFits
  <1> HIDE DEF plan, base
  <1>3. /\ DOMAIN r = DOMAIN Rest /\ r.pc = "persisted" /\ r.plan[2] = plan
        /\ r.key = NoKey /\ r.run = "none"
    BY DEF Rest
  <1> HIDE DEF r
  <1>4. SessionFits(r, plans, runs)
    BY <1>2, <1>3 DEF SessionFits, Asking
  <1> QED
    BY <1>1, <1>3, <1>4, BeginningStep

\* An edit or an approval that has begun, on a version that is there.
LEMMA OpeningIs ==
  ASSUME NEW s \in Sessions, NEW v,
         Agree(s, v) \/ \E e \in Edits(plans[v]) : Edit(s, v, e)
  PROVE  \E r : /\ sess' = [sess EXCEPT ![s] = r]
                /\ DOMAIN r = DOMAIN Rest /\ r.pc \in {"edited", "agreed"} /\ r.version = v
                /\ r.pc = "edited" => Editable(r.status)
  <1>1. CASE Agree(s, v)
    <2> DEFINE r == [Rest EXCEPT !.pc = "agreed", !.version = v]
    <2>1. DOMAIN r = DOMAIN Rest /\ r.pc = "agreed" /\ r.version = v
      BY RestFields
    <2>2. sess' = [sess EXCEPT ![s] = r]
      BY <1>1 DEF Agree
    <2> QED
      BY <2>1, <2>2
  <1>2. ASSUME NEW e \in Edits(plans[v]), Edit(s, v, e)
        PROVE  \E r : /\ sess' = [sess EXCEPT ![s] = r]
                      /\ DOMAIN r = DOMAIN Rest /\ r.pc = "edited" /\ r.version = v
                      /\ Editable(r.status)
    <2> DEFINE edit == [e EXCEPT !.body = LastEdit + 1]
               r == [Rest EXCEPT !.pc = "edited", !.version = v, !.edit = edit,
                                 !.status = plans[v].status, !.edges = plans[v].edges]
    <2>1. sess' = [sess EXCEPT ![s] = r] /\ Editable(plans[v].status)
      BY <1>2, Zenon DEF Edit
    <2> HIDE DEF edit
    <2>2. DOMAIN r = DOMAIN Rest /\ r.pc = "edited" /\ r.version = v /\ r.status = plans[v].status
      BY RestFields
    <2> QED
      BY <2>1, <2>2
  <1> QED
    BY <1>1, <1>2

LEMMA OpeningKeeps ==
  ASSUME PlanInv, NEW s \in Sessions, NEW v \in DOMAIN plans,
         Agree(s, v) \/ \E e \in Edits(plans[v]) : Edit(s, v, e)
  PROVE  PlanInv'
  <1>1. PICK r : /\ sess' = [sess EXCEPT ![s] = r]
                 /\ DOMAIN r = DOMAIN Rest /\ r.pc \in {"edited", "agreed"} /\ r.version = v
                 /\ r.pc = "edited" => Editable(r.status)
    BY OpeningIs
  <1>2. UNCHANGED <<plans, runs>>
    BY Zenon DEF Agree, Edit
  <1>3. SessionFits(r, plans, runs) /\ ~Asking(r)
    BY <1>1 DEF SessionFits, Asking
  <1> QED
    BY <1>1, <1>2, <1>3, BeginningStep

\* The answer, or the refusal: what it makes of the request.
LEMMA AnsweredIs ==
  ASSUME PlanInv, NEW s \in Sessions, Refuse(s) \/ \E proposal \in Proposals : Answer(s, proposal)
  PROVE  /\ sess[s].pc = "asked"
         /\ UNCHANGED <<plans, runs, analyses, moved, served, raced>>
         /\ DOMAIN sess' = Sessions /\ \A t \in Sessions \ {s} : sess'[t] = sess[t]
         /\ DOMAIN sess'[s] = DOMAIN sess[s]
         /\ sess'[s].key = sess[s].key /\ sess'[s].owed = sess[s].owed
         /\ sess'[s].version = sess[s].version /\ sess'[s].edit = sess[s].edit
         /\ \/ sess'[s].pc = "refused" /\ sess'[s].run = "FAILED"
            \/ /\ sess'[s].pc = "persisted" /\ sess'[s].run \in {"SUCCEEDED", "RUNNING"}
               /\ \E proposal \in Proposals :
                      sess'[s].plan[2] =
                          Version(CarryOver(Planned(proposal), sess[s].mine, CarriedEdges(s)),
                                  sess[s].basis, sess[s].key)
  <1>1. SessionFits(sess[s], plans, runs) /\ DOMAIN sess = Sessions
    BY DEF PlanInv, SessInv
  <1>2. DOMAIN sess[s] = {"pc", "version", "key", "basis", "mine", "plan", "run", "edit", "status",
                          "edges", "owed"}
    BY <1>1, RestFields DEF SessionFits
  <1>3. CASE Refuse(s)
    BY <1>1, <1>2, <1>3 DEF Refuse, At
  <1>4. ASSUME NEW proposal \in Proposals, Answer(s, proposal)
        PROVE  /\ sess[s].pc = "asked"
               /\ UNCHANGED <<plans, runs, analyses, moved, served, raced>>
               /\ DOMAIN sess' = Sessions /\ \A t \in Sessions \ {s} : sess'[t] = sess[t]
               /\ DOMAIN sess'[s] = DOMAIN sess[s]
               /\ sess'[s].key = sess[s].key /\ sess'[s].owed = sess[s].owed
               /\ sess'[s].version = sess[s].version /\ sess'[s].edit = sess[s].edit
               /\ sess'[s].pc = "persisted" /\ sess'[s].run \in {"SUCCEEDED", "RUNNING"}
               /\ sess'[s].plan[2] =
                      Version(CarryOver(Planned(proposal), sess[s].mine, CarriedEdges(s)),
                              sess[s].basis, sess[s].key)
    <2> DEFINE content == CarryOver(Planned(proposal), sess[s].mine, CarriedEdges(s))
               plan == Version(content, sess[s].basis, sess[s].key)
               run == IF Sound(DOMAIN content.tasks, content.edges) THEN "SUCCEEDED" ELSE "RUNNING"
               n == NextVersion
    <2>1. /\ sess' = [sess EXCEPT ![s].pc = "persisted", ![s].plan = <<n, plan>>, ![s].run = run]
          /\ sess[s].pc = "asked" /\ UNCHANGED <<plans, runs, analyses, moved, served, raced>>
      BY <1>4, Zenon DEF Answer, At
    <2>2. run \in {"SUCCEEDED", "RUNNING"}
      OBVIOUS
    <2> HIDE DEF plan, run, n
    <2>3. /\ DOMAIN sess' = Sessions /\ \A t \in Sessions \ {s} : sess'[t] = sess[t]
          /\ DOMAIN sess'[s] = DOMAIN sess[s]
          /\ sess'[s].key = sess[s].key /\ sess'[s].owed = sess[s].owed
          /\ sess'[s].version = sess[s].version /\ sess'[s].edit = sess[s].edit
          /\ sess'[s].pc = "persisted" /\ sess'[s].run = run /\ sess'[s].plan[2] = plan
      BY <1>1, <1>2, <2>1
    <2> QED
      BY <2>1, <2>2, <2>3 DEF plan
  <1> QED
    BY <1>3, <1>4

\* The request goes on under its key.
LEMMA AnsweredKeeps ==
  ASSUME PlanInv, NEW s \in Sessions, Refuse(s) \/ \E proposal \in Proposals : Answer(s, proposal)
  PROVE  PlanInv'
  <1>1. SessionFits(sess[s], plans, runs)
    BY DEF PlanInv, SessInv
  <1>2. sess[s].pc = "asked" /\ UNCHANGED <<plans, runs>>
    BY AnsweredIs
  <1>3. sess[s].key \in Keys \cup {NoKey}
    BY <1>1, <1>2 DEF SessionFits, Asking
  <1>4. /\ DOMAIN sess' = Sessions /\ \A t \in Sessions \ {s} : sess'[t] = sess[t]
        /\ DOMAIN sess'[s] = DOMAIN sess[s] /\ sess'[s].key = sess[s].key
        /\ \/ sess'[s].pc = "refused" /\ sess'[s].run = "FAILED"
           \/ /\ sess'[s].pc = "persisted" /\ sess'[s].run \in {"SUCCEEDED", "RUNNING"}
              /\ \E content : sess'[s].plan[2] = Version(content, sess[s].basis, sess[s].key)
    BY AnsweredIs
  <1>5. SessionFits(sess'[s], plans, runs)
    BY <1>1, <1>2, <1>3, <1>4, VersionFits DEF SessionFits, Asking
  <1>6. \A t \in Sessions \ {s} : Apart(sess[t], sess[s]) /\ Apart(sess[s], sess[t])
    BY DEF PlanInv, SessInv
  <1>7. \A t \in Sessions \ {s} : Apart(sess[t], sess'[s]) /\ Apart(sess'[s], sess[t])
    BY <1>2, <1>4, <1>6 DEF Apart, Asking
  <1> QED
    BY <1>2, <1>4, <1>5, <1>7, QuietStep

-----------------------------------------------------------------------------
(* Steps that end a request.                                               *)

LEMMA EndingStep ==
  ASSUME PlanInv, NEW s \in Sessions, End(s), DOMAIN plans \subseteq DOMAIN plans',
         \A v \in DOMAIN plans' :
             \/ v \in DOMAIN plans /\ plans'[v].key = plans[v].key
             \/ Asking(sess[s]) /\ plans'[v].key = sess[s].key,
         \A r \in runs' : r \in runs \/ (Asking(sess[s]) /\ r.key = sess[s].key)
  PROVE  SessInv'
  <1>1. /\ DOMAIN sess' = Sessions /\ sess'[s] = Rest
        /\ \A t \in Sessions \ {s} : sess'[t] = sess[t]
    BY DEF PlanInv, SessInv, End
  <1>2. ASSUME NEW t \in Sessions \ {s} PROVE SessionFits(sess[t], plans', runs')
    <2>1. SessionFits(sess[t], plans, runs) /\ Apart(sess[s], sess[t])
      BY DEF PlanInv, SessInv
    <2> QED
      BY <2>1 DEF SessionFits, Apart
  <1>3. \A t \in Sessions : SessionFits(sess'[t], plans', runs')
    BY <1>1, <1>2, RestFits
  <1>4. \A t, u \in Sessions : t # u => Apart(sess'[t], sess'[u])
    BY <1>1, RestFits DEF PlanInv, SessInv, Apart
  <1> QED
    BY <1>1, <1>3, <1>4 DEF SessInv

LEMMA LeavingKeeps ==
  ASSUME PlanInv, NEW s \in Sessions, VersionTaken(s) \/ EditConflict(s) \/ Abandon(s)
  PROVE  PlanInv'
  <1>1. End(s) /\ UNCHANGED <<plans, runs>>
    BY DEF VersionTaken, EditConflict, Abandon
  <1> QED
    BY <1>1, EndingStep, SamePlans DEF PlanInv

LEMMA CommitRefusalKeeps == ASSUME PlanInv, NEW s \in Sessions, CommitRefusal(s) PROVE PlanInv'
  <1>1. SessionFits(sess[s], plans, runs)
    BY DEF PlanInv, SessInv
  <1>2. /\ sess[s].pc = "refused" /\ runs' = runs \cup Finished(s) /\ End(s) /\ plans' = plans
    BY DEF CommitRefusal, At
  <1>3. Asking(sess[s]) /\ sess[s].run = "FAILED"
    BY <1>1, <1>2 DEF Asking, SessionFits
  <1>4. \A r \in Finished(s) : r.key = sess[s].key /\ r.key # NoKey /\ r.status = "FAILED"
    BY <1>3 DEF Finished
  <1>5. SessInv'
    BY <1>2, <1>3, <1>4, EndingStep
  <1>6. /\ sess[s].key \in Keys \cup {NoKey}
        /\ sess[s].key # NoKey => \A r \in runs : r.key # sess[s].key
    BY <1>1, <1>3 DEF SessionFits
  <1>7. \A r, q \in Finished(s) : r = q
    BY DEF Finished
  <1>8. StoredInv'
    <2>1. \A r \in runs' : r.key \in Keys
      BY <1>2, <1>4, <1>6 DEF PlanInv, StoredInv
    <2>2. \A r, q \in runs' : r.key = q.key => r = q
      BY <1>2, <1>4, <1>6, <1>7 DEF PlanInv, StoredInv
    <2>3. \A v \in DOMAIN plans :
            plans[v].key # NoKey => \E r \in runs' : r.key = plans[v].key /\ r.status # "FAILED"
      BY <1>2 DEF PlanInv, StoredInv
    <2>4. \A r \in runs' : r.status # "FAILED" => \E v \in DOMAIN plans : plans[v].key = r.key
      BY <1>2, <1>4 DEF PlanInv, StoredInv
    <2> QED
      BY <1>2, <2>1, <2>2, <2>3, <2>4 DEF PlanInv, StoredInv
  <1> QED
    BY <1>5, <1>8 DEF PlanInv

\* One more version, after those there are.
LEMMA OneMore ==
  ASSUME StoredInv, NEW plan, plans' = Append(plans, plan)
  PROVE  /\ Latest \in Nat /\ DOMAIN plans = 1..Latest
         /\ \E any : plans' \in Seq(any)
         /\ DOMAIN plans' = DOMAIN plans \cup {Latest + 1} /\ Latest + 1 \notin DOMAIN plans
         /\ plans'[Latest + 1] = plan /\ \A v \in DOMAIN plans : plans'[v] = plans[v]
         /\ Len(plans') = Latest + 1
  <1>1. PICK any : plans \in Seq(any)
    BY DEF StoredInv
  <1> DEFINE more == any \cup {plan}
  <1>2. plans \in Seq(more) /\ plan \in more
    BY <1>1
  <1> HIDE DEF more
  <1>3. /\ Append(plans, plan) \in Seq(more) /\ Len(plans) \in Nat
        /\ Len(Append(plans, plan)) = Len(plans) + 1
        /\ DOMAIN plans = 1..Len(plans)
        /\ DOMAIN Append(plans, plan) = 1..(Len(plans) + 1)
        /\ Append(plans, plan)[Len(plans) + 1] = plan
        /\ \A v \in 1..Len(plans) : Append(plans, plan)[v] = plans[v]
    BY <1>2
  <1> QED
    BY <1>3 DEF Latest

LEMMA CommitPlanKeeps == ASSUME PlanInv, NEW s \in Sessions, CommitPlan(s) PROVE PlanInv'
  <1> DEFINE me == sess[s]
             plan == sess[s].plan[2]
             n == Latest + 1
  <1>1. SessionFits(me, plans, runs)
    BY DEF PlanInv, SessInv
  <1>2. /\ me.pc = "persisted" /\ plans' = Append(plans, plan) /\ runs' = runs \cup Finished(s)
        /\ End(s)
    BY DEF CommitPlan, At
  <1>3. /\ Asking(me) /\ PlanFits(plan) /\ plan.key = me.key
        /\ me.run \in {"none", "SUCCEEDED", "RUNNING"}
        /\ me.key \in Keys \cup {NoKey}
        /\ me.key # NoKey => /\ \A v \in DOMAIN plans : plans[v].key # me.key
                             /\ \A r \in runs : r.key # me.key
    BY <1>1, <1>2 DEF Asking, SessionFits
  <1>4. /\ \E any : plans' \in Seq(any)
        /\ DOMAIN plans' = DOMAIN plans \cup {n} /\ n \notin DOMAIN plans
        /\ plans'[n] = plan /\ \A v \in DOMAIN plans : plans'[v] = plans[v]
    BY <1>2, OneMore DEF PlanInv
  <1>5. /\ \A r \in Finished(s) : r.key = me.key /\ r.key # NoKey /\ r.status # "FAILED"
        /\ \A r, q \in Finished(s) : r = q
        /\ me.key # NoKey => Finished(s) # {}
    <2> DEFINE done == [key |-> me.key, status |-> me.run]
    <2>1. Finished(s) = IF me.key = NoKey THEN {} ELSE {done}
      BY DEF Finished
    <2>2. done.key = me.key /\ done.status = me.run /\ me.run # "FAILED"
      BY <1>3
    <2> HIDE DEF me, done
    <2>3. CASE me.key = NoKey
      BY <2>1, <2>3
    <2>4. CASE me.key # NoKey
      BY <2>1, <2>2, <2>4
    <2> QED
      BY <2>3, <2>4
  <1> HIDE DEF plan, n
  <1>6. SessInv'
    BY <1>2, <1>3, <1>4, <1>5, EndingStep
  <1> HIDE DEF me
  <1>7. StoredInv'
    <2>1. \A v \in DOMAIN plans' : PlanFits(plans'[v])
      BY <1>3, <1>4 DEF PlanInv, StoredInv
    <2>2. \A v, w \in DOMAIN plans' : plans'[v].key = plans'[w].key /\ plans'[v].key # NoKey => v = w
      BY <1>3, <1>4 DEF PlanInv, StoredInv
    <2>3. \A r \in runs' : r.key \in Keys
      BY <1>2, <1>3, <1>5 DEF PlanInv, StoredInv
    <2>4. \A r, q \in runs' : r.key = q.key => r = q
      BY <1>2, <1>3, <1>5 DEF PlanInv, StoredInv
    <2>5. \A v \in DOMAIN plans' :
            plans'[v].key # NoKey => \E r \in runs' : r.key = plans'[v].key /\ r.status # "FAILED"
      BY <1>2, <1>3, <1>4, <1>5 DEF PlanInv, StoredInv
    <2>6. \A r \in runs' : r.status # "FAILED" => \E v \in DOMAIN plans' : plans'[v].key = r.key
      BY <1>2, <1>3, <1>4, <1>5 DEF PlanInv, StoredInv
    <2> QED
      BY <1>4, <2>1, <2>2, <2>3, <2>4, <2>5, <2>6 DEF StoredInv
  <1> QED
    BY <1>6, <1>7 DEF PlanInv

\* A version that is there says something else, or is approved.
LEMMA OneChanged ==
  ASSUME PlanInv, NEW s \in Sessions, End(s), NEW v \in DOMAIN plans, NEW plan,
         plans' = [plans EXCEPT ![v] = plan], runs' = runs,
         PlanFits(plan), plan.key = plans[v].key
  PROVE  PlanInv'
  <1>1. /\ DOMAIN plans' = DOMAIN plans /\ plans'[v] = plan
        /\ \A w \in DOMAIN plans \ {v} : plans'[w] = plans[w]
    OBVIOUS
  <1>2. \A w \in DOMAIN plans : plans'[w].key = plans[w].key
    BY <1>1
  <1>3. SessInv'
    BY <1>1, <1>2, EndingStep
  <1>4. \E any : plans' \in Seq(any)
    <2>1. PICK any : plans \in Seq(any)
      BY DEF PlanInv, StoredInv
    <2>2. plans \in Seq(any \cup {plan})
      BY <2>1
    <2>3. plans' \in Seq(any \cup {plan})
      BY <2>2
    <2> QED
      BY <2>3
  <1>5. StoredInv'
    BY <1>1, <1>2, <1>4 DEF PlanInv, StoredInv
  <1> QED
    BY <1>3, <1>5 DEF PlanInv

LEMMA EditedFits ==
  ASSUME NEW plan, NEW e, PlanFits(plan)
  PROVE  /\ PlanFits(Edited(plan, e))
         /\ \A f \in {"status", "analysis", "key"} : Edited(plan, e)[f] = plan[f]
  <1> DEFINE new == Edited(plan, e)
  <1>1. DOMAIN plan = Columns
    BY DEF PlanFits
  <1>2. DOMAIN new = Columns /\ \A f \in {"status", "analysis", "key"} : new[f] = plan[f]
    <2>1. CASE e.op = "delete"
      <3> DEFINE kept == Restrict(plan.tasks, DOMAIN plan.tasks \ {e.key})
                 left == {d \in plan.edges : e.key \notin {d[1], d[2]}}
      <3>1. new = [plan EXCEPT !.tasks = kept, !.edges = left]
        BY <2>1, Zenon DEF Edited
      <3> HIDE DEF new, kept, left
      <3> QED
        BY <1>1, <3>1 DEF Columns
    <2>2. CASE e.op = "touch"
      <3>1. new = [plan EXCEPT !.wording = e.body]
        BY <2>2 DEF Edited
      <3> HIDE DEF new
      <3> QED
        BY <1>1, <3>1 DEF Columns
    <2>3. CASE e.op # "delete" /\ e.op # "touch"
      <3> DEFINE kept == [k \in DOMAIN plan.tasks \cup {e.key} |->
                             IF k = e.key THEN [mine |-> TRUE, body |-> e.body] ELSE plan.tasks[k]]
                 left == (plan.edges \ e.drop) \cup e.add
      <3>1. new = [plan EXCEPT !.tasks = kept, !.edges = left]
        BY <2>3, Zenon DEF Edited
      <3> HIDE DEF new, kept, left
      <3> QED
        BY <1>1, <3>1 DEF Columns
    <2> QED
      BY <2>1, <2>2, <2>3
  <1> HIDE DEF new
  <1>3. PlanFits(new)
    BY <1>2 DEF PlanFits
  <1> QED
    BY <1>2, <1>3 DEF new

LEMMA ChangingKeeps ==
  ASSUME PlanInv, NEW s \in Sessions, CommitEdit(s) \/ CommitApproval(s)
  PROVE  PlanInv'
  <1> DEFINE v == sess[s].version
  <1>1. SessionFits(sess[s], plans, runs)
    BY DEF PlanInv, SessInv
  <1>2. v \in DOMAIN plans
    BY <1>1 DEF CommitEdit, CommitApproval, At, SessionFits
  <1>3. PlanFits(plans[v])
    BY <1>2 DEF PlanInv, StoredInv
  <1>4. CASE CommitEdit(s)
    <2> DEFINE plan == Edited(plans[v], sess[s].edit)
    <2>1. plans' = [plans EXCEPT ![v] = plan] /\ runs' = runs /\ End(s)
      BY <1>4 DEF CommitEdit
    <2>2. PlanFits(plan) /\ plan.key = plans[v].key
      BY <1>3, EditedFits
    <2> QED
      BY <1>2, <2>1, <2>2, OneChanged
  <1>5. CASE CommitApproval(s)
    <2> DEFINE plan == [plans[v] EXCEPT !.status = "APPROVED"]
    <2>1. plans' = [plans EXCEPT ![v] = plan] /\ runs' = runs /\ End(s)
      BY <1>5 DEF CommitApproval
    <2>2. PlanFits(plan) /\ plan.key = plans[v].key
      BY <1>3 DEF PlanFits, Columns
    <2> QED
      BY <1>2, <2>1, <2>2, OneChanged
  <1> QED
    BY <1>4, <1>5

-----------------------------------------------------------------------------
(* The invariant.                                                          *)

LEMMA PlanInit == ASSUME Init PROVE PlanInv
  <1>1. plans = <<>> /\ runs = {} /\ DOMAIN sess = Sessions /\ \A s \in Sessions : sess[s] = Rest
    BY DEF Init
  <1>2. plans \in Seq({})
    BY <1>1
  <1>3. StoredInv
    BY <1>1, <1>2 DEF StoredInv
  <1>4. SessInv
    BY <1>1, RestFits DEF SessInv, Apart
  <1> QED
    BY <1>3, <1>4 DEF PlanInv

LEMMA AskingKeeps ==
  ASSUME PlanInv, NEW s \in Sessions, NEW key \in Keys \cup {NoKey}, NEW force \in BOOLEAN,
         Generate(s, key, force) \/ Regenerate(s, key, force)
  PROVE  PlanInv'
  <1>1. RequestKey(key, force) \in Keys \cup {NoKey}
    BY DEF RequestKey
  <1> QED
    BY <1>1, AskKeeps DEF Generate, Regenerate

LEMMA PlanStep == ASSUME PlanInv, [Next]_vars PROVE PlanInv'
  <1>1. ASSUME NEW s \in Sessions, Generation(s) PROVE PlanInv'
    BY <1>1, AskingKeeps, AnsweredKeeps, CommitRefusalKeeps, RederiveKeeps, CommitPlanKeeps,
       LeavingKeeps DEF Generation
  <1>2. ASSUME NEW s \in Sessions, Editing(s) PROVE PlanInv'
    BY <1>2, OpeningKeeps, ChangingKeeps, LeavingKeeps DEF Editing
  <1>3. ASSUME NEW s \in Sessions, Approving(s) PROVE PlanInv'
    BY <1>3, OpeningKeeps, ChangingKeeps DEF Approving
  <1>4. ASSUME NEW s \in Sessions, Abandon(s) PROVE PlanInv'
    BY <1>4, LeavingKeeps
  <1>5. CASE Analysed \/ BriefEdited \/ UNCHANGED vars
    <2>1. UNCHANGED <<plans, runs, sess>>
      BY <1>5 DEF Analysed, BriefEdited, vars
    <2> QED
      BY <2>1 DEF PlanInv, StoredInv, SessInv
  <1> QED
    BY <1>1, <1>2, <1>3, <1>4, <1>5 DEF Next

LEMMA AlwaysPlanInv == Spec => []PlanInv
  BY PlanInit, PlanStep, PTL DEF Spec

-----------------------------------------------------------------------------
(* One outcome for each key.                                               *)

LEMMA AtMostOne ==
  ASSUME NEW set, \A x, y \in set : x = y
  PROVE  Cardinality(set) <= 1
  <1>1. CASE set = {}
    BY <1>1, FS_EmptySet
  <1>2. ASSUME NEW x \in set PROVE Cardinality(set) <= 1
    <2>1. set = {x}
      OBVIOUS
    <2> QED
      BY <2>1, FS_Singleton
  <1> QED
    BY <1>1, <1>2

\* Whatever is retried, forced or doubled, a request key names the one version its
\* run produced, or none when the run failed (KeyHasOneOutcome).
THEOREM KeyAlwaysHasOneOutcome == Spec => []KeyHasOneOutcome
  <1>1. ASSUME PlanInv PROVE KeyHasOneOutcome
    <2> SUFFICES ASSUME NEW key \in Keys
                 PROVE  /\ Cardinality({v \in DOMAIN plans : plans[v].key = key}) <= 1
                        /\ Cardinality({r \in runs : r.key = key}) <= 1
                        /\ (\E v \in DOMAIN plans : plans[v].key = key)
                              <=> (\E r \in runs : r.key = key /\ r.status # "FAILED")
      BY DEF KeyHasOneOutcome
    <2>1. key # NoKey
      BY PlanVersionsAssumption DEF PlanVersionsAssumption
    <2> DEFINE named == {v \in DOMAIN plans : plans[v].key = key}
               had == {r \in runs : r.key = key}
    <2>2. (\A v, w \in named : v = w) /\ (\A r, q \in had : r = q)
      BY <1>1, <2>1 DEF PlanInv, StoredInv
    <2> HIDE DEF named, had
    <2>3. Cardinality(named) <= 1 /\ Cardinality(had) <= 1
      BY <2>2, AtMostOne
    <2>4. (\E v \in DOMAIN plans : plans[v].key = key)
            <=> (\E r \in runs : r.key = key /\ r.status # "FAILED")
      BY <1>1, <2>1 DEF PlanInv, StoredInv
    <2> QED
      BY <2>3, <2>4 DEF named, had
  <1> QED
    BY <1>1, AlwaysPlanInv, PTL

-----------------------------------------------------------------------------
(* The versions are the history PlanHistory promises.                      *)

Promised == [v \in DOMAIN plans |->
               [key |-> plans[v].key, approved |-> plans[v].status = "APPROVED"]]

\* The new sequence is the old one, of length n, and x.
Extended(n, old, new, x) ==
    /\ n \in Nat
    /\ old = [i \in 1..n |-> old[i]] /\ new = [i \in 1..(n + 1) |-> new[i]]
    /\ \A i \in 1..n : new[i] = old[i]
    /\ new[n + 1] = x

LEMMA AppendIs ==
  ASSUME NEW n, NEW old, NEW new, NEW x, Extended(n, old, new, x)
  PROVE  new = Append(old, x)
  <1> USE DEF Extended
  <1> DEFINE any == {old[i] : i \in 1..n} \cup {x}
  <1>1. old \in [1..n -> any]
    OBVIOUS
  <1> HIDE DEF any
  <1>2. old \in Seq(any)
    BY <1>1, SeqDef
  <1>3. x \in any
    BY DEF any
  <1>4. Len(old) = n
    BY <1>1, <1>2
  <1> DEFINE more == Append(old, x)
  <1>5. /\ DOMAIN more = 1..(n + 1) /\ more = [i \in 1..(n + 1) |-> more[i]]
        /\ \A i \in 1..n : more[i] = old[i]
        /\ more[n + 1] = x
    BY <1>2, <1>3, <1>4
  <1> HIDE DEF more
  <1>6. \A i \in 1..(n + 1) : i \in 1..n \/ i = n + 1
    OBVIOUS
  <1>7. \A i \in 1..(n + 1) : new[i] = more[i]
    BY <1>5, <1>6
  <1>8. new = more
    BY <1>5, <1>7
  <1> QED
    BY <1>8 DEF more

LEMMA AddsToHistory ==
  ASSUME PlanInv, NEW s \in Sessions, CommitPlan(s)
  PROVE  \E key \in (Keys \cup {NoKey}) \ ({Promised[v].key : v \in DOMAIN Promised} \ {NoKey}) :
            Promised' = Append(Promised, [key |-> key, approved |-> FALSE])
  <1> DEFINE plan == sess[s].plan[2]
             key == sess[s].key
             n == Latest
  <1>1. SessionFits(sess[s], plans, runs)
    BY DEF PlanInv, SessInv
  <1>2. sess[s].pc = "persisted" /\ plans' = Append(plans, plan)
    BY DEF CommitPlan, At
  <1>3. /\ plan.status = "READY_FOR_REVIEW" /\ plan.key = key /\ key \in Keys \cup {NoKey}
        /\ key # NoKey => \A v \in DOMAIN plans : plans[v].key # key
    BY <1>1, <1>2 DEF Asking, SessionFits
  <1>4. /\ n \in Nat /\ DOMAIN plans = 1..n /\ DOMAIN plans' = 1..(n + 1)
        /\ plans'[n + 1] = plan /\ \A v \in 1..n : plans'[v] = plans[v]
    <2>1. /\ n \in Nat /\ DOMAIN plans = 1..n /\ DOMAIN plans' = DOMAIN plans \cup {n + 1}
          /\ plans'[n + 1] = plan /\ \A v \in DOMAIN plans : plans'[v] = plans[v]
      BY <1>2, OneMore DEF PlanInv
    <2> HIDE DEF n
    <2>2. 1..(n + 1) = (1..n) \cup {n + 1}
      BY <2>1
    <2> QED
      BY <2>1, <2>2
  <1> DEFINE old == Promised
             new == Promised'
             x == [key |-> key, approved |-> FALSE]
  <1> HIDE DEF plan, key, n
  <1>5. /\ old = [i \in 1..n |-> old[i]] /\ new = [i \in 1..(n + 1) |-> new[i]]
        /\ \A i \in 1..n : old[i].key = plans[i].key
    BY <1>4 DEF Promised
  <1>6. \A i \in 1..n : new[i] = old[i]
    BY <1>4 DEF Promised
  <1>7. new[n + 1] = x
    <2>1. new[n + 1] = [key |-> plan.key, approved |-> plan.status = "APPROVED"]
      BY <1>4 DEF Promised
    <2> QED
      BY <1>3, <2>1
  <1>8. DOMAIN old = 1..n
    BY <1>5
  <1> HIDE DEF old, new, x
  <1>9. new = Append(old, x)
    <2>1. Extended(n, old, new, x)
      BY <1>4, <1>5, <1>6, <1>7 DEF Extended
    <2> QED
      BY <2>1, AppendIs, Zenon
  <1>10. key \in (Keys \cup {NoKey}) \ ({old[v].key : v \in DOMAIN old} \ {NoKey})
    BY <1>3, <1>4, <1>5, <1>8
  <1> QED
    BY <1>9, <1>10 DEF old, new, x

LEMMA ChangesHistory ==
  ASSUME PlanInv, NEW s \in Sessions, CommitEdit(s) \/ CommitApproval(s)
  PROVE  \/ Promised' = Promised
         \/ \E v \in DOMAIN Promised : Promised' = [Promised EXCEPT ![v].approved = TRUE]
  <1> DEFINE v == sess[s].version
  <1>1. SessionFits(sess[s], plans, runs)
    BY DEF PlanInv, SessInv
  <1>2. v \in DOMAIN plans
    BY <1>1 DEF CommitEdit, CommitApproval, At, SessionFits
  <1>3. PlanFits(plans[v])
    BY <1>2 DEF PlanInv, StoredInv
  <1>4. CASE CommitEdit(s)
    <2> DEFINE plan == Edited(plans[v], sess[s].edit)
    <2>1. plans' = [plans EXCEPT ![v] = plan]
      BY <1>4 DEF CommitEdit
    <2>2. plan.status = plans[v].status /\ plan.key = plans[v].key
      BY <1>3, EditedFits
    <2> HIDE DEF plan, v
    <2>3. DOMAIN plans' = DOMAIN plans
          /\ \A w \in DOMAIN plans : plans'[w].key = plans[w].key /\ plans'[w].status = plans[w].status
      BY <2>1, <2>2
    <2> QED
      BY <2>3 DEF Promised
  <1>5. CASE CommitApproval(s)
    <2> DEFINE plan == [plans[v] EXCEPT !.status = "APPROVED"]
    <2>1. plans' = [plans EXCEPT ![v] = plan]
      BY <1>5 DEF CommitApproval
    <2>2. plan.status = "APPROVED" /\ plan.key = plans[v].key
      BY <1>3 DEF PlanFits, Columns
    <2> HIDE DEF plan, v
    <2>3. /\ DOMAIN plans' = DOMAIN plans
          /\ plans'[v].key = plans[v].key /\ plans'[v].status = "APPROVED"
          /\ \A w \in DOMAIN plans \ {v} : plans'[w] = plans[w]
      BY <1>2, <2>1, <2>2
    <2>4. Promised' = [Promised EXCEPT ![v].approved = TRUE]
      <3> DEFINE new == [Promised EXCEPT ![v].approved = TRUE]
      <3>1. /\ DOMAIN new = DOMAIN plans
            /\ \A w \in DOMAIN plans \ {v} : new[w] = Promised'[w]
        BY <2>3 DEF Promised
      <3>2. new[v] = [key |-> plans[v].key, approved |-> TRUE]
        BY <1>2 DEF Promised
      <3>3. Promised'[v] = [key |-> plans[v].key, approved |-> TRUE]
        BY <1>2, <2>3 DEF Promised
      <3>4. new = [w \in DOMAIN plans |-> new[w]]
        BY <3>1
      <3>5. Promised' = [w \in DOMAIN plans |-> Promised'[w]]
        BY <2>3 DEF Promised
      <3> HIDE DEF new
      <3>6. \A w \in DOMAIN plans : new[w] = Promised'[w]
        BY <3>1, <3>2, <3>3
      <3>7. new = Promised'
        BY <3>4, <3>5, <3>6
      <3> QED
        BY <3>7 DEF new
    <2>5. v \in DOMAIN Promised
      BY <1>2 DEF Promised
    <2> QED
      BY <2>4, <2>5
  <1> QED
    BY <1>4, <1>5

\* The actions that write a version.
LEMMA WhoWrites ==
  ASSUME [Next]_vars, plans' # plans
  PROVE  \E s \in Sessions : CommitPlan(s) \/ CommitEdit(s) \/ CommitApproval(s)
  <1>1. ASSUME NEW s \in Sessions,
               \/ Refuse(s) \/ CommitRefusal(s) \/ Rederive(s) \/ VersionTaken(s) \/ EditConflict(s)
               \/ Abandon(s) \/ (\E proposal \in Proposals : Answer(s, proposal))
        PROVE  plans' = plans
    BY <1>1, Zenon DEF Refuse, CommitRefusal, Rederive, VersionTaken, EditConflict, Abandon, Answer
  <1>2. ASSUME NEW s \in Sessions, NEW key, NEW force, Generate(s, key, force) \/ Regenerate(s, key, force)
        PROVE  plans' = plans
    BY <1>2, Zenon DEF Generate, Regenerate, Ask
  <1>3. ASSUME NEW s \in Sessions, NEW v, Agree(s, v) \/ \E e \in Edits(plans[v]) : Edit(s, v, e)
        PROVE  plans' = plans
    BY <1>3, Zenon DEF Agree, Edit
  <1>4. Analysed \/ BriefEdited \/ UNCHANGED vars => plans' = plans
    BY DEF Analysed, BriefEdited, vars
  <1>5. ASSUME NEW s \in Sessions, Generation(s) \/ Editing(s) \/ Approving(s) \/ Abandon(s)
        PROVE  CommitPlan(s) \/ CommitEdit(s) \/ CommitApproval(s)
    BY <1>1, <1>2, <1>3, <1>5 DEF Generation, Editing, Approving
  <1> QED
    BY <1>4, <1>5 DEF Next

\* Whatever overlaps, dies or is refused, the versions are a history that only
\* grows: none is rewritten, a key names one at most, and an approval is not taken
\* back (HistoryKept).
THEOREM VersionsKeepTheirHistory == Spec => HistoryKept
  <1>1. Init => History!Init
    BY DEF Init, History!Init
  <1>2. ASSUME PlanInv, [Next]_vars PROVE [History!Next]_Promised
    <2>1. CASE plans' = plans
      BY <2>1 DEF Promised
    <2>2. CASE plans' # plans
      <3>1. PICK s \in Sessions : CommitPlan(s) \/ CommitEdit(s) \/ CommitApproval(s)
        BY <1>2, <2>2, WhoWrites
      <3>2. CASE CommitPlan(s)
        <4>1. PICK key \in (Keys \cup {NoKey}) \ ({Promised[v].key : v \in DOMAIN Promised} \ {NoKey}) :
                Promised' = Append(Promised, [key |-> key, approved |-> FALSE])
          BY <1>2, <3>2, AddsToHistory
        <4>2. History!Add(key)
          BY <4>1 DEF History!Add, History!Used, Promised
        <4> QED
          BY <4>2 DEF History!Next
      <3>3. CASE CommitEdit(s) \/ CommitApproval(s)
        <4>1. CASE Promised' = Promised
          BY <4>1
        <4>2. ASSUME NEW v \in DOMAIN Promised, Promised' = [Promised EXCEPT ![v].approved = TRUE]
              PROVE  History!Next
          BY <4>2, Zenon DEF History!Next, History!Approve, Promised
        <4> QED
          BY <1>2, <3>3, <4>1, <4>2, ChangesHistory
      <3> QED
        BY <3>1, <3>2, <3>3
    <2> QED
      BY <2>1, <2>2
  <1> QED
    BY <1>1, <1>2, AlwaysPlanInv, PTL DEF Spec, HistoryKept, History!Spec, Promised

-----------------------------------------------------------------------------
(* A plan is current when it is added or approved.                         *)

\* The a-th of these analyses is current among them.
CurrentOf(a, list) ==
    /\ list[a] = "current"
    /\ a = Len(list) \/ list[Len(list)] # "current"

CurrentFits(me, rows, list) ==
    /\ me.pc = "asked" => CurrentOf(me.basis, list)
    /\ me.pc = "persisted" /\ me.run # "none" => CurrentOf(me.plan[2].analysis, list)
    /\ me.pc = "agreed" =>
          LET a == rows[me.version].analysis IN CurrentOf(a, list) /\ a = Len(list)

\* A request during which nothing moved has computed from what is current.
CurrentInv == \A s \in Sessions \ moved : CurrentFits(sess[s], plans, analyses)

LEMMA CurrentIs == \A a : Current(a) <=> CurrentOf(a, analyses)
  BY DEF Current, CurrentOf, AnalysisStale, LatestAnalysis

LEMMA WrittenKeeps ==
  ASSUME PlanInv, NEW s \in Sessions, CommitPlan(s) \/ CommitEdit(s) \/ CommitApproval(s)
  PROVE  /\ \A v \in DOMAIN plans : v \in DOMAIN plans' /\ plans'[v].analysis = plans[v].analysis
         /\ CommitPlan(s) \/ DOMAIN plans' = DOMAIN plans
  <1> DEFINE v == sess[s].version
  <1>1. CASE CommitPlan(s)
    <2>1. plans' = Append(plans, sess[s].plan[2])
      BY <1>1 DEF CommitPlan
    <2> QED
      BY <1>1, <2>1, OneMore DEF PlanInv
  <1>2. ASSUME CommitEdit(s) \/ CommitApproval(s) PROVE v \in DOMAIN plans /\ PlanFits(plans[v])
    <2>1. SessionFits(sess[s], plans, runs)
      BY DEF PlanInv, SessInv
    <2>2. v \in DOMAIN plans
      BY <1>2, <2>1 DEF CommitEdit, CommitApproval, At, SessionFits
    <2> QED
      BY <2>2 DEF PlanInv, StoredInv
  <1>3. CASE CommitEdit(s)
    <2> DEFINE plan == Edited(plans[v], sess[s].edit)
    <2>1. plans' = [plans EXCEPT ![v] = plan]
      BY <1>3 DEF CommitEdit
    <2>2. plan.analysis = plans[v].analysis
      BY <1>2, <1>3, EditedFits
    <2> HIDE DEF plan, v
    <2> QED
      BY <2>1, <2>2
  <1>4. CASE CommitApproval(s)
    <2> DEFINE plan == [plans[v] EXCEPT !.status = "APPROVED"]
    <2>1. plans' = [plans EXCEPT ![v] = plan]
      BY <1>4 DEF CommitApproval
    <2>2. plan.analysis = plans[v].analysis
      BY <1>2, <1>4 DEF PlanFits, Columns
    <2> HIDE DEF plan, v
    <2> QED
      BY <2>1, <2>2
  <1> QED
    BY <1>1, <1>3, <1>4

LEMMA CurrentStep ==
  ASSUME PlanInv, CurrentInv, NEW s \in Sessions, \A t \in Sessions \ {s} : sess'[t] = sess[t],
         UNCHANGED <<analyses>>, moved \ {s} \subseteq moved',
         \A v \in DOMAIN plans : plans'[v].analysis = plans[v].analysis,
         s \notin moved' => CurrentFits(sess'[s], plans', analyses)
  PROVE  CurrentInv'
  <1>1. ASSUME NEW t \in Sessions \ {s}, t \notin moved'
        PROVE  CurrentFits(sess'[t], plans', analyses')
    <2>1. CurrentFits(sess[t], plans, analyses) /\ sess'[t] = sess[t]
      BY <1>1 DEF CurrentInv
    <2>2. sess[t].pc = "agreed" => sess[t].version \in DOMAIN plans
      BY DEF PlanInv, SessInv, SessionFits
    <2> QED
      BY <2>1, <2>2 DEF CurrentFits
  <1> QED
    BY <1>1 DEF CurrentInv

LEMMA CurrentBegins ==
  ASSUME PlanInv, CurrentInv, NEW s \in Sessions, NEW r, sess' = [sess EXCEPT ![s] = r],
         UNCHANGED <<plans, analyses>>, moved \ {s} \subseteq moved',
         s \notin moved' => CurrentFits(r, plans, analyses)
  PROVE  CurrentInv'
  <1>1. sess'[s] = r /\ \A t \in Sessions \ {s} : sess'[t] = sess[t]
    BY DEF PlanInv, SessInv
  <1> QED
    BY <1>1, CurrentStep

LEMMA CurrentEnds ==
  ASSUME PlanInv, CurrentInv, NEW s \in Sessions, End(s), UNCHANGED <<analyses, moved>>,
         \A v \in DOMAIN plans : plans'[v].analysis = plans[v].analysis
  PROVE  CurrentInv'
  <1>1. sess'[s] = Rest /\ \A t \in Sessions \ {s} : sess'[t] = sess[t]
    BY DEF PlanInv, SessInv, End
  <1>2. CurrentFits(Rest, plans', analyses)
    BY RestFits DEF CurrentFits
  <1> QED
    BY <1>1, <1>2, CurrentStep

LEMMA CurrentAsks ==
  ASSUME PlanInv, CurrentInv, NEW s \in Sessions, NEW key, NEW basis, NEW version, NEW mine,
         NEW owed, Ask(s, key, basis, version, mine, owed)
  PROVE  CurrentInv'
  <1> DEFINE r == [Rest EXCEPT !.pc = "asked", !.key = key, !.basis = basis,
                               !.version = version, !.mine = mine, !.owed = owed]
  <1>1. /\ sess' = [sess EXCEPT ![s] = r] /\ UNCHANGED <<plans, analyses>>
        /\ moved' = moved \ {s} /\ CurrentOf(basis, analyses)
    BY DEF Ask, Contract, CurrentOf, AnalysisStale, LatestAnalysis
  <1>2. r.pc = "asked" /\ r.basis = basis
    BY RestFields
  <1> HIDE DEF r
  <1>3. CurrentFits(r, plans, analyses)
    BY <1>1, <1>2 DEF CurrentFits
  <1> QED
    BY <1>1, <1>3, CurrentBegins

LEMMA CurrentOpens ==
  ASSUME PlanInv, CurrentInv, NEW s \in Sessions, NEW v \in DOMAIN plans,
         Agree(s, v) \/ \E e \in Edits(plans[v]) : Edit(s, v, e)
  PROVE  CurrentInv'
  <1>1. CASE Agree(s, v)
    <2> DEFINE r == [Rest EXCEPT !.pc = "agreed", !.version = v]
    <2>1. r.pc = "agreed" /\ r.version = v
      BY RestFields
    <2>2. /\ sess' = [sess EXCEPT ![s] = r] /\ UNCHANGED <<plans, analyses>>
          /\ moved' = moved \ {s} /\ plans[v].analysis = Len(analyses)
          /\ CurrentOf(plans[v].analysis, analyses)
      BY <1>1 DEF Agree, PlanStale, CurrentOf, AnalysisStale, LatestAnalysis
    <2> HIDE DEF r
    <2>3. CurrentFits(r, plans, analyses)
      BY <2>1, <2>2 DEF CurrentFits
    <2> QED
      BY <2>2, <2>3, CurrentBegins
  <1>2. ASSUME NEW e \in Edits(plans[v]), Edit(s, v, e) PROVE CurrentInv'
    <2> DEFINE edit == [e EXCEPT !.body = LastEdit + 1]
               r == [Rest EXCEPT !.pc = "edited", !.version = v, !.edit = edit,
                                 !.status = plans[v].status, !.edges = plans[v].edges]
    <2>1. sess' = [sess EXCEPT ![s] = r] /\ UNCHANGED <<plans, analyses, moved>>
      BY <1>2, Zenon DEF Edit
    <2> HIDE DEF edit
    <2>2. r.pc = "edited"
      BY RestFields
    <2> HIDE DEF r
    <2>3. CurrentFits(r, plans, analyses)
      BY <2>2 DEF CurrentFits
    <2> QED
      BY <2>1, <2>3, CurrentBegins
  <1> QED
    BY <1>1, <1>2

LEMMA CurrentRederives ==
  ASSUME PlanInv, CurrentInv, NEW s \in Sessions, Rederive(s) PROVE CurrentInv'
  <1> DEFINE base == plans[Latest]
             copy == [base EXCEPT !.milestones = Folded(Layers(base))]
             plan == Version(copy, base.analysis, NoKey)
             r == [Rest EXCEPT !.pc = "persisted", !.version = Latest, !.owed = Written(base),
                               !.plan = <<NextVersion, plan>>]
  <1>1. sess' = [sess EXCEPT ![s] = r] /\ UNCHANGED <<plans, analyses>> /\ moved' = moved \ {s}
    BY DEF Rederive
  <1> HIDE DEF plan, base
  <1>2. r.pc = "persisted" /\ r.run = "none"
    BY DEF Rest
  <1> HIDE DEF r
  <1>3. CurrentFits(r, plans, analyses)
    BY <1>2 DEF CurrentFits
  <1> QED
    BY <1>1, <1>3, CurrentBegins

LEMMA CurrentAnswered ==
  ASSUME PlanInv, CurrentInv, NEW s \in Sessions,
         Refuse(s) \/ \E proposal \in Proposals : Answer(s, proposal)
  PROVE  CurrentInv'
  <1>1. /\ sess[s].pc = "asked" /\ UNCHANGED <<plans, analyses, moved>>
        /\ \A t \in Sessions \ {s} : sess'[t] = sess[t]
        /\ \/ sess'[s].pc = "refused"
           \/ /\ sess'[s].pc = "persisted"
              /\ \E content : sess'[s].plan[2] = Version(content, sess[s].basis, sess[s].key)
    BY AnsweredIs
  <1>2. \A content : Version(content, sess[s].basis, sess[s].key).analysis = sess[s].basis
    BY DEF Version
  <1>3. s \notin moved' => CurrentOf(sess[s].basis, analyses)
    BY <1>1 DEF CurrentInv, CurrentFits
  <1>4. s \notin moved' => CurrentFits(sess'[s], plans', analyses)
    BY <1>1, <1>2, <1>3 DEF CurrentFits
  <1> QED
    BY <1>1, <1>4, CurrentStep

LEMMA CurrentNext == ASSUME PlanInv, CurrentInv, [Next]_vars PROVE CurrentInv'
  <1>1. ASSUME NEW s \in Sessions, CommitPlan(s) \/ CommitEdit(s) \/ CommitApproval(s)
        PROVE  CurrentInv'
    <2>1. End(s) /\ UNCHANGED <<analyses, moved>>
      BY <1>1 DEF CommitPlan, CommitEdit, CommitApproval
    <2>2. \A v \in DOMAIN plans : plans'[v].analysis = plans[v].analysis
      BY <1>1, WrittenKeeps
    <2> QED
      BY <2>1, <2>2, CurrentEnds
  <1>2. ASSUME NEW s \in Sessions,
               CommitRefusal(s) \/ VersionTaken(s) \/ EditConflict(s) \/ Abandon(s)
        PROVE  CurrentInv'
    <2>1. End(s) /\ UNCHANGED <<plans, analyses, moved>>
      BY <1>2 DEF CommitRefusal, VersionTaken, EditConflict, Abandon
    <2> QED
      BY <2>1, CurrentEnds
  <1>3. ASSUME NEW s \in Sessions, NEW key, NEW force, Generate(s, key, force) \/ Regenerate(s, key, force)
        PROVE  CurrentInv'
    BY <1>3, CurrentAsks DEF Generate, Regenerate
  <1>4. ASSUME NEW s \in Sessions, Generation(s) \/ Editing(s) \/ Approving(s) \/ Abandon(s)
        PROVE  CurrentInv'
    BY <1>1, <1>2, <1>3, <1>4, CurrentAnswered, CurrentRederives, CurrentOpens
       DEF Generation, Editing, Approving
  <1>5. CASE Analysed \/ BriefEdited
    <2>1. UNCHANGED <<plans, sess>> /\ moved' = moved \cup Open
      BY <1>5 DEF Analysed, BriefEdited
    <2>2. \A s \in Sessions \ moved' : sess[s].pc \in {"idle", "edited"}
      BY <2>1 DEF Open, At
    <2> QED
      BY <2>1, <2>2 DEF CurrentInv, CurrentFits
  <1>6. CASE UNCHANGED vars
    BY <1>6 DEF vars, CurrentInv
  <1> QED
    BY <1>4, <1>5, <1>6 DEF Next

\* The step that adds a version is the commit of the request that made it.
LEMMA AddingStep ==
  ASSUME PlanInv, PlanInv', [Next]_vars, NEW s \in Sessions, Adds(s)
  PROVE  CommitPlan(s) /\ plans'[Len(plans')] = sess[s].plan[2]
  <1>1. sess[s].pc = "persisted" /\ Len(plans') > Len(plans) /\ sess'[s].pc = "idle"
    BY DEF Adds, At
  <1>2. /\ Len(plans) \in Nat /\ DOMAIN plans = 1..Len(plans)
        /\ Len(plans') \in Nat /\ DOMAIN plans' = 1..Len(plans')
    BY DEF PlanInv, StoredInv
  <1>3. DOMAIN plans' # DOMAIN plans
    <2> DEFINE a == Len(plans)
               b == Len(plans')
    <2>1. a \in Nat /\ b \in Nat /\ b > a
      BY <1>1, <1>2
    <2>2. DOMAIN plans = 1..a /\ DOMAIN plans' = 1..b
      BY <1>2
    <2> HIDE DEF a, b
    <2>3. b \in 1..b /\ b \notin 1..a
      BY <2>1
    <2>4. 1..a # 1..b
      BY <2>3, Zenon
    <2> QED
      BY <2>2, <2>4, Zenon
  <1>4. PICK t \in Sessions : CommitPlan(t)
    BY <1>3, WhoWrites, WrittenKeeps
  <1>5. \A u \in Sessions \ {t} : sess'[u] = sess[u]
    BY <1>4 DEF CommitPlan, End, PlanInv, SessInv
  <1>6. s = t
    BY <1>1, <1>5
  <1>7. plans' = Append(plans, sess[s].plan[2])
    BY <1>4, <1>6 DEF CommitPlan
  <1> QED
    BY <1>4, <1>6, <1>7, OneMore DEF PlanInv, Latest

\* A version is added from, or approved against, an analysis that still describes
\* the assignment at the commit, and a newer one does not, unless an analysis or the
\* brief moved during the request; it is approved only on the latest
\* (CurrentUnlessMoved).
THEOREM PlansAreCurrent == Spec => CurrentUnlessMoved
  <1>1. Init => CurrentInv
    BY RestFits DEF Init, CurrentInv, CurrentFits
  <1>2. ASSUME PlanInv, PlanInv', CurrentInv, [Next]_vars
        PROVE  [\A s \in Sessions \ moved :
                  LET v == sess[s].version
                  IN  /\ (Adds(s) /\ sess[s].run # "none")
                         => Current(plans'[Len(plans')].analysis)
                      /\ (At(s, "agreed") /\ plans[v].status # "APPROVED" /\ plans'[v].status = "APPROVED")
                         => Current(plans[v].analysis) /\ plans[v].analysis = LatestAnalysis]_vars
    <2>1. ASSUME NEW s \in Sessions \ moved, Adds(s), sess[s].run # "none"
          PROVE  Current(plans'[Len(plans')].analysis)
      <3>1. plans'[Len(plans')] = sess[s].plan[2]
        BY <1>2, <2>1, AddingStep
      <3> QED
        BY <1>2, <2>1, <3>1, CurrentIs DEF CurrentInv, CurrentFits, Adds, At
    <2>2. ASSUME NEW s \in Sessions \ moved, At(s, "agreed")
          PROVE  LET a == plans[sess[s].version].analysis IN Current(a) /\ a = LatestAnalysis
      BY <1>2, <2>2, CurrentIs DEF CurrentInv, CurrentFits, At, LatestAnalysis
    <2> QED
      BY <2>1, <2>2
  <1>3. ASSUME PlanInv, CurrentInv, [Next]_vars PROVE CurrentInv'
    BY <1>3, CurrentNext
  <1> QED
    BY <1>1, <1>2, <1>3, AlwaysPlanInv, PTL DEF Spec, CurrentUnlessMoved

-----------------------------------------------------------------------------
(* What people made of a plan.                                             *)

\* The student's tasks a request has promised to keep are in what it will add.
KeepsOwed(me) ==
    /\ me.pc = "asked" =>
          /\ IsFiniteSet(DOMAIN me.mine)
          /\ \A b \in me.owed : \E k \in DOMAIN me.mine : me.mine[k].mine /\ me.mine[k].body = b
    /\ me.pc = "persisted" =>
          /\ IsFiniteSet(Tasks(me.plan[2]))
          /\ \A b \in me.owed : \E k \in Mine(me.plan[2]) : me.plan[2].tasks[k].body = b

OwedInv ==
    /\ \A v \in DOMAIN plans : IsFiniteSet(Tasks(plans[v]))
    /\ \A s \in Sessions : KeepsOwed(sess[s])

LEMMA ImageIsFinite ==
  ASSUME NEW set, IsFiniteSet(set), NEW f, DOMAIN f = set
  PROVE  IsFiniteSet({f[x] : x \in set})
  <1> DEFINE image == {f[x] : x \in set}
             onto == [x \in set |-> f[x]]
  <1>1. onto \in Surjection(set, image)
    BY DEF Surjection
  <1> HIDE DEF image, onto
  <1>2. IsFiniteSet(image)
    BY <1>1, FS_Surjection
  <1> QED
    BY <1>2 DEF image

LEMMA KeysOf ==
  ASSUME NEW set, IsFiniteSet(set)
  PROVE  \E f \in [set -> {Carried(i) : i \in 1..Cardinality(set)}] : IsInjective(f)
  <1> DEFINE n == Cardinality(set)
  <1>1. n \in Nat
    BY FS_CardinalityType
  <1>2. PICK number \in [set -> 1..n] : \A a, b \in set : number[a] = number[b] => a = b
    <2>1. PICK g \in Bijection(1..n, set) : TRUE
      BY FS_CardinalityType DEF ExistsBijection
    <2>2. g \in [1..n -> set] /\ \A b \in set : \E i \in 1..n : g[i] = b
      BY <2>1 DEF Bijection, Injection, Surjection
    <2> DEFINE h == [b \in set |-> CHOOSE i \in 1..n : g[i] = b]
    <2>3. \A b \in set : h[b] \in 1..n /\ g[h[b]] = b
      BY <2>2
    <2>4. h \in [set -> 1..n]
      BY <2>3
    <2> HIDE DEF h
    <2> QED
      BY <2>3, <2>4
  <1> DEFINE f == [a \in set |-> Carried(number[a])]
  <1>3. f \in [set -> {Carried(i) : i \in 1..n}]
    BY <1>2
  <1>4. \A a, b \in set : f[a] = f[b] => a = b
    BY <1>2 DEF Carried
  <1>5. DOMAIN f = set
    OBVIOUS
  <1> HIDE DEF f
  <1>6. IsInjective(f)
    BY <1>4, <1>5 DEF IsInjective
  <1> QED
    BY <1>3, <1>6

\* What is carried over is all there, as the student's and with what it says.
LEMMA CarriedIsThere ==
  ASSUME NEW proposal \in Proposals, NEW mine, NEW edges, IsFiniteSet(DOMAIN mine)
  PROVE  LET content == CarryOver(Planned(proposal), mine, edges)
         IN  /\ IsFiniteSet(DOMAIN content.tasks)
             /\ \A j \in DOMAIN mine : \E k \in DOMAIN content.tasks : content.tasks[k] = mine[j]
  <1> DEFINE own == DOMAIN mine
             names == {Carried(i) : i \in 1..Cardinality(own)}
             key == CHOOSE f \in [own -> names] : IsInjective(f)
             old(k) == CHOOSE j \in own : key[j] = k
             first == Planned(proposal).tasks
             all == [k \in DOMAIN first \cup Range(key) |->
                       IF k \in DOMAIN first THEN first[k] ELSE mine[old(k)]]
  <1>1. key \in [own -> names] /\ IsInjective(key)
    BY KeysOf
  <1>2. CarryOver(Planned(proposal), mine, edges).tasks = all
    <2> DEFINE joined == {<<key[e[1]], key[e[2]]>> : e \in {d \in edges : {d[1], d[2]} \subseteq DOMAIN mine}}
               planned == Planned(proposal)
    <2>1. CarryOver(planned, mine, edges) = [planned EXCEPT !.tasks = all, !.edges = @ \cup joined]
      BY Zenon DEF CarryOver
    <2>2. DOMAIN planned = {"tasks", "edges", "milestones"}
      BY DEF Planned
    <2> HIDE DEF all, joined, planned
    <2>3. CarryOver(planned, mine, edges).tasks = all
      BY <2>1, <2>2
    <2> QED
      BY <2>3 DEF planned
  <1>3. DOMAIN first = {Generated(i) : i \in 1..proposal.size}
    BY DEF Planned
  <1>4. IsFiniteSet(DOMAIN first)
    <2>1. proposal.size \in Nat
      BY PlanVersionsAssumption DEF PlanVersionsAssumption
    <2>2. IsFiniteSet(1..proposal.size)
      BY <2>1, FS_Interval
    <2> DEFINE numbers == 1..proposal.size
               f == [i \in numbers |-> Generated(i)]
    <2>3. DOMAIN f = numbers /\ DOMAIN first = {f[i] : i \in numbers} /\ IsFiniteSet(numbers)
      BY <1>3, <2>2
    <2> HIDE DEF f, first, numbers
    <2>4. IsFiniteSet({f[i] : i \in numbers})
      BY <2>3, ImageIsFinite
    <2> QED
      BY <2>3, <2>4
  <1> HIDE DEF key, first
  <1>5. \A j \in own : key[j] \notin DOMAIN first
    BY <1>1, <1>3 DEF Carried, Generated
  <1>6. \A j \in own : key[j] \in Range(key) /\ old(key[j]) = j
    BY <1>1 DEF IsInjective, Range
  <1>7. Range(key) = {key[j] : j \in own}
    BY <1>1 DEF Range
  <1>8. IsFiniteSet(Range(key))
    BY <1>1, <1>7, ImageIsFinite
  <1>9. IsFiniteSet(DOMAIN first \cup Range(key))
    BY <1>4, <1>8, FS_Union
  <1>10. \A j \in own : all[key[j]] = mine[j]
    BY <1>5, <1>6
  <1>11. DOMAIN all = DOMAIN first \cup Range(key)
    OBVIOUS
  <1> HIDE DEF all
  <1> QED
    BY <1>2, <1>6, <1>9, <1>10, <1>11

\* An edit leaves the tasks finite.
LEMMA EditedFinite ==
  ASSUME NEW plan, NEW e, PlanFits(plan), IsFiniteSet(Tasks(plan))
  PROVE  IsFiniteSet(Tasks(Edited(plan, e)))
  <1> DEFINE new == Edited(plan, e)
  <1>1. DOMAIN plan = Columns
    BY DEF PlanFits
  <1>2. CASE e.op = "delete"
    <2> DEFINE kept == Restrict(plan.tasks, DOMAIN plan.tasks \ {e.key})
               left == {d \in plan.edges : e.key \notin {d[1], d[2]}}
    <2>1. new = [plan EXCEPT !.tasks = kept, !.edges = left]
      BY <1>2, Zenon DEF Edited
    <2>2. DOMAIN kept \subseteq Tasks(plan)
      BY DEF Restrict, Tasks
    <2> HIDE DEF new, kept, left
    <2>3. Tasks(new) = DOMAIN kept
      BY <1>1, <2>1 DEF Columns, Tasks
    <2>4. IsFiniteSet(DOMAIN kept)
      BY <2>2, FS_Subset
    <2> QED
      BY <2>3, <2>4 DEF new
  <1>3. CASE e.op = "touch"
    <2>1. new = [plan EXCEPT !.wording = e.body]
      BY <1>3 DEF Edited
    <2> HIDE DEF new
    <2>2. Tasks(new) = Tasks(plan)
      BY <1>1, <2>1 DEF Columns, Tasks
    <2> QED
      BY <2>2 DEF new
  <1>4. CASE e.op # "delete" /\ e.op # "touch"
    <2> DEFINE kept == [k \in DOMAIN plan.tasks \cup {e.key} |->
                           IF k = e.key THEN [mine |-> TRUE, body |-> e.body] ELSE plan.tasks[k]]
               left == (plan.edges \ e.drop) \cup e.add
    <2>1. new = [plan EXCEPT !.tasks = kept, !.edges = left]
      BY <1>4, Zenon DEF Edited
    <2>2. DOMAIN kept = Tasks(plan) \cup {e.key}
      BY DEF Tasks
    <2> HIDE DEF new, kept, left
    <2>3. Tasks(new) = DOMAIN kept
      BY <1>1, <2>1 DEF Columns, Tasks
    <2>4. IsFiniteSet(Tasks(plan) \cup {e.key})
      BY FS_AddElement
    <2> QED
      BY <2>2, <2>3, <2>4 DEF new
  <1> QED
    BY <1>2, <1>3, <1>4

LEMMA OwedBegins ==
  ASSUME PlanInv, OwedInv, NEW s \in Sessions, NEW r, sess' = [sess EXCEPT ![s] = r],
         UNCHANGED plans, KeepsOwed(r)
  PROVE  OwedInv'
  <1>1. sess'[s] = r /\ \A t \in Sessions \ {s} : sess'[t] = sess[t]
    BY DEF PlanInv, SessInv
  <1> QED
    BY <1>1 DEF OwedInv

LEMMA OwedEnds ==
  ASSUME PlanInv, OwedInv, NEW s \in Sessions, End(s),
         \A v \in DOMAIN plans' : IsFiniteSet(Tasks(plans'[v]))
  PROVE  OwedInv'
  <1>1. sess'[s] = Rest /\ \A t \in Sessions \ {s} : sess'[t] = sess[t]
    BY DEF PlanInv, SessInv, End
  <1>2. KeepsOwed(Rest)
    BY RestFits DEF KeepsOwed
  <1> QED
    BY <1>1, <1>2 DEF OwedInv

LEMMA OwedAsks ==
  ASSUME PlanInv, OwedInv, NEW s \in Sessions, NEW key, NEW force,
         Generate(s, key, force) \/ Regenerate(s, key, force)
  PROVE  OwedInv'
  <1>1. PICK basis, mine, owed, version :
          /\ Ask(s, RequestKey(key, force), basis, version, mine, owed)
          /\ IsFiniteSet(DOMAIN mine)
          /\ \A b \in owed : \E k \in DOMAIN mine : mine[k].mine /\ mine[k].body = b
    <2>1. CASE Generate(s, key, force)
      <3>1. PICK basis \in DOMAIN analyses : Ask(s, RequestKey(key, force), basis, 0, Nothing, {})
        BY <2>1 DEF Generate
      <3>2. DOMAIN Nothing = {}
        BY DEF Nothing
      <3>3. IsFiniteSet(DOMAIN Nothing)
        BY <3>2, FS_EmptySet
      <3> QED
        BY <3>1, <3>3
    <2>2. CASE Regenerate(s, key, force)
      <3> DEFINE plan == plans[Latest]
      <3>1. /\ Latest > 0
            /\ Ask(s, RequestKey(key, force), LatestAnalysis, Latest, Preserved(plan), Written(plan))
        BY <2>2 DEF Regenerate
      <3>2. Latest \in DOMAIN plans
        BY <3>1 DEF PlanInv, StoredInv, Latest
      <3>3. /\ DOMAIN Preserved(plan) = Mine(plan)
            /\ \A k \in Mine(plan) : Preserved(plan)[k] = plan.tasks[k]
        BY DEF Preserved, Restrict, Mine, Tasks
      <3>4. IsFiniteSet(Mine(plan))
        <4>1. IsFiniteSet(Tasks(plan)) /\ Mine(plan) \subseteq Tasks(plan)
          BY <3>2 DEF OwedInv, Mine
        <4> QED
          BY <4>1, FS_Subset
      <3>5. \A b \in Written(plan) : \E k \in Mine(plan) : plan.tasks[k].mine /\ plan.tasks[k].body = b
        BY DEF Written, Mine
      <3> HIDE DEF plan
      <3> QED
        BY <3>1, <3>3, <3>4, <3>5
    <2> QED
      BY <2>1, <2>2
  <1> DEFINE r == [Rest EXCEPT !.pc = "asked", !.key = RequestKey(key, force), !.basis = basis,
                               !.version = version, !.mine = mine, !.owed = owed]
  <1>2. sess' = [sess EXCEPT ![s] = r] /\ UNCHANGED plans
    BY <1>1 DEF Ask
  <1>3. r.pc = "asked" /\ r.mine = mine /\ r.owed = owed
    BY RestFields
  <1> HIDE DEF r
  <1>4. KeepsOwed(r)
    BY <1>1, <1>3 DEF KeepsOwed
  <1> QED
    BY <1>2, <1>4, OwedBegins

LEMMA OwedRederives ==
  ASSUME PlanInv, OwedInv, NEW s \in Sessions, Rederive(s) PROVE OwedInv'
  <1> DEFINE base == plans[Latest]
             copy == [base EXCEPT !.milestones = Folded(Layers(base))]
             plan == Version(copy, base.analysis, NoKey)
             r == [Rest EXCEPT !.pc = "persisted", !.version = Latest, !.owed = Written(base),
                               !.plan = <<NextVersion, plan>>]
  <1>1. sess' = [sess EXCEPT ![s] = r] /\ UNCHANGED plans /\ Latest > 0
    BY DEF Rederive
  <1>2. Latest \in DOMAIN plans
    BY <1>1 DEF PlanInv, StoredInv, Latest
  <1>3. DOMAIN base = Columns /\ IsFiniteSet(Tasks(base))
    BY <1>2 DEF PlanInv, StoredInv, PlanFits, OwedInv
  <1>4. plan.tasks = base.tasks
    <2> DEFINE layers == Folded(Layers(base))
    <2>1. copy = [base EXCEPT !.milestones = layers]
      OBVIOUS
    <2> HIDE DEF layers, base
    <2>2. copy.tasks = base.tasks
      BY <1>3, <2>1 DEF Columns
    <2> HIDE DEF copy
    <2> QED
      BY <2>2 DEF Version
  <1> HIDE DEF plan, base
  <1>5. /\ r.pc = "persisted" /\ r.owed = Written(base) /\ r.plan[2] = plan
    BY DEF Rest
  <1> HIDE DEF r
  <1>6. Tasks(plan) = Tasks(base) /\ Mine(plan) = Mine(base)
    BY <1>4 DEF Tasks, Mine
  <1>7. \A b \in Written(base) : \E k \in Mine(base) : base.tasks[k].body = b
    BY DEF Written
  <1>8. KeepsOwed(r)
    BY <1>3, <1>4, <1>5, <1>6, <1>7 DEF KeepsOwed
  <1> QED
    BY <1>1, <1>8, OwedBegins

LEMMA OwedOpens ==
  ASSUME PlanInv, OwedInv, NEW s \in Sessions, NEW v,
         Agree(s, v) \/ \E e \in Edits(plans[v]) : Edit(s, v, e)
  PROVE  OwedInv'
  <1>1. PICK r : sess' = [sess EXCEPT ![s] = r] /\ r.pc \in {"edited", "agreed"}
    BY OpeningIs
  <1>2. plans' = plans
    BY Zenon DEF Agree, Edit
  <1>3. KeepsOwed(r)
    BY <1>1 DEF KeepsOwed
  <1> QED
    BY <1>1, <1>2, <1>3, OwedBegins

LEMMA OwedAnswered ==
  ASSUME PlanInv, OwedInv, NEW s \in Sessions,
         Refuse(s) \/ \E proposal \in Proposals : Answer(s, proposal)
  PROVE  OwedInv'
  <1> DEFINE me == sess[s]
  <1>1. /\ me.pc = "asked" /\ plans' = plans
        /\ \A t \in Sessions \ {s} : sess'[t] = sess[t]
        /\ sess'[s].owed = me.owed
        /\ \/ sess'[s].pc = "refused"
           \/ /\ sess'[s].pc = "persisted"
              /\ \E proposal \in Proposals :
                     sess'[s].plan[2] =
                         Version(CarryOver(Planned(proposal), me.mine, CarriedEdges(s)), me.basis, me.key)
    BY AnsweredIs
  <1>2. /\ IsFiniteSet(DOMAIN me.mine)
        /\ \A b \in me.owed : \E k \in DOMAIN me.mine : me.mine[k].mine /\ me.mine[k].body = b
    BY <1>1 DEF OwedInv, KeepsOwed
  <1>3. ASSUME NEW proposal \in Proposals, sess'[s].pc = "persisted",
               sess'[s].plan[2] =
                   Version(CarryOver(Planned(proposal), me.mine, CarriedEdges(s)), me.basis, me.key)
        PROVE  KeepsOwed(sess'[s])
    <2> DEFINE content == CarryOver(Planned(proposal), me.mine, CarriedEdges(s))
               plan == sess'[s].plan[2]
    <2>1. /\ IsFiniteSet(DOMAIN content.tasks)
          /\ \A j \in DOMAIN me.mine : \E k \in DOMAIN content.tasks : content.tasks[k] = me.mine[j]
      BY <1>2, CarriedIsThere
    <2> HIDE DEF content
    <2>2. plan.tasks = content.tasks
      BY <1>3 DEF Version, content
    <2> HIDE DEF me
    <2>3. /\ IsFiniteSet(Tasks(plan))
          /\ \A b \in me.owed : \E k \in Mine(plan) : plan.tasks[k].body = b
      BY <1>2, <2>1, <2>2 DEF Tasks, Mine
    <2> QED
      BY <1>1, <1>3, <2>3 DEF KeepsOwed
  <1>4. KeepsOwed(sess'[s])
    <2>1. CASE sess'[s].pc = "refused"
      BY <2>1 DEF KeepsOwed
    <2> QED
      BY <1>1, <1>3, <2>1
  <1> QED
    BY <1>1, <1>4 DEF OwedInv

LEMMA OwedWrites ==
  ASSUME PlanInv, OwedInv, NEW s \in Sessions, CommitPlan(s) \/ CommitEdit(s) \/ CommitApproval(s)
  PROVE  OwedInv'
  <1> DEFINE v == sess[s].version
  <1>1. End(s)
    BY DEF CommitPlan, CommitEdit, CommitApproval
  <1>2. \A w \in DOMAIN plans : IsFiniteSet(Tasks(plans[w]))
    BY DEF OwedInv
  <1>3. ASSUME CommitEdit(s) \/ CommitApproval(s) PROVE v \in DOMAIN plans /\ PlanFits(plans[v])
    <2>1. SessionFits(sess[s], plans, runs)
      BY DEF PlanInv, SessInv
    <2>2. v \in DOMAIN plans
      BY <1>3, <2>1 DEF CommitEdit, CommitApproval, At, SessionFits
    <2> QED
      BY <2>2 DEF PlanInv, StoredInv
  <1>4. \A w \in DOMAIN plans' : IsFiniteSet(Tasks(plans'[w]))
    <2>1. CASE CommitPlan(s)
      <3>1. plans' = Append(plans, sess[s].plan[2]) /\ sess[s].pc = "persisted"
        BY <2>1 DEF CommitPlan, At
      <3>2. IsFiniteSet(Tasks(sess[s].plan[2]))
        BY <3>1 DEF OwedInv, KeepsOwed
      <3>3. /\ DOMAIN plans' = DOMAIN plans \cup {Latest + 1}
            /\ plans'[Latest + 1] = sess[s].plan[2] /\ \A w \in DOMAIN plans : plans'[w] = plans[w]
        BY <3>1, OneMore DEF PlanInv
      <3> QED
        BY <1>2, <3>2, <3>3
    <2>2. CASE CommitEdit(s)
      <3> DEFINE plan == Edited(plans[v], sess[s].edit)
      <3>1. plans' = [plans EXCEPT ![v] = plan]
        BY <2>2 DEF CommitEdit
      <3>2. IsFiniteSet(Tasks(plan))
        BY <1>2, <1>3, <2>2, EditedFinite
      <3> HIDE DEF plan, v
      <3> QED
        BY <1>2, <3>1, <3>2
    <2>3. CASE CommitApproval(s)
      <3> DEFINE plan == [plans[v] EXCEPT !.status = "APPROVED"]
      <3>1. plans' = [plans EXCEPT ![v] = plan]
        BY <2>3 DEF CommitApproval
      <3>2. Tasks(plan) = Tasks(plans[v])
        BY <1>3, <2>3 DEF PlanFits, Columns, Tasks
      <3>3. IsFiniteSet(Tasks(plan))
        BY <1>2, <1>3, <2>3, <3>2
      <3> HIDE DEF plan, v
      <3> QED
        BY <1>2, <3>1, <3>3
    <2> QED
      BY <2>1, <2>2, <2>3
  <1> QED
    BY <1>1, <1>4, OwedEnds

LEMMA OwedNext == ASSUME PlanInv, OwedInv, [Next]_vars PROVE OwedInv'
  <1>1. ASSUME NEW s \in Sessions,
               CommitRefusal(s) \/ VersionTaken(s) \/ EditConflict(s) \/ Abandon(s)
        PROVE  OwedInv'
    <2>1. End(s) /\ UNCHANGED plans
      BY <1>1 DEF CommitRefusal, VersionTaken, EditConflict, Abandon
    <2>2. \A v \in DOMAIN plans' : IsFiniteSet(Tasks(plans'[v]))
      BY <2>1 DEF OwedInv
    <2> QED
      BY <2>1, <2>2, OwedEnds
  <1>2. ASSUME NEW s \in Sessions, Generation(s) \/ Editing(s) \/ Approving(s) \/ Abandon(s)
        PROVE  OwedInv'
    BY <1>1, <1>2, OwedAsks, OwedAnswered, OwedRederives, OwedOpens, OwedWrites
       DEF Generation, Editing, Approving
  <1>3. CASE Analysed \/ BriefEdited \/ UNCHANGED vars
    <2>1. UNCHANGED <<plans, sess>>
      BY <1>3 DEF Analysed, BriefEdited, vars
    <2> QED
      BY <2>1 DEF OwedInv
  <1> QED
    BY <1>2, <1>3 DEF Next

\* What a version says is changed by the commit of an edit only.
LEMMA WhoChanges ==
  ASSUME PlanInv, [Next]_vars, NEW v \in DOMAIN plans, Content(plans'[v]) # Content(plans[v])
  PROVE  \E s \in Sessions : /\ At(s, "edited") /\ sess[s].version = v
                             /\ Editable(sess[s].status) /\ sess'[s].pc = "idle"
  <1>1. PICK s \in Sessions : CommitPlan(s) \/ CommitEdit(s) \/ CommitApproval(s)
    BY WhoWrites
  <1>2. ~CommitPlan(s)
    <2> SUFFICES ASSUME CommitPlan(s) PROVE FALSE
      OBVIOUS
    <2>1. plans' = Append(plans, sess[s].plan[2])
      BY DEF CommitPlan
    <2>2. plans'[v] = plans[v]
      BY <2>1, OneMore DEF PlanInv
    <2> QED
      BY <2>2
  <1>3. ~CommitApproval(s)
    <2> SUFFICES ASSUME CommitApproval(s) PROVE FALSE
      OBVIOUS
    <2> DEFINE w == sess[s].version
               plan == [plans[w] EXCEPT !.status = "APPROVED"]
    <2>1. plans' = [plans EXCEPT ![w] = plan]
      BY DEF CommitApproval
    <2>2. CASE v # w
      <3>1. plans'[v] = plans[v]
        BY <2>1, <2>2
      <3> QED
        BY <3>1
    <2>3. CASE v = w
      <3>1. DOMAIN plans[v] = Columns
        BY DEF PlanInv, StoredInv, PlanFits
      <3>2. /\ plan.tasks = plans[v].tasks /\ plan.edges = plans[v].edges
            /\ plan.milestones = plans[v].milestones /\ plan.wording = plans[v].wording
        BY <2>3, <3>1 DEF Columns
      <3> HIDE DEF plan, w
      <3>3. plans'[v] = plan
        BY <2>1, <2>3
      <3>4. Content(plan) = Content(plans[v])
        BY <3>2 DEF Content, Tasks
      <3> QED
        BY <3>3, <3>4
    <2> QED
      BY <2>2, <2>3
  <1>4. CommitEdit(s)
    BY <1>1, <1>2, <1>3
  <1>5. sess[s].version = v
    <2> DEFINE w == sess[s].version
               plan == Edited(plans[w], sess[s].edit)
    <2>1. plans' = [plans EXCEPT ![w] = plan]
      BY <1>4 DEF CommitEdit
    <2> HIDE DEF plan, w
    <2>2. v # w => plans'[v] = plans[v]
      BY <2>1
    <2> QED
      BY <2>2 DEF w
  <1>6. At(s, "edited") /\ End(s)
    BY <1>4 DEF CommitEdit
  <1>7. Editable(sess[s].status)
    BY <1>6 DEF At, PlanInv, SessInv, SessionFits
  <1>8. sess'[s].pc = "idle"
    BY <1>6, RestFits DEF End, PlanInv, SessInv
  <1> QED
    BY <1>5, <1>6, <1>7, <1>8

\* A task the student wrote is in the next version if the request that makes it had
\* read it, and what was approved is changed only by an edit that was loaded while
\* the version was under review (MadeByPeopleIsKept).
THEOREM WhatPeopleMadeIsKept == Spec => MadeByPeopleIsKept
  <1>1. Init => OwedInv
    BY RestFits DEF Init, OwedInv, KeepsOwed
  <1>2. ASSUME PlanInv, OwedInv, [Next]_vars PROVE OwedInv'
    BY <1>2, OwedNext
  <1>3. ASSUME PlanInv, PlanInv', OwedInv, [Next]_vars
        PROVE  [\A s \in Sessions :
                  Adds(s) /\ sess[s].version > 0
                  => LET base == plans[sess[s].version]
                     IN  \A k \in Mine(base) : \/ base.tasks[k].body \notin sess[s].owed
                                               \/ Survives(base.tasks[k], plans'[Len(plans')])]_vars
    <2> SUFFICES ASSUME NEW s \in Sessions, Adds(s), NEW task, task.body \in sess[s].owed
                 PROVE  Survives(task, plans'[Len(plans')])
      OBVIOUS
    <2>1. plans'[Len(plans')] = sess[s].plan[2] /\ sess[s].pc = "persisted"
      BY <1>3, AddingStep DEF Adds, At
    <2>2. \E k \in Mine(sess[s].plan[2]) : sess[s].plan[2].tasks[k].body = task.body
      BY <1>3, <2>1 DEF OwedInv, KeepsOwed
    <2> QED
      BY <2>1, <2>2 DEF Survives
  <1>4. ASSUME PlanInv, [Next]_vars
        PROVE  [\A v \in DOMAIN plans :
                  plans[v].status = "APPROVED" /\ Content(plans'[v]) # Content(plans[v])
                  => \E s \in Sessions : /\ At(s, "edited") /\ sess[s].version = v
                                         /\ Editable(sess[s].status) /\ sess'[s].pc = "idle"]_vars
    BY <1>4, WhoChanges
  <1> QED
    BY <1>1, <1>2, <1>3, <1>4, AlwaysPlanInv, PTL
       DEF Spec, MadeByPeopleIsKept, OwnTasksSurvive, ApprovedKeepsContent

-----------------------------------------------------------------------------
(* Greatest elements, and the places of a set of numbers.                  *)

LEMMA MaxIs ==
  ASSUME NEW set \in SUBSET Nat, set # {}, NEW n \in Nat, \A x \in set : x <= n
  PROVE  Max(set) \in set /\ \A x \in set : Max(set) >= x
  <1> DEFINE bounds == {k \in Nat : \A x \in set : x <= k}
  <1>1. bounds \in SUBSET Nat /\ n \in bounds
    OBVIOUS
  <1> HIDE DEF bounds
  <1>2. PICK k \in bounds : \A m \in bounds : <<m, k>> \notin OpToRel(<, Nat)
    BY <1>1, NatLessThanWellFounded, WFMin
  <1>3. \A m \in bounds : ~(m < k)
    BY <1>1, <1>2 DEF OpToRel
  <1>4. k \in set
    <2> SUFFICES ASSUME k \notin set PROVE FALSE
      OBVIOUS
    <2>1. k \in Nat /\ \A x \in set : x <= k
      BY <1>2 DEF bounds
    <2>2. \A x \in set : x \in Nat /\ x < k
      BY <2>1
    <2>3. PICK x \in set : TRUE
      OBVIOUS
    <2>4. k - 1 \in Nat /\ \A y \in set : y <= k - 1
      BY <2>1, <2>2, <2>3
    <2>5. k - 1 \in bounds
      BY <2>4 DEF bounds
    <2> QED
      BY <1>3, <2>1, <2>5
  <1>5. \A x \in set : k >= x
    BY <1>2 DEF bounds
  <1> QED
    BY <1>4, <1>5 DEF Max

LEMMA PlacesAre ==
  ASSUME NEW top \in Nat, NEW kept \in SUBSET (1..top)
  PROVE  /\ Cardinality(kept) \in Nat
         /\ \A i \in 1..Cardinality(kept) :
               (CHOOSE m \in kept : Cardinality({n \in kept : n <= m}) = i) \in kept
         /\ \A m \in kept : \E i \in 1..Cardinality(kept) :
               m = CHOOSE k \in kept : Cardinality({n \in kept : n <= k}) = i
  <1> DEFINE size == Cardinality(kept)
             below(m) == {n \in kept : n <= m}
             rank == [m \in kept |-> Cardinality(below(m))]
  <1>1. IsFiniteSet(kept) /\ size \in Nat
    <2>1. IsFiniteSet(1..top)
      BY FS_Interval
    <2> QED
      BY <2>1, FS_Subset, FS_CardinalityType
  <1>2. \A m \in kept : IsFiniteSet(below(m)) /\ rank[m] \in 1..size
    <2> TAKE m \in kept
    <2>1. below(m) \in SUBSET kept /\ m \in below(m)
      OBVIOUS
    <2> HIDE DEF below
    <2>2. IsFiniteSet(below(m)) /\ Cardinality(below(m)) <= size
      BY <1>1, <2>1, FS_Subset
    <2>3. Cardinality(below(m)) \in Nat /\ Cardinality(below(m)) # 0
      BY <2>1, <2>2, FS_EmptySet, FS_CardinalityType
    <2> QED
      BY <1>1, <2>2, <2>3
  <1>3. ASSUME NEW a \in kept, NEW b \in kept, a < b PROVE rank[a] < rank[b]
    <2>0. a \in Int /\ b \in Int /\ \A n \in kept : n \in Int
      OBVIOUS
    <2>1. below(a) \in SUBSET below(b) /\ b \in below(b) /\ b \notin below(a)
      <3> HIDE DEF rank
      <3>1. \A n \in kept : n <= a => n <= b
        BY <1>3, <2>0
      <3>2. b <= b /\ ~(b <= a)
        BY <1>3, <2>0
      <3> QED
        BY <3>1, <3>2
    <2>2. IsFiniteSet(below(b)) /\ rank[a] \in 1..size /\ rank[b] \in 1..size
      BY <1>2
    <2> HIDE DEF below
    <2>3. Cardinality(below(a)) <= Cardinality(below(b))
          /\ Cardinality(below(a)) # Cardinality(below(b))
      BY <2>1, <2>2, FS_Subset
    <2> QED
      BY <1>1, <2>2, <2>3
  <1>4. \A a, b \in kept : rank[a] = rank[b] => a = b
    <2> SUFFICES ASSUME NEW a \in kept, NEW b \in kept, rank[a] = rank[b], a # b PROVE FALSE
      OBVIOUS
    <2>1. rank[a] \in Int /\ (a < b \/ b < a)
      BY <1>2
    <2> HIDE DEF rank
    <2> QED
      BY <1>3, <2>1
  <1>5. rank \in Injection(kept, 1..size)
    <2>1. rank \in [kept -> 1..size] /\ DOMAIN rank = kept
      BY <1>2
    <2> HIDE DEF rank
    <2> QED
      BY <1>4, <2>1 DEF Injection, IsInjective
  <1>6. \A i \in 1..size : \E m \in kept : rank[m] = i
    <2>1. IsFiniteSet(1..size) /\ Cardinality(1..size) = size
      BY <1>1, FS_Interval
    <2> HIDE DEF rank, size
    <2>2. rank \in Surjection(kept, 1..size)
      BY <1>5, <2>1, FS_Injection DEF size
    <2> QED
      BY <2>2 DEF Surjection
  <1>7. \A m \in kept : rank[m] = Cardinality({n \in kept : n <= m})
    OBVIOUS
  <1> HIDE DEF rank
  <1>8. ASSUME NEW i \in 1..size
        PROVE  (CHOOSE m \in kept : Cardinality({n \in kept : n <= m}) = i) \in kept
    BY <1>6, <1>7
  <1>9. ASSUME NEW m \in kept
        PROVE  m = CHOOSE k \in kept : Cardinality({n \in kept : n <= k}) = rank[m]
    BY <1>4, <1>7
  <1>10. \A m \in kept : rank[m] \in 1..size
    BY <1>2
  <1> QED
    BY <1>1, <1>8, <1>9, <1>10

\* Dropping the empty layers drops nothing else.
LEMMA NonEmptyIs ==
  ASSUME NEW layers, NEW n \in Nat, DOMAIN layers = 1..n
  PROVE  /\ NonEmpty(layers) \in Seq(Range(layers))
         /\ Range(NonEmpty(layers)) = Range(layers) \ {{}}
  <1> DEFINE kept == {m \in DOMAIN layers : layers[m] # {}}
             size == Cardinality(kept)
             place(i) == CHOOSE m \in kept : Cardinality({k \in kept : k <= m}) = i
  <1>1. kept \in SUBSET (1..n)
    OBVIOUS
  <1>2. NonEmpty(layers) = [i \in 1..size |-> layers[place(i)]]
    BY DEF NonEmpty
  <1>3. \A m \in kept : m \in DOMAIN layers /\ layers[m] # {}
    OBVIOUS
  <1>4. \A m \in DOMAIN layers : layers[m] # {} => m \in kept
    OBVIOUS
  <1> HIDE DEF kept
  <1>5. /\ size \in Nat
        /\ \A i \in 1..size : place(i) \in kept
        /\ \A m \in kept : \E i \in 1..size : m = place(i)
    BY <1>1, PlacesAre
  <1> HIDE DEF size, place
  <1>6. Range(NonEmpty(layers)) = {layers[place(i)] : i \in 1..size}
    BY <1>2 DEF Range
  <1>7. Range(layers) = {layers[m] : m \in DOMAIN layers}
    BY DEF Range
  <1>8. {layers[place(i)] : i \in 1..size} \subseteq {layers[m] : m \in DOMAIN layers} \ {{}}
    BY <1>3, <1>5
  <1>9. ASSUME NEW m \in DOMAIN layers, layers[m] # {}
        PROVE  \E i \in 1..size : layers[m] = layers[place(i)]
    BY <1>4, <1>5, <1>9
  <1>10. Range(layers) \ {{}} \subseteq {layers[place(i)] : i \in 1..size}
    BY <1>7, <1>9
  <1>11. Range(NonEmpty(layers)) = Range(layers) \ {{}}
    BY <1>6, <1>7, <1>8, <1>10
  <1>12. \A i \in 1..size : layers[place(i)] \in Range(layers)
    BY <1>6, <1>11
  <1>13. NonEmpty(layers) \in [1..size -> Range(layers)]
    BY <1>2, <1>12
  <1>14. NonEmpty(layers) \in Seq(Range(layers))
    BY <1>5, <1>13
  <1> QED
    BY <1>11, <1>14

LEMMA OneLonger ==
  ASSUME NEW any, NEW s \in Seq(any), NEW x \in any
  PROVE  Append(s, x) \in Seq(any) /\ Range(Append(s, x)) = Range(s) \cup {x}
  <1>1. /\ Append(s, x) \in Seq(any) /\ Len(s) \in Nat
        /\ DOMAIN s = 1..Len(s) /\ DOMAIN Append(s, x) = 1..(Len(s) + 1)
        /\ Append(s, x)[Len(s) + 1] = x /\ \A i \in 1..Len(s) : Append(s, x)[i] = s[i]
    OBVIOUS
  <1> DEFINE t == Append(s, x)
  <1>2. DOMAIN t = DOMAIN s \cup {Len(s) + 1} /\ t[Len(s) + 1] = x /\ \A i \in DOMAIN s : t[i] = s[i]
    BY <1>1
  <1> HIDE DEF t
  <1>3. Range(t) = Range(s) \cup {x}
    BY <1>2 DEF Range
  <1> QED
    BY <1>1, <1>3 DEF t

\* A division of a set of tasks into milestones: each task in one, none empty.
Divides(s, tasks) == s \in Seq(SUBSET tasks) /\ UNION Range(s) = tasks /\ {} \notin Range(s)

LEMMA LayersDivide ==
  ASSUME NEW plan, \E any : plan.milestones \in Seq(any)
  PROVE  Divides(Layers(plan), Tasks(plan))
  <1> DEFINE tasks == Tasks(plan)
             cut == [m \in DOMAIN plan.milestones |-> plan.milestones[m] \cap tasks]
             kept == NonEmpty(cut)
             rest == tasks \ UNION Range(kept)
  <1>1. Layers(plan) = IF rest = {} THEN kept ELSE Append(kept, rest)
    BY DEF Layers
  <1>2. \E n \in Nat : DOMAIN cut = 1..n
    <2>1. PICK any : plan.milestones \in Seq(any)
      OBVIOUS
    <2>2. Len(plan.milestones) \in Nat /\ DOMAIN plan.milestones = 1..Len(plan.milestones)
      BY <2>1
    <2> QED
      BY <2>2
  <1>3. Range(cut) \subseteq SUBSET tasks
    BY DEF Range
  <1> HIDE DEF cut, tasks
  <1>4. kept \in Seq(Range(cut)) /\ Range(kept) = Range(cut) \ {{}}
    BY <1>2, NonEmptyIs
  <1>5. kept \in Seq(SUBSET tasks)
    BY <1>3, <1>4
  <1> HIDE DEF kept
  <1>6. CASE rest = {}
    BY <1>1, <1>3, <1>4, <1>5, <1>6 DEF Divides, tasks
  <1>7. CASE rest # {}
    <2>1. rest \in SUBSET tasks /\ tasks = rest \cup UNION Range(kept)
      BY <1>3, <1>4
    <2> HIDE DEF rest
    <2> DEFINE more == Append(kept, rest)
    <2>2. more \in Seq(SUBSET tasks) /\ Range(more) = Range(kept) \cup {rest}
      BY <1>5, <2>1, OneLonger
    <2>3. Layers(plan) = more
      BY <1>1, <1>7
    <2> HIDE DEF more
    <2>4. UNION Range(more) = rest \cup UNION Range(kept)
      BY <2>2
    <2>5. {} \notin Range(more)
      BY <1>4, <1>7, <2>2
    <2> QED
      BY <2>1, <2>2, <2>3, <2>4, <2>5 DEF Divides, tasks
  <1> QED
    BY <1>6, <1>7

LEMMA FoldedDivides ==
  ASSUME NEW tasks, NEW layers, Divides(layers, tasks)
  PROVE  Divides(Folded(layers), tasks) /\ Len(Folded(layers)) <= MaxMilestones
  <1>1. /\ MaxMilestones \in Nat /\ MaxMilestones >= 1 /\ Len(layers) \in Nat
        /\ layers \in Seq(SUBSET tasks) /\ DOMAIN layers = 1..Len(layers)
    BY PlanVersionsAssumption DEF PlanVersionsAssumption, Divides
  <1>2. CASE Len(layers) <= MaxMilestones
    BY <1>2 DEF Folded
  <1>3. CASE ~(Len(layers) <= MaxMilestones)
    <2> DEFINE head == SubSeq(layers, 1, MaxMilestones - 1)
               last == UNION {layers[m] : m \in MaxMilestones..Len(layers)}
               folded == Append(head, last)
    <2>1. Folded(layers) = folded
      BY <1>3 DEF Folded
    <2>2. /\ head \in Seq(SUBSET tasks) /\ Len(head) = MaxMilestones - 1
          /\ \A i \in 1..(MaxMilestones - 1) : head[i] = layers[i]
      BY <1>1, <1>3
    <2>3. last \in SUBSET tasks
      BY <1>1
    <2>4. layers[MaxMilestones] \subseteq last /\ layers[MaxMilestones] # {}
      BY <1>1, <1>3 DEF Divides, Range
    <2> HIDE DEF head, last
    <2>5. folded \in Seq(SUBSET tasks) /\ Range(folded) = Range(head) \cup {last}
      BY <2>2, <2>3, OneLonger
    <2>6. Len(folded) = MaxMilestones
      BY <1>1, <2>2, <2>3
    <2> HIDE DEF folded
    <2>7. DOMAIN head = 1..(MaxMilestones - 1)
      BY <1>1, <2>2
    <2>8. {} \notin Range(folded)
      <3>1. \A i \in 1..(MaxMilestones - 1) : i \in DOMAIN layers
        BY <1>1, <1>3
      <3>2. Range(head) \subseteq Range(layers)
        BY <2>2, <2>7, <3>1 DEF Range
      <3> QED
        BY <2>4, <2>5, <3>2 DEF Divides
    <2>9. UNION Range(folded) = tasks
      <3>1. UNION Range(folded) \subseteq tasks
        BY <2>2, <2>3, <2>5, <2>7 DEF Range
      <3>2. ASSUME NEW t \in tasks PROVE t \in UNION Range(folded)
        <4>1. PICK m \in 1..Len(layers) : t \in layers[m]
          BY <1>1 DEF Divides, Range
        <4>2. CASE m < MaxMilestones
          <5>1. m \in DOMAIN head /\ head[m] = layers[m]
            BY <1>1, <2>2, <2>7, <4>2
          <5> QED
            BY <2>5, <4>1, <5>1 DEF Range
        <4>3. CASE ~(m < MaxMilestones)
          <5>1. m \in MaxMilestones..Len(layers)
            BY <1>1, <4>3
          <5> QED
            BY <2>5, <4>1, <5>1 DEF last
        <4> QED
          BY <4>2, <4>3
      <3> QED
        BY <3>1, <3>2
    <2> QED
      BY <1>1, <2>1, <2>5, <2>6, <2>8, <2>9 DEF Divides
  <1> QED
    BY <1>2, <1>3

-----------------------------------------------------------------------------
(* Graphs.                                                                 *)

\* Some tasks that all wait on one another.
Stuck(edges, set) == set # {} /\ \A q \in set : \E p \in set : <<p, q>> \in edges

Ordered(edges) == \A set \in SUBSET {e[2] : e \in edges} : ~Stuck(edges, set)

LEMMA NobodyIsStuck ==
  ASSUME NEW edges, Ordered(edges), NEW set
  PROVE  ~Stuck(edges, set)
  <1> SUFFICES ASSUME Stuck(edges, set) PROVE FALSE
    OBVIOUS
  <1>1. ASSUME NEW q \in set PROVE q \in {e[2] : e \in edges}
    <2>1. PICK p \in set : <<p, q>> \in edges
      BY DEF Stuck
    <2>2. <<p, q>>[2] = q
      OBVIOUS
    <2> QED
      BY <2>1, <2>2
  <1> QED
    BY <1>1 DEF Ordered

LEMMA SoundIsOrdered ==
  ASSUME NEW tasks, NEW edges, Grounded(tasks, edges)
  PROVE  Sound(tasks, edges) <=> Ordered(edges)
  <1>1. Cyclic(tasks, edges) <=> \E set \in SUBSET tasks : Stuck(edges, set)
    BY DEF Cyclic, Stuck
  <1>2. {e[2] : e \in edges} \subseteq tasks
    BY DEF Grounded
  <1>3. ~Ordered(edges) => Cyclic(tasks, edges)
    BY <1>1, <1>2 DEF Ordered
  <1>4. Ordered(edges) => ~Cyclic(tasks, edges)
    BY <1>1, NobodyIsStuck
  <1> QED
    BY <1>3, <1>4 DEF Sound

LEMMA KeysDiffer ==
  /\ \A i : Generated(i)[1] = "T" /\ Generated(i)[2] = i
  /\ \A i : Carried(i)[1] = "U" /\ Carried(i)[2] = i
  /\ \A i, j : Generated(i) # Carried(j)
  /\ \A i, j : Generated(i) = Generated(j) => i = j
  BY DEF Generated, Carried

Paired(edges) == \A e \in edges : e = <<e[1], e[2]>>

\* What carrying over makes of a proposal, under the keys it chooses.
Remapped(content, proposal, mine, edges, key) ==
    /\ DOMAIN key = DOMAIN mine
    /\ \A j \in DOMAIN mine : \E i : key[j] = Carried(i)
    /\ \A a, b \in DOMAIN mine : key[a] = key[b] => a = b
    /\ DOMAIN content.tasks =
          {Generated(i) : i \in 1..proposal.size} \cup {key[j] : j \in DOMAIN mine}
    /\ \A i \in 1..proposal.size : content.tasks[Generated(i)] = NewTask
    /\ \A j \in DOMAIN mine : content.tasks[key[j]] = mine[j]
    /\ content.edges =
          {<<Generated(e[1]), Generated(e[2])>> : e \in proposal.edges}
          \cup {<<key[e[1]], key[e[2]]>> :
                   e \in {d \in edges : {d[1], d[2]} \subseteq DOMAIN mine}}
    /\ content.milestones = [m \in DOMAIN proposal.milestones |->
                                {Generated(i) : i \in proposal.milestones[m]}]

LEMMA CarryOverIs ==
  ASSUME NEW proposal \in Proposals, NEW mine, NEW edges, IsFiniteSet(DOMAIN mine)
  PROVE  \E key : Remapped(CarryOver(Planned(proposal), mine, edges), proposal, mine, edges, key)
  <1> DEFINE own == DOMAIN mine
             names == {Carried(i) : i \in 1..Cardinality(own)}
             key == CHOOSE f \in [own -> names] : IsInjective(f)
             old(k) == CHOOSE j \in own : key[j] = k
             first == Planned(proposal).tasks
             all == [k \in DOMAIN first \cup Range(key) |->
                       IF k \in DOMAIN first THEN first[k] ELSE mine[old(k)]]
             joined == {<<key[e[1]], key[e[2]]>> : e \in {d \in edges : {d[1], d[2]} \subseteq DOMAIN mine}}
             planned == Planned(proposal)
             content == CarryOver(planned, mine, edges)
  <1>1. key \in [own -> names] /\ IsInjective(key)
    BY KeysOf
  <1>2. content = [planned EXCEPT !.tasks = all, !.edges = @ \cup joined]
    BY Zenon DEF CarryOver
  <1>3. DOMAIN planned = {"tasks", "edges", "milestones"}
    BY DEF Planned
  <1>4. /\ planned.edges = {<<Generated(e[1]), Generated(e[2])>> : e \in proposal.edges}
        /\ planned.milestones = [m \in DOMAIN proposal.milestones |->
                                    {Generated(i) : i \in proposal.milestones[m]}]
    BY DEF Planned
  <1>5. /\ DOMAIN first = {Generated(i) : i \in 1..proposal.size}
        /\ \A i \in 1..proposal.size : first[Generated(i)] = NewTask
    BY DEF Planned
  <1> HIDE DEF key, first, planned
  <1>6. \A j \in own : \E i : key[j] = Carried(i)
    BY <1>1
  <1>7. \A j \in own : key[j] \notin DOMAIN first
    BY <1>5, <1>6, KeysDiffer
  <1>8. \A a, b \in own : key[a] = key[b] => a = b
    BY <1>1 DEF IsInjective
  <1>9. DOMAIN key = own /\ Range(key) = {key[j] : j \in own}
    BY <1>1 DEF Range
  <1>10. \A j \in own : key[j] \in Range(key) /\ old(key[j]) = j
    BY <1>8, <1>9
  <1>11. /\ DOMAIN all = {Generated(i) : i \in 1..proposal.size} \cup {key[j] : j \in own}
         /\ \A i \in 1..proposal.size : all[Generated(i)] = NewTask
         /\ \A j \in own : all[key[j]] = mine[j]
    <2>1. DOMAIN all = DOMAIN first \cup Range(key)
      OBVIOUS
    <2>2. \A j \in own : all[key[j]] = mine[j]
      BY <1>7, <1>10
    <2>3. \A k \in DOMAIN first : all[k] = first[k]
      OBVIOUS
    <2> HIDE DEF all
    <2> QED
      BY <1>5, <1>9, <2>1, <2>2, <2>3
  <1> HIDE DEF all, joined
  <1>12. /\ content.tasks = all /\ content.edges = planned.edges \cup joined
         /\ content.milestones = planned.milestones
    BY <1>2, <1>3
  <1>13. content.edges = {<<Generated(e[1]), Generated(e[2])>> : e \in proposal.edges}
                         \cup {<<key[e[1]], key[e[2]]>> :
                                  e \in {d \in edges : {d[1], d[2]} \subseteq DOMAIN mine}}
    BY <1>4, <1>12 DEF joined
  <1> HIDE DEF content
  <1>14. Remapped(content, proposal, mine, edges, key)
    BY <1>4, <1>6, <1>8, <1>9, <1>11, <1>12, <1>13 DEF Remapped
  <1> QED
    BY <1>14 DEF content, planned

\* The numbers of the planner's keys have a bound.
Numbered(tasks) == \E n \in Nat : \A k \in tasks : k[1] = "T" => k[2] \in 0..n

\* The tasks a plan proposes and those carried over make one graph that can be
\* executed when both could.
LEMMA CarriedGraph ==
  ASSUME NEW proposal \in Proposals, NEW mine, NEW edges, IsFiniteSet(DOMAIN mine),
         NEW tasks, Grounded(tasks, edges), Paired(edges)
  PROVE  LET content == CarryOver(Planned(proposal), mine, edges)
         IN  /\ Grounded(DOMAIN content.tasks, content.edges) /\ Paired(content.edges)
             /\ Ordered(edges) => Ordered(content.edges)
             /\ Numbered(DOMAIN content.tasks)
             /\ \E any : content.milestones \in Seq(any)
             /\ \A k \in DOMAIN content.tasks :
                   \/ content.tasks[k] = NewTask
                   \/ \E j \in DOMAIN mine : content.tasks[k] = mine[j]
  <1> DEFINE content == CarryOver(Planned(proposal), mine, edges)
             numbers == 1..proposal.size
  <1>0. PICK key : Remapped(content, proposal, mine, edges, key)
    BY CarryOverIs
  <1> HIDE DEF content
  <1>1. /\ DOMAIN key = DOMAIN mine
        /\ \A j \in DOMAIN mine : \E i : key[j] = Carried(i)
        /\ \A a, b \in DOMAIN mine : key[a] = key[b] => a = b
        /\ DOMAIN content.tasks = {Generated(i) : i \in numbers} \cup {key[j] : j \in DOMAIN mine}
        /\ \A i \in numbers : content.tasks[Generated(i)] = NewTask
        /\ \A j \in DOMAIN mine : content.tasks[key[j]] = mine[j]
        /\ content.edges =
              {<<Generated(e[1]), Generated(e[2])>> : e \in proposal.edges}
              \cup {<<key[e[1]], key[e[2]]>> :
                       e \in {d \in edges : {d[1], d[2]} \subseteq DOMAIN mine}}
        /\ content.milestones = [m \in DOMAIN proposal.milestones |->
                                    {Generated(i) : i \in proposal.milestones[m]}]
    BY <1>0 DEF Remapped
  <1>2. /\ proposal.size \in Nat /\ Sound(numbers, proposal.edges)
        /\ proposal.edges \subseteq numbers \X numbers
        /\ proposal.milestones \in Seq(SUBSET numbers)
    BY PlanVersionsAssumption DEF PlanVersionsAssumption
  <1>3. Grounded(numbers, proposal.edges) /\ Ordered(proposal.edges) /\ Paired(proposal.edges)
    BY <1>2, SoundIsOrdered DEF Sound, Paired
  <1> HIDE DEF numbers
  <1> DEFINE kept == {d \in edges : {d[1], d[2]} \subseteq DOMAIN mine}
             old == {<<Generated(e[1]), Generated(e[2])>> : e \in proposal.edges}
             carried == {<<key[e[1]], key[e[2]]>> : e \in kept}
  <1>4. Grounded(DOMAIN content.tasks, content.edges)
    <2>1. ASSUME NEW d \in old PROVE {d[1], d[2]} \subseteq DOMAIN content.tasks /\ d[1] # d[2]
      <3>1. PICK e \in proposal.edges : d = <<Generated(e[1]), Generated(e[2])>>
        OBVIOUS
      <3>2. d[1] = Generated(e[1]) /\ d[2] = Generated(e[2])
        BY <3>1
      <3>3. e[1] \in numbers /\ e[2] \in numbers /\ e[1] # e[2]
        BY <1>3 DEF Grounded
      <3> QED
        BY <1>1, <3>2, <3>3, KeysDiffer
    <2>2. ASSUME NEW d \in carried PROVE {d[1], d[2]} \subseteq DOMAIN content.tasks /\ d[1] # d[2]
      <3>1. PICK e \in kept : d = <<key[e[1]], key[e[2]]>>
        OBVIOUS
      <3>2. d[1] = key[e[1]] /\ d[2] = key[e[2]]
        BY <3>1
      <3>3. e[1] \in DOMAIN mine /\ e[2] \in DOMAIN mine /\ e[1] # e[2]
        BY DEF Grounded
      <3> QED
        BY <1>1, <3>2, <3>3
    <2> HIDE DEF old, carried
    <2>3. content.edges = old \cup carried
      BY <1>1 DEF old, carried
    <2> QED
      BY <2>1, <2>2, <2>3 DEF Grounded
  <1>5. ASSUME Ordered(edges), NEW set, Stuck(content.edges, set) PROVE FALSE
    <2> DEFINE planned == {i \in numbers : Generated(i) \in set}
               own == {j \in DOMAIN mine : key[j] \in set}
    <2>1. ASSUME NEW q \in set
          PROVE  \/ \E e \in proposal.edges : q = Generated(e[2]) /\ Generated(e[1]) \in set
                 \/ \E e \in kept : q = key[e[2]] /\ key[e[1]] \in set
      <3>1. PICK p \in set : <<p, q>> \in old \cup carried
        BY <1>1, <1>5 DEF Stuck
      <3>2. CASE <<p, q>> \in old
        <4>1. PICK e \in proposal.edges : <<p, q>> = <<Generated(e[1]), Generated(e[2])>>
          BY <3>2
        <4> QED
          BY <4>1
      <3>3. CASE <<p, q>> \in carried
        <4>1. PICK e \in kept : <<p, q>> = <<key[e[1]], key[e[2]]>>
          BY <3>3
        <4> QED
          BY <4>1
      <3> QED
        BY <3>1, <3>2, <3>3
    <2>2. CASE planned # {}
      <3>1. ASSUME NEW i \in planned PROVE \E h \in planned : <<h, i>> \in proposal.edges
        <4>1. ~(\E e \in kept : Generated(i) = key[e[2]])
          BY <1>1, KeysDiffer
        <4>2. PICK e \in proposal.edges : Generated(i) = Generated(e[2]) /\ Generated(e[1]) \in set
          BY <2>1, <4>1
        <4>3. e[2] = i /\ e[1] \in planned /\ e = <<e[1], e[2]>>
          BY <1>3, <4>2, KeysDiffer DEF Grounded, Paired
        <4> QED
          BY <4>3
      <3>2. Stuck(proposal.edges, planned)
        BY <2>2, <3>1 DEF Stuck
      <3> QED
        BY <1>3, <3>2, NobodyIsStuck
    <2>3. CASE planned = {}
      <3>1. ASSUME NEW q \in set
            PROVE  \E e \in kept : q = key[e[2]] /\ key[e[1]] \in set
        <4>1. ~(\E e \in proposal.edges : q = Generated(e[2]) /\ Generated(e[1]) \in set)
          BY <1>3, <2>3 DEF Grounded
        <4> QED
          BY <2>1, <4>1
      <3>2. ASSUME NEW j \in own PROVE \E h \in own : <<h, j>> \in edges
        <4>1. PICK e \in kept : key[j] = key[e[2]] /\ key[e[1]] \in set
          BY <3>1
        <4>2. e[1] \in own /\ e[2] = j /\ e = <<e[1], e[2]>> /\ e \in edges
          BY <1>1, <4>1 DEF Paired
        <4> QED
          BY <4>2
      <3>3. own # {}
        <4>1. PICK q \in set : TRUE
          BY <1>5 DEF Stuck
        <4>2. PICK e \in kept : q = key[e[2]]
          BY <3>1
        <4> QED
          BY <4>2
      <3>4. Stuck(edges, own)
        BY <3>2, <3>3 DEF Stuck
      <3> QED
        BY <1>5, <3>4, NobodyIsStuck
    <2> QED
      BY <2>2, <2>3
  <1>6. Ordered(edges) => Ordered(content.edges)
    BY <1>5 DEF Ordered
  <1>7. Paired(content.edges)
    BY <1>1 DEF Paired
  <1>8. Numbered(DOMAIN content.tasks)
    <2>1. \A k \in DOMAIN content.tasks : k[1] = "T" => k[2] \in numbers
      BY <1>1, KeysDiffer
    <2> QED
      BY <1>2, <2>1 DEF Numbered, numbers
  <1>9. \E any : content.milestones \in Seq(any)
    <2> DEFINE named(m) == {Generated(i) : i \in proposal.milestones[m]}
               all == {named(m) : m \in 1..Len(proposal.milestones)}
    <2>1. Len(proposal.milestones) \in Nat
          /\ DOMAIN proposal.milestones = 1..Len(proposal.milestones)
      BY <1>2
    <2>2. content.milestones = [m \in 1..Len(proposal.milestones) |-> named(m)]
      BY <1>1, <2>1
    <2> HIDE DEF named
    <2>3. content.milestones \in Seq(all)
      BY <2>1, <2>2
    <2> QED
      BY <2>3
  <1>10. \A k \in DOMAIN content.tasks :
            \/ content.tasks[k] = NewTask
            \/ \E j \in DOMAIN mine : content.tasks[k] = mine[j]
    BY <1>1
  <1> QED
    BY <1>4, <1>6, <1>7, <1>8, <1>9, <1>10 DEF content

-----------------------------------------------------------------------------
(* Edits.                                                                  *)

LEMMA NextKeyIsNew ==
  ASSUME NEW plan, Numbered(Tasks(plan))
  PROVE  /\ NextKey(plan) \notin Tasks(plan)
         /\ NextKey(plan)[1] = "T" /\ NextKey(plan)[2] \in Nat
  <1> DEFINE set == {0} \cup {k[2] : k \in {j \in Tasks(plan) : j[1] = "T"}}
  <1>1. PICK n \in Nat : \A k \in Tasks(plan) : k[1] = "T" => k[2] \in 0..n
    BY DEF Numbered
  <1>2. set \in SUBSET Nat /\ set # {} /\ \A x \in set : x <= n
    BY <1>1
  <1>3. \A k \in Tasks(plan) : k[1] = "T" => k[2] \in set
    OBVIOUS
  <1>4. NextKey(plan) = Generated(1 + Max(set))
    BY DEF NextKey
  <1> HIDE DEF set
  <1>5. Max(set) \in Nat /\ \A x \in set : Max(set) >= x /\ x \in Nat
    BY <1>2, MaxIs
  <1>6. NextKey(plan)[1] = "T" /\ NextKey(plan)[2] = 1 + Max(set)
    BY <1>4, KeysDiffer
  <1>7. 1 + Max(set) \notin set
    BY <1>5
  <1> QED
    BY <1>3, <1>5, <1>6, <1>7

\* What an edit makes of the edges.
After(edges, e) ==
    IF e.op = "delete" THEN {d \in edges : e.key \notin {d[1], d[2]}}
    ELSE IF e.op = "touch" THEN edges
    ELSE (edges \ e.drop) \cup e.add

LEMMA EditedIs ==
  ASSUME NEW plan, NEW e, PlanFits(plan)
  PROVE  LET new == Edited(plan, e)
         IN  /\ new.edges = After(plan.edges, e)
             /\ new.milestones = plan.milestones /\ new.analysis = plan.analysis
             /\ new.wording \in {plan.wording, e.body}
             /\ Tasks(new) = IF e.op = "delete" THEN Tasks(plan) \ {e.key}
                             ELSE IF e.op = "touch" THEN Tasks(plan)
                             ELSE Tasks(plan) \cup {e.key}
             /\ \A k \in Tasks(new) : \/ new.tasks[k].body = e.body
                                      \/ k \in Tasks(plan) /\ new.tasks[k] = plan.tasks[k]
  <1> DEFINE new == Edited(plan, e)
  <1>1. DOMAIN plan = Columns
    BY DEF PlanFits
  <1>2. CASE e.op = "delete"
    <2> DEFINE kept == Restrict(plan.tasks, DOMAIN plan.tasks \ {e.key})
               left == {d \in plan.edges : e.key \notin {d[1], d[2]}}
    <2>1. new = [plan EXCEPT !.tasks = kept, !.edges = left]
      BY <1>2, Zenon DEF Edited
    <2>2. DOMAIN kept = Tasks(plan) \ {e.key} /\ \A k \in DOMAIN kept : kept[k] = plan.tasks[k]
      BY DEF Restrict, Tasks
    <2>3. left = After(plan.edges, e)
      BY <1>2 DEF After
    <2> HIDE DEF new, kept, left
    <2>4. /\ new.tasks = kept /\ new.edges = left /\ new.milestones = plan.milestones
          /\ new.analysis = plan.analysis /\ new.wording = plan.wording
      BY <1>1, <2>1 DEF Columns
    <2> QED
      BY <1>2, <2>2, <2>3, <2>4 DEF new, Tasks
  <1>3. CASE e.op = "touch"
    <2>1. new = [plan EXCEPT !.wording = e.body]
      BY <1>3 DEF Edited
    <2>2. plan.edges = After(plan.edges, e)
      BY <1>3 DEF After
    <2> HIDE DEF new
    <2>3. /\ new.tasks = plan.tasks /\ new.edges = plan.edges /\ new.milestones = plan.milestones
          /\ new.analysis = plan.analysis /\ new.wording = e.body
      BY <1>1, <2>1 DEF Columns
    <2> QED
      BY <1>3, <2>2, <2>3 DEF new, Tasks
  <1>4. CASE e.op # "delete" /\ e.op # "touch"
    <2> DEFINE kept == [k \in DOMAIN plan.tasks \cup {e.key} |->
                           IF k = e.key THEN [mine |-> TRUE, body |-> e.body] ELSE plan.tasks[k]]
               left == (plan.edges \ e.drop) \cup e.add
    <2>1. new = [plan EXCEPT !.tasks = kept, !.edges = left]
      BY <1>4, Zenon DEF Edited
    <2>2. /\ DOMAIN kept = Tasks(plan) \cup {e.key}
          /\ \A k \in DOMAIN kept : \/ kept[k].body = e.body
                                    \/ k \in Tasks(plan) /\ kept[k] = plan.tasks[k]
      BY DEF Tasks
    <2>3. left = After(plan.edges, e)
      BY <1>4 DEF After
    <2> HIDE DEF new, kept, left
    <2>4. /\ new.tasks = kept /\ new.edges = left /\ new.milestones = plan.milestones
          /\ new.analysis = plan.analysis /\ new.wording = plan.wording
      BY <1>1, <2>1 DEF Columns
    <2> QED
      BY <1>4, <2>2, <2>3, <2>4 DEF new, Tasks
  <1> QED
    BY <1>2, <1>3, <1>4

GoodEdit(e) ==
    /\ Paired(e.add) /\ \A d \in e.add : d[1] # d[2]
    /\ e.key[1] = "T" => e.key[2] \in Nat

LEMMA EditsAreGood ==
  ASSUME NEW plan, Numbered(Tasks(plan)), NEW e \in Edits(plan)
  PROVE  DOMAIN e = DOMAIN NoEdit /\ GoodEdit(e)
  <1>1. /\ DOMAIN NoEdit = {"op", "key", "body", "drop", "add"}
        /\ NoEdit.add = {} /\ NoEdit.key = <<"T", 0>>
    BY DEF NoEdit
  <1>2. \A k \in Tasks(plan) : k[1] = "T" => k[2] \in Nat
    BY DEF Numbered
  <1>3. ASSUME NEW on \in SUBSET Tasks(plan), NEW k, k \notin on
        PROVE  LET add == {<<p, k>> : p \in on} IN Paired(add) /\ \A d \in add : d[1] # d[2]
    BY <1>3 DEF Paired
  <1>4. CASE e \in Additions(plan)
    <2> DEFINE key == NextKey(plan)
    <2>1. key \notin Tasks(plan) /\ (key[1] = "T" => key[2] \in Nat)
      BY NextKeyIsNew
    <2>2. PICK on \in Lists(Tasks(plan)) :
             e = [NoEdit EXCEPT !.op = "add", !.key = key, !.add = {<<p, key>> : p \in on}]
      BY <1>4 DEF Additions
    <2> HIDE DEF key
    <2> DEFINE add == {<<p, key>> : p \in on}
    <2>3. Paired(add) /\ \A d \in add : d[1] # d[2]
      BY <1>3, <2>1 DEF Lists
    <2> HIDE DEF add
    <2>4. e.key = key /\ e.add = add /\ DOMAIN e = DOMAIN NoEdit
      BY <1>1, <2>2 DEF add
    <2> QED
      BY <2>1, <2>3, <2>4 DEF GoodEdit
  <1>5. ASSUME NEW k \in Tasks(plan), e \in Updates(plan, k)
        PROVE  DOMAIN e = DOMAIN NoEdit /\ GoodEdit(e)
    <2>1. CASE e = [NoEdit EXCEPT !.op = "update", !.key = k]
      <3>1. e.key = k /\ e.add = {} /\ DOMAIN e = DOMAIN NoEdit
        BY <1>1, <2>1
      <3> QED
        BY <1>2, <3>1 DEF GoodEdit, Paired
    <2>2. ASSUME NEW on \in Lists(Tasks(plan) \ {k}),
                 e = [NoEdit EXCEPT !.op = "update", !.key = k,
                                    !.drop = Into(plan, k), !.add = {<<p, k>> : p \in on}]
          PROVE  DOMAIN e = DOMAIN NoEdit /\ GoodEdit(e)
      <3> DEFINE add == {<<p, k>> : p \in on}
                 drop == Into(plan, k)
      <3>1. Paired(add) /\ \A d \in add : d[1] # d[2]
        BY <1>3 DEF Lists
      <3> HIDE DEF add, drop
      <3>2. e.key = k /\ e.add = add /\ DOMAIN e = DOMAIN NoEdit
        BY <1>1, <2>2 DEF add, drop
      <3> QED
        BY <1>2, <3>1, <3>2 DEF GoodEdit
    <2> QED
      BY <1>5, <2>1, <2>2 DEF Updates
  <1>6. CASE e \in Deletions(plan)
    <2>1. PICK k \in Tasks(plan) : e = [NoEdit EXCEPT !.op = "delete", !.key = k]
      BY <1>6 DEF Deletions
    <2>2. e.key = k /\ e.add = {} /\ DOMAIN e = DOMAIN NoEdit
      BY <1>1, <2>1
    <2> QED
      BY <1>2, <2>2 DEF GoodEdit, Paired
  <1>7. CASE e = [NoEdit EXCEPT !.op = "touch"]
    <2>1. e.key = <<"T", 0>> /\ e.add = {} /\ DOMAIN e = DOMAIN NoEdit
      BY <1>1, <1>7
    <2> QED
      BY <2>1 DEF GoodEdit, Paired
  <1>8. \/ e \in Additions(plan) \/ e \in Deletions(plan)
        \/ \E k \in Tasks(plan) : e \in Updates(plan, k)
        \/ e = [NoEdit EXCEPT !.op = "touch"]
    <2> DEFINE updates == UNION {Updates(plan, k) : k \in Tasks(plan)}
               touch == [NoEdit EXCEPT !.op = "touch"]
    <2>1. Edits(plan) = Additions(plan) \cup Deletions(plan) \cup {touch} \cup updates
      BY Zenon DEF Edits
    <2>2. e \in updates => \E k \in Tasks(plan) : e \in Updates(plan, k)
      OBVIOUS
    <2> HIDE DEF updates, touch
    <2>3. e = touch => e = [NoEdit EXCEPT !.op = "touch"]
      BY DEF touch
    <2>4. e \in Additions(plan) \cup Deletions(plan) \cup {touch} \cup updates
      BY <2>1
    <2> QED
      BY <2>2, <2>3, <2>4
  <1> QED
    BY <1>4, <1>5, <1>6, <1>7, <1>8

\* A version whose graph, texts and milestones are in order; n edits have been made.
WellMade(plan, n) ==
    /\ plan.analysis \in 1..MaxAnalyses
    /\ Grounded(Tasks(plan), plan.edges) /\ Paired(plan.edges)
    /\ Numbered(Tasks(plan))
    /\ plan.wording \in 0..n /\ \A k \in Tasks(plan) : plan.tasks[k].body \in 0..n
    /\ \E any : plan.milestones \in Seq(any)

LEMMA EditedIsWellMade ==
  ASSUME NEW plan, NEW e, NEW n \in Nat, PlanFits(plan), WellMade(plan, n),
         GoodEdit(e), Fits(plan, e), e.body \in 0..n
  PROVE  WellMade(Edited(plan, e), n)
  <1> DEFINE new == Edited(plan, e)
  <1>1. /\ new.edges = After(plan.edges, e)
        /\ new.milestones = plan.milestones /\ new.analysis = plan.analysis
        /\ new.wording \in {plan.wording, e.body}
        /\ Tasks(new) = IF e.op = "delete" THEN Tasks(plan) \ {e.key}
                        ELSE IF e.op = "touch" THEN Tasks(plan)
                        ELSE Tasks(plan) \cup {e.key}
        /\ \A k \in Tasks(new) : \/ new.tasks[k].body = e.body
                                 \/ k \in Tasks(plan) /\ new.tasks[k] = plan.tasks[k]
    BY EditedIs
  <1> HIDE DEF new
  <1>2. Grounded(Tasks(new), new.edges)
    <2>1. ASSUME NEW d \in new.edges PROVE {d[1], d[2]} \subseteq Tasks(new) /\ d[1] # d[2]
      <3>1. CASE d \in plan.edges /\ (e.op = "delete" => e.key \notin {d[1], d[2]})
        BY <1>1, <3>1 DEF WellMade, Grounded
      <3>2. CASE d \in e.add /\ e.op # "delete" /\ e.op # "touch"
        BY <1>1, <3>2 DEF GoodEdit, Fits
      <3> QED
        BY <1>1, <3>1, <3>2 DEF After
    <2> QED
      BY <2>1 DEF Grounded
  <1>3. Paired(new.edges)
    BY <1>1 DEF WellMade, GoodEdit, After, Paired
  <1>4. Numbered(Tasks(new))
    <2>1. PICK m \in Nat : \A k \in Tasks(plan) : k[1] = "T" => k[2] \in 0..m
      BY DEF WellMade, Numbered
    <2>2. CASE e.key[1] = "T"
      <3> DEFINE top == IF e.key[2] <= m THEN m ELSE e.key[2]
      <3>1. top \in Nat /\ m <= top /\ e.key[2] \in 0..top
        BY <2>2 DEF GoodEdit
      <3> HIDE DEF top
      <3>2. \A k \in Tasks(new) : k[1] = "T" => k[2] \in 0..top
        BY <1>1, <2>1, <3>1
      <3> QED
        BY <3>1, <3>2 DEF Numbered
    <2>3. CASE e.key[1] # "T"
      <3>1. \A k \in Tasks(new) : k[1] = "T" => k[2] \in 0..m
        BY <1>1, <2>1, <2>3
      <3> QED
        BY <3>1 DEF Numbered
    <2> QED
      BY <2>2, <2>3
  <1>5. new.wording \in 0..n /\ \A k \in Tasks(new) : new.tasks[k].body \in 0..n
    BY <1>1 DEF WellMade
  <1>6. new.analysis \in 1..MaxAnalyses /\ \E any : new.milestones \in Seq(any)
    BY <1>1 DEF WellMade
  <1> QED
    BY <1>2, <1>3, <1>4, <1>5, <1>6 DEF WellMade, new

-----------------------------------------------------------------------------
(* The graphs that are stored and those that are about to be.              *)

\* A request: `last` versions are stored, n edits have begun, and the versions in
\* `behind` were changed behind an edit's back.
Prepared(me, last, n, behind) ==
    /\ me.version \in 0..last
    /\ me.edit.body \in 0..n
    /\ me.pc = "asked" =>
          /\ me.basis \in 1..MaxAnalyses
          /\ \A k \in DOMAIN me.mine : me.mine[k].body \in 0..n
    /\ me.pc = "persisted" =>
          /\ WellMade(me.plan[2], n)
          /\ me.version \notin behind => Ordered(me.plan[2].edges)
          /\ me.run = "none" => /\ Divides(me.plan[2].milestones, Tasks(me.plan[2]))
                                /\ Len(me.plan[2].milestones) <= MaxMilestones
    /\ me.pc = "edited" => GoodEdit(me.edit) /\ Ordered(After(me.edges, me.edit))

\* The analyses of the assignment, as they stand.
Standing == {"current", "changed", "flagged"}
AnalysesFit(list) == list \in Seq(Standing) /\ Len(list) <= MaxAnalyses

SoundInv ==
    /\ served \in 0..MaxRequests /\ AnalysesFit(analyses)
    /\ raced \subseteq DOMAIN plans /\ moved \subseteq Sessions
    /\ runs \subseteq [key : Keys \cup {NoKey}, status : {"SUCCEEDED", "FAILED", "RUNNING"}]
    /\ \A v \in DOMAIN plans : WellMade(plans[v], served)
    /\ \A v \in DOMAIN plans \ raced : Ordered(plans[v].edges)
    /\ \A s \in Sessions : Prepared(sess[s], Latest, served, raced)

LEMMA Bounds ==
  /\ MaxRequests \in Nat /\ MaxAnalyses \in Nat
  BY PlanVersionsAssumption DEF PlanVersionsAssumption

LEMMA AnalysisIs ==
  ASSUME SoundInv
  PROVE  /\ DOMAIN analyses \subseteq 1..MaxAnalyses
         /\ LatestAnalysis > 0 => LatestAnalysis \in 1..MaxAnalyses
  BY Bounds DEF SoundInv, AnalysesFit, LatestAnalysis

LEMMA LatestIs ==
  ASSUME PlanInv
  PROVE  Latest \in Nat /\ DOMAIN plans = 1..Latest
  <1>1. PICK any : plans \in Seq(any)
    BY DEF PlanInv, StoredInv
  <1> QED
    BY <1>1 DEF Latest

LEMMA StillWellMade ==
  ASSUME NEW plan, NEW n \in Nat, NEW m \in Nat, n <= m, WellMade(plan, n)
  PROVE  WellMade(plan, m)
  <1>1. \A x \in 0..n : x \in 0..m
    OBVIOUS
  <1> QED
    BY <1>1 DEF WellMade

LEMMA StillPrepared ==
  ASSUME NEW me, NEW last \in Nat, NEW more \in Nat, NEW n \in Nat, NEW m \in Nat,
         NEW behind, NEW further, last <= more, n <= m, behind \subseteq further,
         Prepared(me, last, n, behind)
  PROVE  Prepared(me, more, m, further)
  <1>1. (\A x \in 0..n : x \in 0..m) /\ (\A x \in 0..last : x \in 0..more)
    OBVIOUS
  <1>2. me.pc = "persisted" => WellMade(me.plan[2], m)
    BY StillWellMade DEF Prepared
  <1> QED
    BY <1>1, <1>2 DEF Prepared

LEMMA RestIsPrepared ==
  ASSUME NEW last \in Nat, NEW n \in Nat, NEW behind
  PROVE  Prepared(Rest, last, n, behind)
  <1>1. Rest.version = 0 /\ Rest.edit.body = 0 /\ Rest.pc = "idle"
    BY DEF Rest, NoEdit
  <1> QED
    BY <1>1 DEF Prepared

LEMMA BeginningPrepares ==
  ASSUME PlanInv, SoundInv, NEW s \in Sessions, Begin(s),
         NEW r, sess' = [sess EXCEPT ![s] = r], Prepared(r, Latest, served + 1, raced),
         UNCHANGED <<plans, runs, analyses, raced>>, moved' \subseteq moved
  PROVE  SoundInv'
  <1>1. /\ served' = served + 1 /\ served \in Nat /\ served' \in 0..MaxRequests
        /\ Latest' = Latest /\ Latest \in Nat
    BY Bounds, LatestIs DEF Begin, SoundInv, Latest
  <1>2. sess'[s] = r /\ \A t \in Sessions \ {s} : sess'[t] = sess[t]
    BY DEF PlanInv, SessInv
  <1>3. \A t \in Sessions : Prepared(sess[t], Latest, served', raced)
    BY <1>1, StillPrepared DEF SoundInv
  <1>4. \A t \in Sessions : Prepared(sess'[t], Latest', served', raced')
    BY <1>1, <1>2, <1>3
  <1>5. \A v \in DOMAIN plans : WellMade(plans[v], served')
    BY <1>1, StillWellMade DEF SoundInv
  <1> QED
    BY <1>1, <1>4, <1>5 DEF SoundInv

LEMMA AskPrepares ==
  ASSUME PlanInv, SoundInv, NEW s \in Sessions, NEW key, NEW force,
         Generate(s, key, force) \/ Regenerate(s, key, force)
  PROVE  SoundInv'
  <1>1. PICK basis, mine, owed, version :
          /\ Ask(s, RequestKey(key, force), basis, version, mine, owed)
          /\ version \in 0..Latest /\ basis \in 1..MaxAnalyses
          /\ \A k \in DOMAIN mine : mine[k].body \in 0..served
    <2>1. CASE Generate(s, key, force)
      <3>1. PICK basis \in DOMAIN analyses : Ask(s, RequestKey(key, force), basis, 0, Nothing, {})
        BY <2>1 DEF Generate
      <3>2. DOMAIN Nothing = {}
        BY DEF Nothing
      <3>3. basis \in 1..MaxAnalyses
        BY <3>1, AnalysisIs
      <3> QED
        BY <3>1, <3>2, <3>3, LatestIs
    <2>2. CASE Regenerate(s, key, force)
      <3> DEFINE plan == plans[Latest]
      <3>1. /\ Latest > 0
            /\ Ask(s, RequestKey(key, force), LatestAnalysis, Latest, Preserved(plan), Written(plan))
        BY <2>2 DEF Regenerate
      <3>2. Latest \in DOMAIN plans
        BY <3>1, LatestIs
      <3>3. /\ DOMAIN Preserved(plan) \subseteq Tasks(plan)
            /\ \A k \in DOMAIN Preserved(plan) : Preserved(plan)[k] = plan.tasks[k]
        BY DEF Preserved, Restrict, Mine, Tasks
      <3>4. \A k \in Tasks(plan) : plan.tasks[k].body \in 0..served
        BY <3>2 DEF SoundInv, WellMade
      <3> HIDE DEF plan
      <3>5. \A k \in DOMAIN Preserved(plan) : Preserved(plan)[k].body \in 0..served
        BY <3>3, <3>4
      <3>6. LatestAnalysis \in 1..MaxAnalyses
        BY <3>1, AnalysisIs DEF Ask
      <3> QED
        BY <3>1, <3>5, <3>6, LatestIs
    <2> QED
      BY <2>1, <2>2
  <1> DEFINE r == [Rest EXCEPT !.pc = "asked", !.key = RequestKey(key, force), !.basis = basis,
                               !.version = version, !.mine = mine, !.owed = owed]
  <1>2. /\ sess' = [sess EXCEPT ![s] = r] /\ UNCHANGED <<plans, runs, analyses, raced>>
        /\ moved' \subseteq moved /\ Begin(s)
    BY <1>1 DEF Ask
  <1>3. /\ r.pc = "asked" /\ r.mine = mine /\ r.version = version /\ r.basis = basis
        /\ r.edit.body = 0
    BY RestFields DEF Rest, NoEdit
  <1> HIDE DEF r
  <1>4. served \in Nat
    BY Bounds DEF SoundInv
  <1>5. \A k \in DOMAIN mine : mine[k].body \in 0..(served + 1)
    BY <1>1, <1>4
  <1>6. Prepared(r, Latest, served + 1, raced)
    BY <1>1, <1>3, <1>4, <1>5 DEF Prepared
  <1> QED
    BY <1>2, <1>6, BeginningPrepares

LEMMA RederivePrepares ==
  ASSUME PlanInv, SoundInv, NEW s \in Sessions, Rederive(s) PROVE SoundInv'
  <1> DEFINE base == plans[Latest]
             layers == Folded(Layers(base))
             copy == [base EXCEPT !.milestones = layers]
             plan == Version(copy, base.analysis, NoKey)
             r == [Rest EXCEPT !.pc = "persisted", !.version = Latest, !.owed = Written(base),
                               !.plan = <<NextVersion, plan>>]
  <1>1. /\ sess' = [sess EXCEPT ![s] = r] /\ UNCHANGED <<plans, runs, analyses, raced>>
        /\ Latest > 0 /\ Begin(s) /\ moved' \subseteq moved
    BY DEF Rederive
  <1>2. Latest \in DOMAIN plans /\ Latest \in Nat
    BY <1>1, LatestIs
  <1>3. DOMAIN base = Columns /\ WellMade(base, served)
    BY <1>2 DEF PlanInv, StoredInv, PlanFits, SoundInv
  <1>4. Divides(layers, Tasks(base)) /\ Len(layers) <= MaxMilestones
    BY <1>3, LayersDivide, FoldedDivides DEF WellMade
  <1>5. Latest \notin raced => Ordered(base.edges)
    BY <1>2 DEF SoundInv
  <1> HIDE DEF layers, base
  <1>6. copy.tasks = base.tasks /\ copy.edges = base.edges /\ copy.milestones = layers
    BY <1>3 DEF Columns
  <1> HIDE DEF copy
  <1>7. /\ plan.tasks = base.tasks /\ plan.edges = base.edges /\ plan.milestones = layers
        /\ plan.analysis = base.analysis /\ plan.wording = 0
    BY <1>6 DEF Version
  <1> HIDE DEF plan
  <1>8. served \in Nat
    BY Bounds DEF SoundInv
  <1>9. WellMade(plan, served)
    BY <1>3, <1>4, <1>7, <1>8 DEF WellMade, Tasks, Divides
  <1>10. WellMade(plan, served + 1)
    BY <1>8, <1>9, StillWellMade
  <1>11. /\ r.pc = "persisted" /\ r.version = Latest /\ r.plan[2] = plan /\ r.edit.body = 0
    BY DEF Rest, NoEdit
  <1> HIDE DEF r
  <1>12. Tasks(plan) = Tasks(base)
    BY <1>7 DEF Tasks
  <1>13. Prepared(r, Latest, served + 1, raced)
    BY <1>2, <1>4, <1>5, <1>7, <1>8, <1>10, <1>11, <1>12 DEF Prepared
  <1> QED
    BY <1>1, <1>13, BeginningPrepares

LEMMA LastEditIs ==
  ASSUME SoundInv
  PROVE  LastEdit \in 0..served
  <1> DEFINE sofar == {sess[s].edit.body : s \in Sessions}
             texts(v) == {plans[v].wording} \cup {plans[v].tasks[k].body : k \in Tasks(plans[v])}
             stored == UNION {texts(v) : v \in DOMAIN plans}
             set == {0} \cup sofar \cup stored
  <1>1. served \in Nat
    BY Bounds DEF SoundInv
  <1>2. sofar \subseteq 0..served
    BY DEF SoundInv, Prepared
  <1>3. \A v \in DOMAIN plans : texts(v) \subseteq 0..served
    BY DEF SoundInv, WellMade
  <1>4. LastEdit = Max(set)
    BY DEF LastEdit
  <1> HIDE DEF sofar, texts
  <1>5. stored \subseteq 0..served
    BY <1>3
  <1> HIDE DEF stored
  <1>6. set \in SUBSET Nat /\ set # {} /\ \A x \in set : x <= served
    BY <1>1, <1>2, <1>5
  <1>7. Max(set) \in set
    BY <1>1, <1>6, MaxIs
  <1> QED
    BY <1>1, <1>4, <1>6, <1>7

LEMMA OpeningPrepares ==
  ASSUME PlanInv, SoundInv, NEW s \in Sessions, NEW v \in DOMAIN plans,
         Agree(s, v) \/ \E e \in Edits(plans[v]) : Edit(s, v, e)
  PROVE  SoundInv'
  <1>1. served \in Nat /\ v \in 0..Latest
    BY Bounds, LatestIs DEF SoundInv
  <1>2. CASE Agree(s, v)
    <2> DEFINE r == [Rest EXCEPT !.pc = "agreed", !.version = v]
    <2>1. r.pc = "agreed" /\ r.version = v /\ r.edit.body = 0
      BY DEF Rest, NoEdit
    <2>2. /\ sess' = [sess EXCEPT ![s] = r] /\ UNCHANGED <<plans, runs, analyses, raced>>
          /\ moved' \subseteq moved /\ Begin(s)
      BY <1>2 DEF Agree
    <2> HIDE DEF r
    <2>3. Prepared(r, Latest, served + 1, raced)
      BY <1>1, <2>1 DEF Prepared
    <2> QED
      BY <2>2, <2>3, BeginningPrepares
  <1>3. ASSUME NEW e \in Edits(plans[v]), Edit(s, v, e) PROVE SoundInv'
    <2> DEFINE edit == [e EXCEPT !.body = LastEdit + 1]
               r == [Rest EXCEPT !.pc = "edited", !.version = v, !.edit = edit,
                                 !.status = plans[v].status, !.edges = plans[v].edges]
    <2>1. /\ sess' = [sess EXCEPT ![s] = r] /\ Begin(s) /\ Validated(plans[v], edit)
          /\ UNCHANGED <<plans, runs, analyses, raced, moved>>
      BY <1>3, Zenon DEF Edit
    <2>2. PlanFits(plans[v]) /\ Numbered(Tasks(plans[v]))
      BY DEF PlanInv, StoredInv, SoundInv, WellMade
    <2>3. DOMAIN e = DOMAIN NoEdit /\ GoodEdit(e)
      BY <2>2, EditsAreGood
    <2>4. edit.key = e.key /\ edit.add = e.add /\ edit.body = LastEdit + 1
      BY <2>3 DEF NoEdit
    <2> HIDE DEF edit
    <2>5. GoodEdit(edit) /\ edit.body \in 0..(served + 1)
      BY <1>1, <2>3, <2>4, LastEditIs DEF GoodEdit
    <2>6. Ordered(After(plans[v].edges, edit))
      <3>1. Edited(plans[v], edit).edges = After(plans[v].edges, edit)
        BY <2>2, EditedIs
      <3> QED
        BY <2>1, <3>1, SoundIsOrdered DEF Validated, Sound
    <2>7. r.pc = "edited" /\ r.version = v /\ r.edit = edit /\ r.edges = plans[v].edges
      BY RestFields
    <2> HIDE DEF r
    <2>8. Prepared(r, Latest, served + 1, raced)
      BY <1>1, <2>5, <2>6, <2>7 DEF Prepared
    <2> QED
      BY <2>1, <2>8, BeginningPrepares
  <1> QED
    BY <1>2, <1>3

LEMMA AnsweredPrepares ==
  ASSUME PlanInv, OwedInv, SoundInv, NEW s \in Sessions,
         Refuse(s) \/ \E proposal \in Proposals : Answer(s, proposal)
  PROVE  SoundInv'
  <1> DEFINE me == sess[s]
  <1>1. /\ me.pc = "asked"
        /\ UNCHANGED <<plans, runs, analyses, moved, served, raced>>
        /\ \A t \in Sessions \ {s} : sess'[t] = sess[t]
        /\ sess'[s].version = me.version /\ sess'[s].edit = me.edit
        /\ \/ sess'[s].pc = "refused"
           \/ /\ sess'[s].pc = "persisted" /\ sess'[s].run \in {"SUCCEEDED", "RUNNING"}
              /\ \E proposal \in Proposals :
                     sess'[s].plan[2] =
                         Version(CarryOver(Planned(proposal), me.mine, CarriedEdges(s)), me.basis, me.key)
    BY AnsweredIs
  <1>2. /\ IsFiniteSet(DOMAIN me.mine) /\ me.basis \in 1..MaxAnalyses
        /\ \A k \in DOMAIN me.mine : me.mine[k].body \in 0..served
        /\ me.version \in 0..Latest
    BY <1>1 DEF OwedInv, KeepsOwed, SoundInv, Prepared
  <1>3. \E tasks : /\ Grounded(tasks, CarriedEdges(s)) /\ Paired(CarriedEdges(s))
                   /\ me.version \notin raced => Ordered(CarriedEdges(s))
    <2>1. CASE me.version = 0
      <3>1. CarriedEdges(s) = {}
        BY <2>1 DEF CarriedEdges
      <3>2. Grounded({}, {}) /\ Paired({}) /\ Ordered({})
        BY DEF Grounded, Paired, Ordered, Stuck
      <3> QED
        BY <3>1, <3>2
    <2>2. CASE me.version # 0
      <3>1. me.version \in DOMAIN plans /\ CarriedEdges(s) = plans[me.version].edges
        BY <1>2, <2>2, LatestIs DEF CarriedEdges
      <3> QED
        BY <3>1 DEF SoundInv, WellMade
    <2> QED
      BY <2>1, <2>2
  <1>4. ASSUME NEW proposal \in Proposals, sess'[s].pc = "persisted",
               sess'[s].run \in {"SUCCEEDED", "RUNNING"},
               sess'[s].plan[2] =
                   Version(CarryOver(Planned(proposal), me.mine, CarriedEdges(s)), me.basis, me.key)
        PROVE  Prepared(sess'[s], Latest, served, raced)
    <2> DEFINE content == CarryOver(Planned(proposal), me.mine, CarriedEdges(s))
               plan == sess'[s].plan[2]
    <2>1. PICK tasks : /\ Grounded(tasks, CarriedEdges(s)) /\ Paired(CarriedEdges(s))
                       /\ me.version \notin raced => Ordered(CarriedEdges(s))
      BY <1>3
    <2>2. /\ Grounded(DOMAIN content.tasks, content.edges) /\ Paired(content.edges)
          /\ Ordered(CarriedEdges(s)) => Ordered(content.edges)
          /\ Numbered(DOMAIN content.tasks)
          /\ \E any : content.milestones \in Seq(any)
          /\ \A k \in DOMAIN content.tasks :
                \/ content.tasks[k] = NewTask
                \/ \E j \in DOMAIN me.mine : content.tasks[k] = me.mine[j]
      BY <1>2, <2>1, CarriedGraph
    <2> HIDE DEF content
    <2>3. /\ plan.tasks = content.tasks /\ plan.edges = content.edges
          /\ plan.milestones = content.milestones /\ plan.analysis = me.basis /\ plan.wording = 0
      BY <1>4 DEF Version, content
    <2>4. served \in Nat /\ NewTask.body = 0
      BY Bounds DEF SoundInv, NewTask
    <2> HIDE DEF me, plan
    <2>5. \A k \in DOMAIN content.tasks : content.tasks[k].body \in 0..served
      BY <1>2, <2>2, <2>4
    <2>6. WellMade(plan, served)
      BY <1>2, <2>2, <2>3, <2>4, <2>5 DEF WellMade, Tasks
    <2>7. me.version \notin raced => Ordered(plan.edges)
      BY <2>1, <2>2, <2>3
    <2>8. me.edit.body \in 0..served
      BY DEF SoundInv, Prepared, me
    <2> QED
      BY <1>1, <1>2, <1>4, <2>6, <2>7, <2>8 DEF Prepared, plan
  <1>5. sess'[s].pc = "refused" => Prepared(sess'[s], Latest, served, raced)
    BY <1>1 DEF SoundInv, Prepared
  <1>6. Prepared(sess'[s], Latest, served, raced)
    BY <1>1, <1>4, <1>5
  <1>7. Latest' = Latest
    BY <1>1 DEF Latest
  <1> HIDE DEF me
  <1>8. \A t \in Sessions : Prepared(sess'[t], Latest', served', raced')
    BY <1>1, <1>6, <1>7 DEF SoundInv
  <1> QED
    BY <1>1, <1>8 DEF SoundInv

LEMMA EndingPrepares ==
  ASSUME PlanInv, SoundInv, NEW s \in Sessions, End(s), served' = served,
         Latest' \in Nat, Latest <= Latest', raced \subseteq raced'
  PROVE  \A t \in Sessions : Prepared(sess'[t], Latest', served', raced')
  <1>1. sess'[s] = Rest /\ \A t \in Sessions \ {s} : sess'[t] = sess[t]
    BY DEF PlanInv, SessInv, End
  <1>2. Latest \in Nat /\ served \in Nat
    BY Bounds, LatestIs DEF SoundInv
  <1>3. \A t \in Sessions : Prepared(sess[t], Latest', served', raced')
    BY <1>2, StillPrepared DEF SoundInv
  <1> QED
    BY <1>1, <1>2, <1>3, RestIsPrepared

LEMMA FinishedFits ==
  ASSUME PlanInv, NEW s \in Sessions, CommitRefusal(s) \/ CommitPlan(s)
  PROVE  Finished(s) \subseteq [key : Keys \cup {NoKey}, status : {"SUCCEEDED", "FAILED", "RUNNING"}]
  <1>1. SessionFits(sess[s], plans, runs) /\ sess[s].pc \in {"refused", "persisted"}
    BY DEF PlanInv, SessInv, CommitRefusal, CommitPlan, At
  <1>2. /\ sess[s].key \in Keys \cup {NoKey}
        /\ sess[s].run \in {"SUCCEEDED", "FAILED", "RUNNING"} \/ sess[s].key = NoKey
    BY <1>1 DEF SessionFits, Asking
  <1> QED
    BY <1>2 DEF Finished

LEMMA LeavingPrepares ==
  ASSUME PlanInv, SoundInv, NEW s \in Sessions,
         VersionTaken(s) \/ EditConflict(s) \/ Abandon(s) \/ CommitRefusal(s)
  PROVE  SoundInv'
  <1>1. /\ End(s) /\ UNCHANGED <<served, plans, analyses, raced, moved>>
        /\ runs' = runs \/ (CommitRefusal(s) /\ runs' = runs \cup Finished(s))
    BY DEF VersionTaken, EditConflict, Abandon, CommitRefusal
  <1>2. Latest' = Latest /\ Latest \in Nat
    BY <1>1, LatestIs DEF Latest
  <1>3. \A t \in Sessions : Prepared(sess'[t], Latest', served', raced')
    BY <1>1, <1>2, EndingPrepares
  <1>4. runs' \subseteq [key : Keys \cup {NoKey}, status : {"SUCCEEDED", "FAILED", "RUNNING"}]
    BY <1>1, FinishedFits DEF SoundInv
  <1> QED
    BY <1>1, <1>3, <1>4 DEF SoundInv

LEMMA CommitPlanPrepares ==
  ASSUME PlanInv, SoundInv, NEW s \in Sessions, CommitPlan(s)
  PROVE  SoundInv'
  <1> DEFINE me == sess[s]
             plan == sess[s].plan[2]
             n == Latest + 1
  <1>1. /\ me.pc = "persisted" /\ plans' = Append(plans, plan) /\ runs' = runs \cup Finished(s)
        /\ raced' = raced \cup IF me.version \in raced THEN {n} ELSE {}
        /\ End(s) /\ UNCHANGED <<served, analyses, moved>>
    BY DEF CommitPlan, At, NextVersion
  <1>2. /\ Latest \in Nat /\ DOMAIN plans' = DOMAIN plans \cup {n} /\ n \notin DOMAIN plans
        /\ plans'[n] = plan /\ \A v \in DOMAIN plans : plans'[v] = plans[v]
        /\ Latest' = n
    BY <1>1, OneMore DEF PlanInv, Latest
  <1>3. WellMade(plan, served) /\ (me.version \notin raced => Ordered(plan.edges))
    BY <1>1 DEF SoundInv, Prepared
  <1> HIDE DEF me, plan, n
  <1>4. \A t \in Sessions : Prepared(sess'[t], Latest', served', raced')
    <2>1. Latest' \in Nat /\ Latest <= Latest' /\ raced \subseteq raced'
      BY <1>1, <1>2 DEF n
    <2> QED
      BY <1>1, <2>1, EndingPrepares
  <1>5. runs' \subseteq [key : Keys \cup {NoKey}, status : {"SUCCEEDED", "FAILED", "RUNNING"}]
    BY <1>1, FinishedFits DEF SoundInv
  <1>6. \A v \in DOMAIN plans' : WellMade(plans'[v], served')
    BY <1>1, <1>2, <1>3 DEF SoundInv
  <1>7. \A v \in DOMAIN plans' \ raced' : Ordered(plans'[v].edges)
    BY <1>1, <1>2, <1>3 DEF SoundInv
  <1>8. raced' \subseteq DOMAIN plans'
    BY <1>1, <1>2 DEF SoundInv
  <1> QED
    BY <1>1, <1>4, <1>5, <1>6, <1>7, <1>8 DEF SoundInv

LEMMA ChangingPrepares ==
  ASSUME PlanInv, SoundInv, NEW s \in Sessions, CommitEdit(s) \/ CommitApproval(s)
  PROVE  SoundInv'
  <1> DEFINE me == sess[s]
             v == me.version
  <1>1. SessionFits(me, plans, runs) /\ Prepared(me, Latest, served, raced)
    BY DEF PlanInv, SessInv, SoundInv
  <1>2. v \in DOMAIN plans
    BY <1>1 DEF CommitEdit, CommitApproval, At, SessionFits
  <1>3. PlanFits(plans[v]) /\ WellMade(plans[v], served) /\ served \in Nat
    BY <1>2, Bounds DEF PlanInv, StoredInv, SoundInv
  <1>4. ASSUME NEW plan, plans' = [plans EXCEPT ![v] = plan], WellMade(plan, served),
               End(s), UNCHANGED <<served, runs, analyses, moved>>,
               raced \subseteq raced', raced' \subseteq DOMAIN plans,
               v \notin raced' => Ordered(plan.edges)
        PROVE  SoundInv'
    <2>1. DOMAIN plans' = DOMAIN plans /\ \A w \in DOMAIN plans : plans'[w] = IF w = v THEN plan ELSE plans[w]
      BY <1>4
    <2>2. Latest' = Latest /\ Latest \in Nat
      <3>1. PICK any : plans \in Seq(any)
        BY DEF PlanInv, StoredInv
      <3>2. plans \in Seq(any \cup {plan}) /\ plan \in any \cup {plan}
        BY <3>1
      <3> QED
        BY <1>2, <1>4, <3>2, LatestIs DEF Latest
    <2>3. \A t \in Sessions : Prepared(sess'[t], Latest', served', raced')
      BY <1>4, <2>2, EndingPrepares
    <2>4. \A w \in DOMAIN plans' : WellMade(plans'[w], served')
      BY <1>4, <2>1 DEF SoundInv
    <2>5. \A w \in DOMAIN plans' \ raced' : Ordered(plans'[w].edges)
      BY <1>4, <2>1 DEF SoundInv
    <2> QED
      BY <1>4, <2>1, <2>3, <2>4, <2>5 DEF SoundInv
  <1>5. CASE CommitEdit(s)
    <2> DEFINE e == me.edit
               plan == Edited(plans[v], e)
    <2>1. /\ me.pc = "edited" /\ Fits(plans[v], e) /\ plans' = [plans EXCEPT ![v] = plan]
          /\ raced' = raced \cup IF plans[v].edges # me.edges THEN {v} ELSE {}
          /\ End(s) /\ UNCHANGED <<served, runs, analyses, moved>>
      BY <1>5 DEF CommitEdit, At
    <2>2. GoodEdit(e) /\ Ordered(After(me.edges, e)) /\ e.body \in 0..served
      BY <1>1, <2>1 DEF Prepared
    <2>3. WellMade(plan, served)
      BY <1>3, <2>1, <2>2, EditedIsWellMade
    <2>4. plan.edges = After(plans[v].edges, e)
      BY <1>3, EditedIs
    <2> HIDE DEF e, plan, me
    <2>5. v \notin raced' => Ordered(plan.edges)
      BY <2>1, <2>2, <2>4
    <2>6. raced \subseteq raced' /\ raced' \subseteq DOMAIN plans
      BY <1>2, <2>1 DEF SoundInv
    <2> QED
      BY <1>4, <2>1, <2>3, <2>5, <2>6
  <1>6. CASE CommitApproval(s)
    <2> DEFINE plan == [plans[v] EXCEPT !.status = "APPROVED"]
    <2>1. /\ plans' = [plans EXCEPT ![v] = plan] /\ End(s)
          /\ UNCHANGED <<served, runs, analyses, raced, moved>>
      BY <1>6 DEF CommitApproval
    <2>2. /\ plan.tasks = plans[v].tasks /\ plan.edges = plans[v].edges
          /\ plan.milestones = plans[v].milestones /\ plan.wording = plans[v].wording
          /\ plan.analysis = plans[v].analysis
      BY <1>3 DEF PlanFits, Columns
    <2> HIDE DEF plan
    <2>3. WellMade(plan, served)
      BY <1>3, <2>2 DEF WellMade, Tasks
    <2>4. v \notin raced' => Ordered(plan.edges)
      BY <1>2, <2>1, <2>2 DEF SoundInv
    <2>5. raced \subseteq raced' /\ raced' \subseteq DOMAIN plans
      BY <2>1 DEF SoundInv
    <2> QED
      BY <1>4, <2>1, <2>3, <2>4, <2>5
  <1> QED
    BY <1>5, <1>6

LEMMA MarkedFits ==
  ASSUME AnalysesFit(analyses), NEW seen, NEW same
  PROVE  Marked(seen, same) \in Seq(Standing) /\ Len(Marked(seen, same)) = Len(analyses)
  <1> DEFINE marks == Marked(seen, same)
  <1>1. Len(analyses) \in Nat /\ DOMAIN analyses = 1..Len(analyses)
    BY DEF AnalysesFit
  <1>2. \A a \in DOMAIN analyses : analyses[a] \in Standing
    BY DEF AnalysesFit
  <1>3. marks = [a \in 1..Len(analyses) |-> marks[a]]
    BY <1>1 DEF Marked
  <1>4. \A a \in 1..Len(analyses) : marks[a] \in Standing
    BY <1>1, <1>2 DEF Marked, Standing
  <1> HIDE DEF marks
  <1>5. marks \in [1..Len(analyses) -> Standing]
    BY <1>3, <1>4
  <1> QED
    BY <1>1, <1>5 DEF marks

\* A request of the analysis component, or an edit of the brief.
LEMMA AnalysesStep ==
  ASSUME PlanInv, SoundInv, Analysed \/ BriefEdited PROVE SoundInv'
  <1>1. /\ served < MaxRequests /\ served' = served + 1 /\ moved' \subseteq Sessions
        /\ UNCHANGED <<plans, runs, sess, raced>>
    BY DEF Analysed, BriefEdited, Open, SoundInv
  <1>2. AnalysesFit(analyses')
    <2>1. CASE Analysed
      <3>1. PICK seen \in 0..LatestAnalysis, read \in {"current", "changed"},
                 same \in SUBSET DOMAIN analyses :
              \/ analyses' = Marked(seen, same)
              \/ /\ LatestAnalysis < MaxAnalyses
                 /\ analyses' = Append(Marked(seen, same), read)
        BY <2>1 DEF Analysed
      <3> DEFINE marks == Marked(seen, same)
      <3>2. marks \in Seq(Standing) /\ Len(marks) = Len(analyses) /\ read \in Standing
        BY MarkedFits DEF SoundInv, Standing
      <3>3. Len(analyses) \in Nat /\ Len(analyses) <= MaxAnalyses
        BY DEF SoundInv, AnalysesFit
      <3> HIDE DEF marks, Standing
      <3>4. CASE analyses' = marks
        BY <3>2, <3>3, <3>4 DEF AnalysesFit
      <3>5. CASE LatestAnalysis < MaxAnalyses /\ analyses' = Append(marks, read)
        <4>1. Append(marks, read) \in Seq(Standing) /\ Len(Append(marks, read)) = Len(marks) + 1
          BY <3>2
        <4> QED
          BY <4>1, <3>2, <3>3, <3>5, Bounds DEF AnalysesFit, LatestAnalysis
      <3> QED
        BY <3>1, <3>4, <3>5 DEF marks
    <2>2. CASE BriefEdited
      <3>1. PICK back : analyses' = [a \in DOMAIN analyses |->
                            IF a \in back THEN "current"
                            ELSE IF analyses[a] = "current" THEN "changed" ELSE analyses[a]]
        BY <2>2 DEF BriefEdited
      <3>2. /\ Len(analyses) \in Nat /\ Len(analyses) <= MaxAnalyses
            /\ DOMAIN analyses = 1..Len(analyses)
            /\ \A a \in DOMAIN analyses : analyses[a] \in Standing
        BY DEF SoundInv, AnalysesFit
      <3>3. \A a \in 1..Len(analyses) : analyses'[a] \in Standing
        BY <3>1, <3>2 DEF Standing
      <3>4. analyses' = [a \in 1..Len(analyses) |-> analyses'[a]]
        BY <3>1, <3>2
      <3> HIDE DEF Standing
      <3>5. analyses' \in [1..Len(analyses) -> Standing]
        BY <3>3, <3>4
      <3> QED
        BY <3>2, <3>5 DEF AnalysesFit
    <2> QED
      BY <2>1, <2>2
  <1>3. served \in Nat /\ served' \in 0..MaxRequests /\ Latest' = Latest /\ Latest \in Nat
    BY <1>1, Bounds, LatestIs DEF SoundInv, Latest
  <1>4. \A t \in Sessions : Prepared(sess[t], Latest, served', raced)
    BY <1>1, <1>3, StillPrepared DEF SoundInv
  <1>5. \A v \in DOMAIN plans : WellMade(plans[v], served')
    BY <1>1, <1>3, StillWellMade DEF SoundInv
  <1> QED
    BY <1>1, <1>2, <1>3, <1>4, <1>5 DEF SoundInv

LEMMA SoundNext == ASSUME PlanInv, OwedInv, SoundInv, [Next]_vars PROVE SoundInv'
  <1>1. ASSUME NEW s \in Sessions, Generation(s) PROVE SoundInv'
    BY <1>1, AskPrepares, AnsweredPrepares, RederivePrepares, CommitPlanPrepares, LeavingPrepares
       DEF Generation
  <1>2. ASSUME NEW s \in Sessions, Editing(s) \/ Approving(s) \/ Abandon(s) PROVE SoundInv'
    BY <1>2, OpeningPrepares, ChangingPrepares, LeavingPrepares DEF Editing, Approving
  <1>3. CASE Analysed \/ BriefEdited
    BY <1>3, AnalysesStep
  <1>4. CASE UNCHANGED vars
    BY <1>4 DEF vars, SoundInv, Latest
  <1> QED
    BY <1>1, <1>2, <1>3, <1>4 DEF Next

LEMMA SoundInit == ASSUME Init PROVE SoundInv
  <1>1. /\ plans = <<>> /\ runs = {} /\ analyses = <<>> /\ served = 0
        /\ raced = {} /\ moved = {} /\ \A s \in Sessions : sess[s] = Rest
    BY DEF Init
  <1>2. Latest = 0 /\ DOMAIN plans = {}
    BY <1>1 DEF Latest
  <1>3. served \in 0..MaxRequests /\ AnalysesFit(analyses)
    BY <1>1, Bounds DEF AnalysesFit
  <1>4. \A s \in Sessions : Prepared(sess[s], Latest, served, raced)
    <2>1. Prepared(Rest, 0, 0, {})
      BY RestIsPrepared
    <2> QED
      BY <1>1, <1>2, <2>1
  <1>5. runs \subseteq [key : Keys \cup {NoKey}, status : {"SUCCEEDED", "FAILED", "RUNNING"}]
    BY <1>1
  <1>6. \A v \in DOMAIN plans : WellMade(plans[v], served)
    BY <1>2
  <1>7. \A v \in DOMAIN plans \ raced : Ordered(plans[v].edges)
    BY <1>2
  <1>8. raced \subseteq DOMAIN plans /\ moved \subseteq Sessions
    BY <1>1
  <1> QED
    BY <1>3, <1>4, <1>5, <1>6, <1>7, <1>8 DEF SoundInv

\* However edits, regenerations, derivations of milestones and approvals overlap: what
\* is stored fits its types and joins tasks that exist, a version can be executed
\* unless edits of it were validated without each other's edges, and milestones
\* derived anew cover the tasks within their cap (PlansAreSound).
THEOREM PlansStaySound == Spec => []PlansAreSound
  <1>1. Init => OwedInv /\ SoundInv
    <2>1. Init => OwedInv
      BY RestFits DEF Init, OwedInv, KeepsOwed
    <2> QED
      BY <2>1, SoundInit
  <1>2. PlanInv /\ OwedInv /\ SoundInv /\ [Next]_vars => (OwedInv /\ SoundInv)'
    BY OwedNext, SoundNext
  <1>3. ASSUME PlanInv, SoundInv PROVE PlansAreSound
    <2>1. TypeOK
      <3>1. ASSUME NEW v \in DOMAIN plans
            PROVE  /\ plans[v].status \in {"READY_FOR_REVIEW", "APPROVED"}
                   /\ plans[v].analysis \in 1..MaxAnalyses
                   /\ plans[v].key \in Keys \cup {NoKey}
                   /\ \A k \in Tasks(plans[v]) : plans[v].tasks[k].body \in 0..MaxRequests
                   /\ Grounded(Tasks(plans[v]), plans[v].edges)
        <4>1. PlanFits(plans[v]) /\ WellMade(plans[v], served)
          BY <1>3 DEF PlanInv, StoredInv, SoundInv
        <4>2. \A x \in 0..served : x \in 0..MaxRequests
          BY <1>3, Bounds DEF SoundInv
        <4> QED
          BY <4>1, <4>2 DEF PlanFits, WellMade
      <3>2. \A s \in Sessions : sess[s].version \in 0..Latest
        BY <1>3 DEF SoundInv, Prepared
      <3> QED
        BY <1>3, <3>1, <3>2 DEF TypeOK, SoundInv, AnalysesFit, Standing, LatestAnalysis
    <2>2. StoredGraphIsSound
      BY <1>3, SoundIsOrdered DEF StoredGraphIsSound, SoundInv, WellMade
    <2>3. RederivedCoversTasks
      BY <1>3 DEF RederivedCoversTasks, At, SoundInv, Prepared, Divides
    <2> QED
      BY <2>1, <2>2, <2>3 DEF PlansAreSound
  <1> QED
    BY <1>1, <1>2, <1>3, AlwaysPlanInv, PTL DEF Spec

=============================================================================
