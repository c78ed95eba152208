---------------------------- MODULE PlanVersions ----------------------------
(***************************************************************************)
(* The plan of one assignment (modules/planning/service.py, router.py and  *)
(* orchestrator.py): versions generated from an analysis, regenerated      *)
(* around the student's own tasks, edited while under review, approved,    *)
(* and worked through.                                                     *)
(*                                                                         *)
(* A session is one HTTP request in one transaction.  No row is locked     *)
(* between what a request reads and what it commits, so requests overlap;  *)
(* what the database does refuse is a second row under a unique key and an *)
(* edge without its task.  The history variables record which overlaps the *)
(* code does not guard against.                                            *)
(***************************************************************************)
EXTENDS PlanGraph, Sequences, Functions, FiniteSetsExt

CONSTANTS
    Sessions,         \* HTTP requests in progress
    Keys, NoKey,      \* idempotency keys a client may send, and none
    Proposals,        \* plans that pass validate_graph: [size, edges, milestones]
    FallbackEnabled,  \* planning_fallback_enabled
    MaxMilestones,    \* MAX_MILESTONES
    MaxRequests,      \* bound: requests served, those to the analysis and the brief included
    MaxListed,        \* bound: dependencies listed in one edit
    MaxAnalyses       \* bound: analyses of the assignment

ASSUME PlanVersionsAssumption ==
    /\ NoKey \notin Keys
    /\ FallbackEnabled \in BOOLEAN
    /\ MaxMilestones \in Nat \ {0}
    /\ {MaxRequests, MaxListed, MaxAnalyses} \subseteq Nat
    /\ \A proposal \in Proposals :
          /\ proposal.size \in Nat
          /\ proposal.edges \subseteq (1..proposal.size) \X (1..proposal.size)
          /\ Sound(1..proposal.size, proposal.edges)
          /\ proposal.milestones \in Seq(SUBSET (1..proposal.size))

VARIABLES
    plans,      \* academic_work_plans with their tasks, edges and milestones
    runs,       \* planning_runs that have a key: [key, status]; no other is read
    analyses,   \* what each analysis is to the assignment, in the order of revisions
    sess,       \* the requests
    served,     \* how many requests there have been
    raced,      \* history: versions an edit changed behind another edit's back
    moved       \* history: requests during which the analysis or the brief moved

vars == <<plans, runs, analyses, sess, served, raced, moved>>

-----------------------------------------------------------------------------
(* Plans and their tasks.  A body stands for what a task says and for its  *)
(* status: 0 as generated, otherwise the number of the edit that wrote it. *)

Generated(i) == <<"T", i>>
Carried(i) == <<"U", i>>

NewTask == [mine |-> FALSE, body |-> 0]

Tasks(plan) == DOMAIN plan.tasks

Mine(plan) == {k \in Tasks(plan) : plan.tasks[k].mine}

Latest == Len(plans)

\* _next_version; the sequence has no gaps.
NextVersion == Latest + 1

Editable(status) == status \in {"DRAFT", "READY_FOR_REVIEW", "STALE"}

\* Nothing is carried over by a first generation.
Nothing == [k \in {} |-> NewTask]

\* _insert_task and _insert_dependencies: the validated proposal as rows.
Planned(proposal) ==
    [tasks |-> [k \in {Generated(i) : i \in 1..proposal.size} |-> NewTask],
     edges |-> {<<Generated(e[1]), Generated(e[2])>> : e \in proposal.edges},
     milestones |-> [m \in DOMAIN proposal.milestones |->
                        {Generated(i) : i \in proposal.milestones[m]}]]

\* Mutant: the carried tasks start over.
CarryOverReset(planned, mine, edges) ==
    LET key == CHOOSE f \in [DOMAIN mine -> {Carried(i) : i \in 1..Cardinality(DOMAIN mine)}] :
                   IsInjective(f)
        old(k) == CHOOSE j \in DOMAIN mine : key[j] = k
    IN  [planned EXCEPT
            !.tasks = [k \in DOMAIN planned.tasks \cup Range(key) |->
                          IF k \in DOMAIN planned.tasks THEN planned.tasks[k] ELSE NewTask],
            !.edges = @ \cup {<<key[e[1]], key[e[2]]>> :
                                 e \in {d \in edges : {d[1], d[2]} \subseteq DOMAIN mine}}]

\* _carry_over_user_tasks: the student's tasks under U keys, with what they
\* say and their status, and the edges that join two of them.
CarryOver(planned, mine, edges) ==
    LET key == CHOOSE f \in [DOMAIN mine -> {Carried(i) : i \in 1..Cardinality(DOMAIN mine)}] :
                   IsInjective(f)
        old(k) == CHOOSE j \in DOMAIN mine : key[j] = k
    IN  [planned EXCEPT
            !.tasks = [k \in DOMAIN planned.tasks \cup Range(key) |->
                          IF k \in DOMAIN planned.tasks THEN planned.tasks[k] ELSE mine[old(k)]],
            !.edges = @ \cup {<<key[e[1]], key[e[2]]>> :
                                 e \in {d \in edges : {d[1], d[2]} \subseteq DOMAIN mine}}]

\* What is left of some layers, in their order, when those without a task are dropped.
NonEmpty(layers) ==
    LET kept == {m \in DOMAIN layers : layers[m] # {}}
        place(i) == CHOOSE m \in kept : Cardinality({n \in kept : n <= m}) = i
    IN  [i \in 1..Cardinality(kept) |-> layers[place(i)]]

\* rederive_milestones: the layers that still have tasks, what no milestone
\* covered last, and whatever exceeds the cap folded into the last layer.
Layers(plan) ==
    LET kept == NonEmpty([m \in DOMAIN plan.milestones |-> plan.milestones[m] \cap Tasks(plan)])
        rest == Tasks(plan) \ UNION Range(kept)
    IN  IF rest = {} THEN kept ELSE Append(kept, rest)

Folded(layers) ==
    IF Len(layers) <= MaxMilestones THEN layers
    ELSE Append(SubSeq(layers, 1, MaxMilestones - 1),
                UNION {layers[m] : m \in MaxMilestones..Len(layers)})

\* A version as persist_plan and rederive_milestones create it.
Version(content, basis, key) ==
    [status |-> "READY_FOR_REVIEW", analysis |-> basis, key |-> key, wording |-> 0,
     tasks |-> content.tasks, edges |-> content.edges, milestones |-> content.milestones]

-----------------------------------------------------------------------------
(* Requests.                                                               *)

NoEdit == [op |-> "none", key |-> <<"T", 0>>, body |-> 0, drop |-> {}, add |-> {}]

Rest == [pc |-> "idle", version |-> 0, key |-> NoKey, basis |-> 0, mine |-> Nothing,
         plan |-> <<>>, run |-> "none", edit |-> NoEdit, status |-> "none", edges |-> {},
         owed |-> {}]

At(s, pc) == sess[s].pc = pc

\* A request begins.
Begin(s) == At(s, "idle") /\ served < MaxRequests /\ served' = served + 1

\* The session ends; whatever it has not committed is rolled back.
End(s) == sess' = [sess EXCEPT ![s] = Rest]

\* The last edit there is: committed, or pending in some session.
LastEdit ==
    Max({0} \cup {sess[s].edit.body : s \in Sessions}
            \cup UNION {{plans[v].wording} \cup {plans[v].tasks[k].body : k \in Tasks(plans[v])} :
                            v \in DOMAIN plans})

Init ==
    /\ plans = <<>> /\ runs = {}
    /\ analyses = <<>>
    /\ sess = [s \in Sessions |-> Rest]
    /\ served = 0
    /\ raced = {} /\ moved = {}

-----------------------------------------------------------------------------
(* Generation.                                                             *)

\* latest_analysis.
LatestAnalysis == Len(analyses)

\* is_analysis_stale: it is flagged, or not of what the assignment says now.
AnalysisStale(a) == analyses[a] # "current"

\* _contract_for: the analysis to plan from describes the assignment, and is the
\* latest, or one the request named while the latest does not.
Contract(a) ==
    /\ ~AnalysisStale(a)
    /\ a = LatestAnalysis \/ AnalysisStale(LatestAnalysis)

\* `force` suffixes the key with a fresh uuid: no request asks for it again.
RequestKey(key, force) == IF force THEN NoKey ELSE key

\* What the request reads before it asks the provider, and start_run, which
\* inserts the run first.  The plan that the key already produced is the answer
\* (find_idempotent_plan); uq_planning_runs_idempotency_key refuses the key of a
\* run that failed, and makes the request wait for one that is not committed.
\* `owed` is history: what the student has written in the version to replace.
Asked(s) == sess[s].pc \in {"asked", "persisted", "refused"}

\* Mutant: the key is not looked up and not unique.
KeyFreeUnseen(key) == TRUE

\* The key is NULL, or no plan and no run has it.
KeyFree(key) ==
    key # NoKey => /\ ~\E v \in DOMAIN plans : plans[v].key = key
                   /\ ~\E r \in runs : r.key = key
                   /\ ~\E s \in Sessions : Asked(s) /\ sess[s].key = key

Ask(s, key, basis, version, mine, owed) ==
    /\ Begin(s) /\ basis > 0 /\ Contract(basis) /\ KeyFree(key)
    /\ sess' = [sess EXCEPT ![s] = [Rest EXCEPT !.pc = "asked", !.key = key, !.basis = basis,
                                        !.version = version, !.mine = mine, !.owed = owed]]
    /\ moved' = moved \ {s}
    /\ UNCHANGED <<plans, runs, analyses, raced>>

\* The request may name the analysis.
Generate(s, key, force) ==
    \E basis \in DOMAIN analyses : Ask(s, RequestKey(key, force), basis, 0, Nothing, {})

\* regenerate_plan: user_authored_tasks of the latest version, read now.
Preserved(plan) == Restrict(plan.tasks, Mine(plan))

Written(plan) == {plan.tasks[k].body : k \in Mine(plan)}

\* Without preserve_user_edits it is a generation like the first.
Regenerate(s, key, force) ==
    /\ Latest > 0
    /\ Ask(s, RequestKey(key, force), LatestAnalysis, Latest,
           Preserved(plans[Latest]), Written(plans[Latest]))

\* The edges of the version the tasks come from, read when they are written.
CarriedEdges(s) == IF sess[s].version = 0 THEN {} ELSE plans[sess[s].version].edges

\* The model's plan, or the engine's when it gives none that is valid, is
\* persisted with the carried tasks.  When the whole does not validate the
\* error escapes generate_plan with the savepoint open and the run RUNNING:
\* the router answers 502 and commits both.
Answer(s, proposal) ==
    /\ At(s, "asked")
    /\ LET content == CarryOver(Planned(proposal), sess[s].mine, CarriedEdges(s))
       IN  sess' = [sess EXCEPT ![s].pc = "persisted",
                        ![s].plan = <<NextVersion, Version(content, sess[s].basis, sess[s].key)>>,
                        ![s].run = IF Sound(DOMAIN content.tasks, content.edges)
                                   THEN "SUCCEEDED" ELSE "RUNNING"]
    /\ UNCHANGED <<served, plans, runs, analyses, raced, moved>>

\* Without the fallback the attempt is rolled back and the run FAILED.
Refuse(s) ==
    /\ At(s, "asked") /\ ~FallbackEnabled
    /\ sess' = [sess EXCEPT ![s].pc = "refused", ![s].run = "FAILED"]
    /\ UNCHANGED <<served, plans, runs, analyses, raced, moved>>

\* The run that is committed: _fail_run, or finish_run.
Finished(s) ==
    IF sess[s].key = NoKey THEN {} ELSE {[key |-> sess[s].key, status |-> sess[s].run]}

CommitRefusal(s) ==
    /\ At(s, "refused")
    /\ runs' = runs \cup Finished(s)
    /\ End(s)
    /\ UNCHANGED <<served, plans, analyses, raced, moved>>

\* regenerate_plan with scope MILESTONES: every task and edge is copied, on
\* the analysis of the version copied, with no run and no key.
Rederive(s) ==
    /\ Begin(s) /\ LatestAnalysis > 0 /\ Contract(LatestAnalysis) /\ Latest > 0
    /\ LET base == plans[Latest]
           copy == [base EXCEPT !.milestones = Folded(Layers(base))]
       IN  /\ Tasks(base) # {} /\ Sound(Tasks(base), base.edges)
           /\ sess' = [sess EXCEPT ![s] = [Rest EXCEPT
                           !.pc = "persisted", !.version = Latest, !.owed = Written(base),
                           !.plan = <<NextVersion, Version(copy, base.analysis, NoKey)>>]]
    /\ moved' = moved \ {s}
    /\ UNCHANGED <<plans, runs, analyses, raced>>

\* Mutant: a version committed meanwhile is overwritten.
CommitPlanOver(s) ==
    /\ At(s, "persisted")
    /\ plans' = [v \in 1..Max({Latest, sess[s].plan[1]}) |->
                    IF v = sess[s].plan[1] THEN sess[s].plan[2] ELSE plans[v]]
    /\ runs' = runs \cup Finished(s)
    /\ raced' = raced
    /\ End(s)
    /\ UNCHANGED <<served, analyses, moved>>

\* finish_run and the router's commit.
CommitPlan(s) ==
    /\ At(s, "persisted") /\ sess[s].plan[1] = NextVersion
    /\ plans' = Append(plans, sess[s].plan[2])
    /\ runs' = runs \cup Finished(s)
    /\ raced' = raced \cup IF sess[s].version \in raced THEN {NextVersion} ELSE {}
    /\ End(s)
    /\ UNCHANGED <<served, analyses, moved>>

\* uq_work_plan_assignment_version: the number was taken meanwhile.
VersionTaken(s) ==
    /\ At(s, "persisted") /\ sess[s].plan[1] <= Latest
    /\ End(s)
    /\ UNCHANGED <<served, plans, runs, analyses, raced, moved>>

-----------------------------------------------------------------------------
(* Edits of a version under review.                                        *)

\* _next_task_key.
NextKey(plan) == Generated(1 + Max({0} \cup {k[2] : k \in {j \in Tasks(plan) : j[1] = "T"}}))

\* The dependencies a client may list.
Lists(tasks) == {on \in SUBSET tasks : Cardinality(on) <= MaxListed}

Into(plan, k) == {e \in plan.edges : e[2] = k}

\* add_task, update_task (which may replace the task's dependencies),
\* delete_task; update_plan and reorder_tasks only touch what is shown.
Additions(plan) ==
    {[NoEdit EXCEPT !.op = "add", !.key = NextKey(plan), !.add = {<<p, NextKey(plan)>> : p \in on}] :
        on \in Lists(Tasks(plan))}

Updates(plan, k) ==
    {[NoEdit EXCEPT !.op = "update", !.key = k]}
    \cup {[NoEdit EXCEPT !.op = "update", !.key = k,
                         !.drop = Into(plan, k), !.add = {<<p, k>> : p \in on}] :
             on \in Lists(Tasks(plan) \ {k})}

Deletions(plan) == {[NoEdit EXCEPT !.op = "delete", !.key = k] : k \in Tasks(plan)}

Edits(plan) ==
    Additions(plan) \cup Deletions(plan) \cup {[NoEdit EXCEPT !.op = "touch"]}
    \cup UNION {Updates(plan, k) : k \in Tasks(plan)}

\* What an edit makes of a plan.  Deleting a task takes its edges along.
Edited(plan, e) ==
    CASE e.op = "delete" ->
            [plan EXCEPT !.tasks = Restrict(@, DOMAIN @ \ {e.key}),
                         !.edges = {d \in @ : e.key \notin {d[1], d[2]}}]
      [] e.op = "touch" -> [plan EXCEPT !.wording = e.body]
      [] OTHER ->
            [plan EXCEPT !.tasks = [k \in DOMAIN @ \cup {e.key} |->
                             IF k = e.key THEN [mine |-> TRUE, body |-> e.body] ELSE @[k]],
                         !.edges = (@ \ e.drop) \cup e.add]

\* The database takes the edit: its key is free or its row is still there,
\* its edges are new and join tasks that exist.
Fits(plan, e) ==
    /\ e.op = "add" => e.key \notin Tasks(plan)
    /\ e.op = "update" => e.key \in Tasks(plan)
    /\ \A d \in e.add : {d[1], d[2]} \subseteq Tasks(plan) \cup {e.key}
    /\ e.add \cap (plan.edges \ e.drop) = {}

\* Mutant: the graph is not validated after the edit.
ValidatedNot(plan, e) == TRUE

\* The edit is written and the graph re-read and validated, in the session.
Validated(plan, e) == Sound(Tasks(Edited(plan, e)), Edited(plan, e).edges)

\* assert_editable, the edit and its validation, on the plan as it is then.
Edit(s, v, e) ==
    LET edit == [e EXCEPT !.body = LastEdit + 1] IN
    /\ Begin(s) /\ Editable(plans[v].status)
    /\ Validated(plans[v], edit)
    /\ sess' = [sess EXCEPT ![s] = [Rest EXCEPT !.pc = "edited", !.version = v, !.edit = edit,
                    !.status = plans[v].status, !.edges = plans[v].edges]]
    /\ UNCHANGED <<plans, runs, analyses, raced, moved>>

\* The router commits; a plan whose graph has changed since it was validated
\* is not looked at again.
CommitEdit(s) ==
    LET v == sess[s].version IN
    /\ At(s, "edited") /\ Fits(plans[v], sess[s].edit)
    /\ plans' = [plans EXCEPT ![v] = Edited(@, sess[s].edit)]
    /\ raced' = raced \cup IF plans[v].edges # sess[s].edges THEN {v} ELSE {}
    /\ End(s)
    /\ UNCHANGED <<served, runs, analyses, moved>>

EditConflict(s) ==
    /\ At(s, "edited") /\ ~Fits(plans[sess[s].version], sess[s].edit)
    /\ End(s)
    /\ UNCHANGED <<served, plans, runs, analyses, raced, moved>>

-----------------------------------------------------------------------------
(* Approval.                                                               *)

\* Mutant: only the stored flag, which nothing sets, is consulted.
PlanStaleByFlag(plan) == FALSE

\* is_plan_stale: the plan's analysis is not the latest, or is out of date.
PlanStale(plan) == plan.analysis # LatestAnalysis \/ AnalysisStale(LatestAnalysis)

\* approve_plan: a plan whose stored graph has violations is refused, and so
\* is a stale one (what is written on its row is rolled back with the
\* request); an approved plan is returned as it is.
Agree(s, v) ==
    /\ Begin(s)
    /\ Sound(Tasks(plans[v]), plans[v].edges)
    /\ plans[v].status # "APPROVED" /\ ~PlanStale(plans[v])
    /\ sess' = [sess EXCEPT ![s] = [Rest EXCEPT !.pc = "agreed", !.version = v]]
    /\ moved' = moved \ {s}
    /\ UNCHANGED <<plans, runs, analyses, raced>>

CommitApproval(s) ==
    /\ At(s, "agreed")
    /\ plans' = [plans EXCEPT ![sess[s].version].status = "APPROVED"]
    /\ End(s)
    /\ UNCHANGED <<served, runs, analyses, raced, moved>>

-----------------------------------------------------------------------------
(* What happens around the plan.                                           *)

\* The requests whose answer depends on the analysis.
Open == {s \in Sessions : ~At(s, "idle") /\ ~At(s, "edited")}

\* mark_stale_analyses: those seen by a request that read another brief.
Marked(seen, same) ==
    [a \in DOMAIN analyses |-> IF a <= seen /\ a \notin same THEN "flagged" ELSE analyses[a]]

\* A request of the analysis component is committed: it saw the first `seen`
\* analyses, of which `same` are of the brief it read, the present one or one
\* that was replaced since; it adds its analysis unless it fails.
Analysed ==
    /\ served < MaxRequests /\ served' = served + 1
    /\ \E seen \in 0..LatestAnalysis, read \in {"current", "changed"}, same \in SUBSET DOMAIN analyses :
          /\ same \subseteq {a \in 1..seen : analyses[a] = read}
          /\ read = "current" => \A a \in 1..seen : analyses[a] = "current" => a \in same
          /\ \/ analyses' = Marked(seen, same)
             \/ /\ LatestAnalysis < MaxAnalyses
                /\ analyses' = Append(Marked(seen, same), read)
    /\ moved' = moved \cup Open
    /\ UNCHANGED <<plans, runs, sess, raced>>

\* The assignment is edited: the current analyses no longer describe it, and
\* those of the brief it returns to do again.
BriefEdited ==
    /\ served < MaxRequests /\ served' = served + 1
    /\ \E back \in SUBSET {a \in DOMAIN analyses : analyses[a] = "changed"} :
          analyses' = [a \in DOMAIN analyses |->
                          IF a \in back THEN "current"
                          ELSE IF analyses[a] = "current" THEN "changed" ELSE analyses[a]]
    /\ moved' = moved \cup Open
    /\ UNCHANGED <<plans, runs, sess, raced>>

\* The server dies or the client goes away before the commit.
Abandon(s) ==
    /\ ~At(s, "idle")
    /\ End(s)
    /\ UNCHANGED <<served, plans, runs, analyses, raced, moved>>

-----------------------------------------------------------------------------

Generation(s) ==
    \/ \E key \in Keys \cup {NoKey}, force \in BOOLEAN :
          Generate(s, key, force) \/ Regenerate(s, key, force)
    \/ Refuse(s) \/ CommitRefusal(s)
    \/ \E proposal \in Proposals : Answer(s, proposal)
    \/ Rederive(s) \/ CommitPlan(s) \/ VersionTaken(s)

Editing(s) ==
    \/ \E v \in DOMAIN plans : \E e \in Edits(plans[v]) : Edit(s, v, e)
    \/ CommitEdit(s) \/ EditConflict(s)

Approving(s) ==
    \/ \E v \in DOMAIN plans : Agree(s, v)
    \/ CommitApproval(s)

Next ==
    \/ \E s \in Sessions : Generation(s) \/ Editing(s) \/ Approving(s) \/ Abandon(s)
    \/ Analysed \/ BriefEdited

Spec == Init /\ [][Next]_vars

-----------------------------------------------------------------------------
(* Properties.                                                             *)

\* Every variable keeps its type: the stored versions, runs and requests.
TypeOK ==
    /\ \A v \in DOMAIN plans :
          /\ plans[v].status \in {"READY_FOR_REVIEW", "APPROVED"}
          /\ plans[v].analysis \in 1..MaxAnalyses
          /\ plans[v].key \in Keys \cup {NoKey}
          /\ \A k \in Tasks(plans[v]) : plans[v].tasks[k].body \in 0..MaxRequests
          /\ Grounded(Tasks(plans[v]), plans[v].edges)
    /\ served \in 0..MaxRequests
    /\ runs \subseteq [key : Keys \cup {NoKey}, status : {"SUCCEEDED", "FAILED", "RUNNING"}]
    /\ analyses \in Seq({"current", "changed", "flagged"}) /\ LatestAnalysis <= MaxAnalyses
    /\ \A s \in Sessions : sess[s].version \in 0..Latest
    /\ raced \subseteq DOMAIN plans /\ moved \subseteq Sessions

\* The graph a version stores can be executed, unless two edits of it, or of
\* the version it was made from, were validated without each other's edges:
\* validate_graph and _revalidate_or_conflict against _replace_dependencies,
\* delete_task, _carry_over_user_tasks and rederive_milestones.
StoredGraphIsSound ==
    \A v \in DOMAIN plans \ raced : Sound(Tasks(plans[v]), plans[v].edges)

\* Re-deriving milestones loses no work: every task of the new version is in
\* one of at most MAX_MILESTONES milestones, and none of them is empty.
RederivedCoversTasks ==
    \A s \in Sessions :
        At(s, "persisted") /\ sess[s].run = "none"
        => LET plan == sess[s].plan[2]
           IN  /\ UNION Range(plan.milestones) = Tasks(plan)
               /\ Len(plan.milestones) <= MaxMilestones
               /\ {} \notin Range(plan.milestones)

\* What is stored fits its types, every version can be executed, and one about to
\* be added by re-deriving milestones covers its tasks.
PlansAreSound == TypeOK /\ StoredGraphIsSound /\ RederivedCoversTasks

\* A request key has one outcome: it names the version its run produced, or
\* none when the run failed, whatever is retried, forced or doubled.
KeyHasOneOutcome ==
    \A key \in Keys :
        /\ Cardinality({v \in DOMAIN plans : plans[v].key = key}) <= 1
        /\ Cardinality({r \in runs : r.key = key}) <= 1
        /\ (\E v \in DOMAIN plans : plans[v].key = key)
              <=> (\E r \in runs : r.key = key /\ r.status # "FAILED")

\* Regenerating or re-deriving milestones loses none of the student's tasks:
\* one that the latest version has and the new version lacks was written after
\* the request read the list (user_authored_tasks, _carry_over_user_tasks).
Survives(task, plan) ==
    \E k \in Mine(plan) : plan.tasks[k].body = task.body

Adds(s) == At(s, "persisted") /\ Len(plans') > Len(plans) /\ sess'[s].pc = "idle"

OwnTasksSurvive ==
    [][\A s \in Sessions :
          Adds(s) /\ sess[s].version > 0
          => LET base == plans[sess[s].version]
             IN  \A k \in Mine(base) : \/ base.tasks[k].body \notin sess[s].owed
                                       \/ Survives(base.tasks[k], plans'[Len(plans')])]_vars

\* An approved version keeps what it says: only an edit that was loaded
\* while the version was under review still changes it (assert_editable).
Content(plan) ==
    [says |-> [k \in Tasks(plan) |-> plan.tasks[k].body], edges |-> plan.edges,
     milestones |-> plan.milestones, wording |-> plan.wording]

ApprovedKeepsContent ==
    [][\A v \in DOMAIN plans :
          plans[v].status = "APPROVED" /\ Content(plans'[v]) # Content(plans[v])
          => \E s \in Sessions : /\ At(s, "edited") /\ sess[s].version = v
                                 /\ Editable(sess[s].status) /\ sess'[s].pc = "idle"]_vars

\* A version is added from, or approved against, an analysis that still describes
\* the assignment at the commit, and a newer one does not, unless an analysis or
\* the brief moved during the request (_contract_for, is_plan_stale); it is
\* approved only on the latest.  A version that only re-derives milestones keeps
\* the analysis of the one it copies.
Current(a) ==
    /\ ~AnalysisStale(a)
    /\ a = LatestAnalysis \/ AnalysisStale(LatestAnalysis)

CurrentUnlessMoved ==
    [][\A s \in Sessions \ moved :
          LET v == sess[s].version
          IN  /\ (Adds(s) /\ sess[s].run # "none") => Current(plans'[Len(plans')].analysis)
              /\ (At(s, "agreed") /\ plans[v].status # "APPROVED" /\ plans'[v].status = "APPROVED")
                 => Current(plans[v].analysis) /\ plans[v].analysis = LatestAnalysis]_vars

\* What people made of a plan survives what is done to it later: the student's
\* tasks, and the content that was approved.
MadeByPeopleIsKept == OwnTasksSurvive /\ ApprovedKeepsContent

\* The versions are the history that PlanHistory promises.
History == INSTANCE PlanHistory
    WITH history <- [v \in DOMAIN plans |->
                        [key |-> plans[v].key, approved |-> plans[v].status = "APPROVED"]]

HistoryKept == History!Spec

=============================================================================
