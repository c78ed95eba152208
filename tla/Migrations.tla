----------------------------- MODULE Migrations -----------------------------
(***************************************************************************)
(* The chain of schema migrations (alembic/versions), applied and undone   *)
(* on a database with rows in it.  "revision" is how many migrations of    *)
(* the chain are applied, "schema" the facts DeclaredSchema names, and the *)
(* other variables are the rows whose contents a migration rewrites or     *)
(* whose contents decide whether one is accepted:                          *)
(*   requirements : the number of each requirement, in creation order      *)
(*   highWater    : assignments.requirement_sequence                       *)
(*   status       : of the assignment                                      *)
(*   analyses     : creation instant and revision, in creation order       *)
(*   recorded     : of each table with an idempotency_key, the key of each *)
(*                  row                                                    *)
(*   decisions    : per iteration of the run, how many decisions it took   *)
(*   attempts     : whether each attempt still has its task                *)
(*   task         : the task the attempts are about is there               *)
(* A number 0 is a column that is NULL or not there.  A migration that the *)
(* database refuses is rolled back and leaves no step (SQLite's partial    *)
(* rollback of DDL is not modelled).                                       *)
(***************************************************************************)
EXTENDS DeclaredSchema, SequencesExt

CONSTANTS Keys,         \* what clients send as an idempotency key
          ContentHash,  \* what is derived from the content a request is about
          NoKey,
          MaxRows, MaxNumber, MaxDecisions   \* bounds

ASSUME RowsAssumption ==
    /\ MaxRows \in Nat /\ MaxNumber \in Nat /\ MaxDecisions \in Nat \ {0}
    /\ MaxRows <= MaxNumber   \* there is a number for each requirement

VARIABLES dialect, revision, schema, requirements, highWater, status, analyses, recorded,
          decisions, attempts, task

workRows == <<recorded, decisions, attempts, task>>
assignmentRows == <<requirements, highWater, status>>
migrationVars == <<dialect, revision, schema, assignmentRows, analyses, workRows>>

Latest == 12

Old(t) == Refers(t, "task_id", "plan_tasks", "CASCADE")

-----------------------------------------------------------------------------
(* What each migration adds and takes away. *)

\* 0001
InitialAccounts ==
    Tables({"users", "workspaces", "workspace_members", "courses"})
    \cup Owned({"workspace_members"}, "user_id", "users")
    \cup Owned({"workspaces"}, "owner_id", "users")
    \cup Owned({"workspace_members", "courses"}, "workspace_id", "workspaces")
    \cup {Unique("users", {"email"}), Unique("courses", {"workspace_id", "code"})}

InitialAssignments ==
    Tables({"assignments", "assignment_requirements", "assignment_constraints",
            "evaluation_criteria", "documents", "notifications", "audit_logs"})
    \cup Owned({"assignments"}, "workspace_id", "workspaces")
    \cup Owned({"assignment_requirements", "assignment_constraints", "evaluation_criteria",
                "documents"}, "assignment_id", "assignments")
    \cup Owned({"notifications"}, "user_id", "users")
    \cup Noted({"audit_logs"}, "user_id", "users")
    \cup Noted({"audit_logs"}, "workspace_id", "workspaces")
    \cup {Refers("assignments", "course_id", "courses", "RESTRICT"),
          Unique("documents", {"storage_key"})}

\* 0002
SpecificationTables ==
    Tables({"deliverables", "technologies", "assignment_technologies", "tags", "assignment_tags",
            "assignment_versions", "requirement_dependencies"})
    \cup Owned({"deliverables", "assignment_technologies", "assignment_tags",
                "assignment_versions", "requirement_dependencies"}, "assignment_id", "assignments")
    \cup Owned({"technologies", "tags"}, "workspace_id", "workspaces")
    \cup Owned({"assignment_technologies"}, "technology_id", "technologies")
    \cup Owned({"assignment_tags"}, "tag_id", "tags")
    \cup Owned({"requirement_dependencies"}, "depends_on_id", "assignment_requirements")
    \cup Owned({"requirement_dependencies"}, "requirement_id", "assignment_requirements")
    \cup Noted({"assignment_versions"}, "created_by_id", "users")
    \cup {Unique("technologies", {"workspace_id", "normalized_name", "version"}),
          Unique("assignment_technologies", {"assignment_id", "technology_id"}),
          Unique("tags", {"workspace_id", "normalized_name"}),
          Unique("assignment_tags", {"assignment_id", "tag_id"}),
          Unique("assignment_versions", {"assignment_id", "version"}),
          Unique("requirement_dependencies", {"requirement_id", "depends_on_id"})}

SpecificationColumns ==
    {Column("assignments", c) :
        c \in {"readiness_score", "ready_for_analysis_at", "requirement_sequence"}}
    \cup {Column("assignment_requirements", c) :
            c \in {"sequence", "status", "is_required", "position", "parent_id"}}
    \cup {Column("assignment_constraints", c) : c \in {"type", "severity", "position"}}
    \cup {Column("evaluation_criteria", "position"), Column("audit_logs", "assignment_id")}
    \cup Noted({"assignment_requirements"}, "parent_id", "assignment_requirements")
    \cup Noted({"audit_logs"}, "assignment_id", "assignments")
    \cup {Required("assignment_requirements", "sequence"),
          Unique("assignment_requirements", {"assignment_id", "sequence"})}

\* 0003
AnalysisTables ==
    Tables({"assignment_analyses", "analysis_runs", "analysis_questions",
            "analysis_classifications"})
    \cup Owned({"assignment_analyses", "analysis_runs"}, "assignment_id", "assignments")
    \cup Owned({"analysis_questions", "analysis_classifications"}, "analysis_id",
               "assignment_analyses")
    \cup Noted({"analysis_runs"}, "analysis_id", "assignment_analyses")
    \cup Noted({"assignment_analyses"}, "reviewed_by_id", "users")
    \cup Noted({"analysis_runs"}, "triggered_by_id", "users")
    \cup Noted({"analysis_questions"}, "answered_by_id", "users")
    \cup {Lookup("analysis_runs"),
          Unique("assignment_analyses", {"assignment_id", "idempotency_key"}),
          Unique("analysis_questions", {"analysis_id", "code"}),
          Unique("analysis_classifications", {"analysis_id", "kind", "value", "source"})}

\* 0005
PlanTables ==
    Tables({"academic_work_plans", "plan_tasks"})
    \cup Owned({"academic_work_plans"}, "assignment_id", "assignments")
    \cup Noted({"academic_work_plans"}, "analysis_id", "assignment_analyses")
    \cup Noted({"academic_work_plans"}, "approved_by_id", "users")
    \cup Owned({"plan_tasks"}, "plan_id", "academic_work_plans")
    \cup {Unique("academic_work_plans", {"assignment_id", "version"}),
          Unique("plan_tasks", {"plan_id", "key"})}

LinkTables ==
    LET links == {"plan_task_requirements", "plan_task_deliverables"} IN
    Tables(links \cup {"plan_task_dependencies"})
    \cup Owned(links \cup {"plan_task_dependencies"}, "plan_id", "academic_work_plans")
    \cup Owned(links, "task_id", "plan_tasks")
    \cup Owned({"plan_task_dependencies"}, "predecessor_id", "plan_tasks")
    \cup Owned({"plan_task_dependencies"}, "successor_id", "plan_tasks")
    \cup {Unique("plan_task_requirements", {"task_id", "requirement_key"}),
          Unique("plan_task_deliverables", {"task_id", "deliverable_key"}),
          Unique("plan_task_dependencies", {"predecessor_id", "successor_id"})}

PlanningTables ==
    Tables({"plan_milestones", "planning_runs", "planning_preferences"})
    \cup Owned({"plan_milestones"}, "plan_id", "academic_work_plans")
    \cup Owned({"planning_runs"}, "assignment_id", "assignments")
    \cup Noted({"planning_runs"}, "plan_id", "academic_work_plans")
    \cup Noted({"planning_runs"}, "triggered_by_id", "users")
    \cup Owned({"planning_preferences"}, "workspace_id", "workspaces")
    \cup {Unique("plan_milestones", {"plan_id", "key"}),
          Required("planning_runs", "idempotency_key"), Lookup("planning_runs")}

\* 0006
RunTables ==
    Tables({"agent_runs", "agent_task_executions"})
    \cup Owned({"agent_runs"}, "assignment_id", "assignments")
    \cup Noted({"agent_runs"}, "plan_id", "academic_work_plans")
    \cup Noted({"agent_runs"}, "triggered_by_id", "users")
    \cup Owned({"agent_task_executions"}, "run_id", "agent_runs")
    \cup {Old("agent_task_executions"), Required("agent_task_executions", "task_id"),
          Lookup("agent_runs"),
          Unique("agent_task_executions", {"run_id", "task_id", "attempt"})}

RecordTables ==
    LET records == {"agent_artifacts", "agent_checkpoints", "agent_events", "agent_decisions"} IN
    Tables(records) \cup Owned(records, "run_id", "agent_runs")
    \cup Noted(records \ {"agent_decisions"}, "task_id", "plan_tasks")
    \cup Noted({"agent_artifacts"}, "created_by_id", "users")
    \cup Noted({"agent_checkpoints"}, "resolved_by_id", "users")
    \cup Noted({"agent_events"}, "execution_id", "agent_task_executions")
    \cup {Unique("agent_artifacts", {"run_id", "task_id", "revision"}),
          Unique("agent_events", {"run_id", "sequence"}),
          Unique("agent_decisions", {"run_id", "iteration"})}

\* 0007
StatusChecks ==
    {Check("agent_runs", "status",
           {"CREATED", "STARTING", "RUNNING", "WAITING_FOR_USER", "PAUSED", "BLOCKED",
            "COMPLETED", "FAILED", "CANCELLED"}),
     Check("agent_task_executions", "status",
           {"SUCCESS", "PARTIAL_SUCCESS", "FAILED", "BLOCKED", "NEEDS_USER_INPUT",
            "NEEDS_APPROVAL", "SKIPPED"}),
     Check("agent_checkpoints", "status", {"PENDING", "RESOLVED", "CANCELLED", "EXPIRED"}),
     Check("agent_artifacts", "status", {"DRAFT", "ACTIVE", "SUPERSEDED", "ARCHIVED"}),
     Check("academic_work_plans", "status",
           {"DRAFT", "GENERATING", "READY_FOR_REVIEW", "APPROVED", "IN_PROGRESS", "COMPLETED",
            "ARCHIVED", "STALE"})}

Keyed == {"agent_runs", "academic_work_plans", "analysis_runs", "planning_runs"}

HardenedColumns ==
    {Column("planning_runs", "input_fingerprint"),
     Column("academic_work_plans", "input_fingerprint"), Column("agent_artifacts", "worker_name")}

HardenedReferences ==
    Noted({"agent_task_executions"}, "task_id", "plan_tasks")
    \cup {Refers("workspaces", "owner_id", "users", "RESTRICT")}

Softened == {Old("agent_task_executions"), Refers("workspaces", "owner_id", "users", "CASCADE")}

\* 0008
Budgets ==
    {Column("agent_runs", c) :
        c \in {"max_tokens", "max_output_tokens_per_step", "max_input_tokens_per_step"}}

\* 0009
Slot == {Column("agent_decisions", "slot"),
         Unique("agent_decisions", {"run_id", "iteration", "slot"})}

\* 0010
ToolTable ==
    Tables({"agent_tool_invocations"})
    \cup Owned({"agent_tool_invocations"}, "run_id", "agent_runs")
    \cup Noted({"agent_tool_invocations"}, "task_id", "plan_tasks")
    \cup {Check("agent_tool_invocations", "status", {"SUCCESS", "FAILED", "BLOCKED"})}

\* 0012
JobTable ==
    Tables({"execution_jobs"})
    \cup Owned({"execution_jobs"}, "workspace_id", "workspaces")
    \cup Noted({"execution_jobs"}, "assignment_id", "assignments")
    \cup Noted({"execution_jobs"}, "agent_run_id", "agent_runs")
    \cup Noted({"execution_jobs"}, "task_id", "plan_tasks")
    \cup Noted({"execution_jobs"}, "requested_by_id", "users")
    \cup {Unique("execution_jobs", {"idempotency_key"}),
          Check("execution_jobs", "cleanup_status", {"PENDING", "CLEANED", "FAILED", "SKIPPED"}),
          Check("execution_jobs", "status",
                {"CREATED", "VALIDATING", "REJECTED", "QUEUED", "STARTING", "RUNNING",
                 "COLLECTING_RESULTS", "SUCCEEDED", "FAILED", "TIMED_OUT", "CANCEL_REQUESTED",
                 "CANCELLED", "RESOURCE_LIMIT_EXCEEDED", "CLEANUP_PENDING"})}

ExecutionTables ==
    Tables({"execution_attempts", "execution_artifacts", "execution_events"})
    \cup Owned({"execution_attempts", "execution_artifacts", "execution_events"}, "job_id",
               "execution_jobs")
    \cup Noted({"execution_artifacts"}, "attempt_id", "execution_attempts")
    \cup Owned({"execution_artifacts"}, "workspace_id", "workspaces")
    \cup Noted({"execution_artifacts"}, "agent_artifact_id", "agent_artifacts")
    \cup {Unique("execution_attempts", {"job_id", "attempt"}),
          Unique("execution_events", {"job_id", "sequence"}),
          Check("execution_attempts", "status",
                {"SUCCEEDED", "FAILED", "TIMED_OUT", "RESOURCE_LIMIT_EXCEEDED", "CANCELLED",
                 "REJECTED"})}

Adds(r) ==
    CASE r = 1 -> InitialAccounts \cup InitialAssignments
      [] r = 2 -> SpecificationTables \cup SpecificationColumns
      [] r = 3 -> AnalysisTables
      [] r = 4 -> {Column("assignment_analyses", "revision")}
      [] r = 5 -> PlanTables \cup LinkTables \cup PlanningTables
      [] r = 6 -> RunTables \cup RecordTables
      [] r = 7 -> HardenedReferences \cup StatusChecks \cup HardenedColumns
                  \cup {Unique(t, {"idempotency_key"}) : t \in Keyed}
      [] r = 8 -> Budgets
      [] r = 9 -> Slot
      [] r = 10 -> ToolTable \cup {Column("agent_task_executions", "worker")}
      [] r = 11 -> {Column("agent_artifacts", "ownership")}
      [] r = 12 -> JobTable \cup ExecutionTables

Drops(r) ==
    CASE r = 7 -> Softened \cup {Lookup(t) : t \in Keyed}
                  \cup {Required("planning_runs", "idempotency_key")}
      [] r = 8 -> {Required("agent_task_executions", "task_id")}
      [] r = 9 -> {Unique("agent_decisions", {"run_id", "iteration"})}
      [] OTHER -> {}

-----------------------------------------------------------------------------
(* What undoing each takes away and puts back. *)

DropsInitial == {"users", "workspaces", "workspace_members", "courses", "assignments",
                 "assignment_requirements", "assignment_constraints", "evaluation_criteria",
                 "documents", "notifications", "audit_logs"}

DropsSpecification == {"deliverables", "technologies", "assignment_technologies", "tags",
                       "assignment_tags", "assignment_versions", "requirement_dependencies"}

DropsAnalysis == {"assignment_analyses", "analysis_runs", "analysis_questions",
                  "analysis_classifications"}

DropsPlanning == {"academic_work_plans", "plan_tasks", "plan_task_requirements",
                  "plan_task_deliverables", "plan_task_dependencies", "plan_milestones",
                  "planning_runs", "planning_preferences"}

DropsRuntime == {"agent_runs", "agent_task_executions", "agent_artifacts", "agent_checkpoints",
                 "agent_events", "agent_decisions"}

DropsExecution == {"execution_jobs", "execution_attempts", "execution_artifacts",
                   "execution_events"}

DroppedTables(r) ==
    CASE r = 1 -> DropsInitial
      [] r = 2 -> DropsSpecification
      [] r = 3 -> DropsAnalysis
      [] r = 5 -> DropsPlanning
      [] r = 6 -> DropsRuntime
      [] r = 10 -> {"agent_tool_invocations"}
      [] r = 12 -> DropsExecution
      [] OTHER -> {}

Withdrawn(r) ==
    CASE r = 2 -> SpecificationColumns
      [] r = 4 -> {Column("assignment_analyses", "revision")}
      [] r = 7 -> HardenedReferences \cup StatusChecks \cup HardenedColumns
                  \cup {Unique(t, {"idempotency_key"}) : t \in Keyed}
      [] r = 8 -> Budgets
      [] r = 9 -> Slot
      [] r = 10 -> {Column("agent_task_executions", "worker")}
      [] r = 11 -> {Column("agent_artifacts", "ownership")}
      [] OTHER -> {}

Restored(r) ==
    CASE r = 7 -> Softened \cup {Lookup(t) : t \in Keyed}
                  \cup {Required("planning_runs", "idempotency_key")}
      [] r = 8 -> {Required("agent_task_executions", "task_id")}
      [] r = 9 -> {Unique("agent_decisions", {"run_id", "iteration"})}
      [] OTHER -> {}

Upgraded(s, r) == (s \ Drops(r)) \cup Adds(r)

Downgraded(s, r) ==
    ({f \in s : f[2] \notin DroppedTables(r)} \ Withdrawn(r)) \cup Restored(r)

-----------------------------------------------------------------------------
(* What the migrations do to the rows, and what the database accepts. *)

MigrationsInit ==
    /\ dialect \in {"sqlite", "postgresql"}
    /\ revision = 0 /\ schema = {}
    /\ requirements = <<>> /\ highWater = 0 /\ status = "DRAFT"
    /\ analyses = <<>> /\ decisions = <<>> /\ attempts = <<>>
    /\ recorded = [t \in Keyed |-> <<>>]
    /\ task = FALSE

\* Rows without a key do not repeat one.
Repeated(keys) == ~IsInjective(SelectSeq(keys, LAMBDA k : k # NoKey))

\* The columns of the rows, as the statement in hand would leave them, keep
\* the NOT NULL and UNIQUE facts of the schema it leaves.
Accepts(s) ==
    /\ Required("assignment_requirements", "sequence") \in s => 0 \notin ToSet(requirements')
    /\ Unique("assignment_requirements", {"assignment_id", "sequence"}) \in s
        => IsInjective(requirements')
    /\ \A t \in Keyed :
        /\ Required(t, "idempotency_key") \in s => NoKey \notin ToSet(recorded[t]')
        /\ Unique(t, {"idempotency_key"}) \in s => ~Repeated(recorded[t]')
    /\ Required("agent_task_executions", "task_id") \in s => FALSE \notin ToSet(attempts')
    /\ Unique("agent_decisions", {"run_id", "iteration"}) \in s => ToSet(decisions') \subseteq {1}

\* An integer literal for a boolean column: SQLite has no booleans, PostgreSQL
\* refuses the statement.
Renders(r) == r = 2 /\ dialect = "postgresql" => requirements = <<>>

Numbered(n) == [i \in 1..n |-> i]

\* Mutant: the high-water mark is set before there are numbers.
HighWaterZero(numbers) == 0

\* The mark starts at the highest number given.
HighWater(numbers) == Len(numbers)

\* 0002: numbers in creation order, and what phase 1 called ACTIVE.
BackfillSpecification ==
    /\ requirements' = Numbered(Len(requirements))
    /\ highWater' = HighWater(requirements)
    /\ status' = IF status = "ACTIVE" THEN "READY_FOR_ANALYSIS" ELSE status

\* ORDER BY created_at leaves the order of equal instants open.
Ranked(rank) ==
    \A i, j \in DOMAIN rank : analyses[i].at < analyses[j].at => rank[i] < rank[j]

\* 0004
BackfillRevisions ==
    \E rank \in {f \in [DOMAIN analyses -> 1..Len(analyses)] : IsInjective(f)} :
        /\ Ranked(rank)
        /\ analyses' = [i \in DOMAIN analyses |-> [analyses[i] EXCEPT !.revision = rank[i]]]

\* command.upgrade, one revision.
Upgrade ==
    LET r == revision + 1 IN
    /\ revision < Latest /\ Renders(r)
    /\ IF r = 2 THEN BackfillSpecification ELSE UNCHANGED assignmentRows
    /\ IF r = 4 THEN BackfillRevisions ELSE UNCHANGED analyses
    /\ UNCHANGED <<dialect, workRows>>
    /\ Accepts(Upgraded(schema, r))
    /\ revision' = r /\ schema' = Upgraded(schema, r)

\* Mutant: the attempts whose task is gone are not removed first.
AttemptsKept == attempts

\* 0008, undone: DELETE ... WHERE task_id IS NULL.
AttemptsWithTask == [i \in 1..Cardinality({j \in DOMAIN attempts : attempts[j]}) |-> TRUE]

\* command.downgrade, one revision.
Downgrade ==
    LET r == revision IN
    /\ revision > 0
    /\ requirements' = (CASE r = 1 -> <<>> [] r = 2 -> [i \in DOMAIN requirements |-> 0]
                          [] OTHER -> requirements)
    /\ highWater' = IF r = 2 THEN 0 ELSE highWater
    /\ status' = (CASE r = 1 -> "DRAFT"
                    [] r = 2 /\ status = "READY_FOR_ANALYSIS" -> "ACTIVE"
                    [] OTHER -> status)
    /\ analyses' = (CASE r = 3 -> <<>>
                      [] r = 4 -> [i \in DOMAIN analyses |-> [analyses[i] EXCEPT !.revision = 0]]
                      [] OTHER -> analyses)
    /\ recorded' = [t \in Keyed |-> IF t \in DroppedTables(r) THEN <<>> ELSE recorded[t]]
    /\ task' = (r # 5 /\ task)
    /\ decisions' = IF r = 6 THEN <<>> ELSE decisions
    /\ attempts' = (CASE r = 6 -> <<>> [] r = 8 -> AttemptsWithTask [] OTHER -> attempts)
    /\ UNCHANGED dialect
    /\ Accepts(Downgraded(schema, r))
    /\ revision' = r - 1 /\ schema' = Downgraded(schema, r)

-----------------------------------------------------------------------------
(* What programs write: the one of this repository at Latest, and at older *)
(* revisions the releases the migrations speak of.                         *)

KeyedRows == Len(recorded["agent_runs"]) + Len(recorded["academic_work_plans"])
             + Len(recorded["analysis_runs"]) + Len(recorded["planning_runs"])

Rows == Len(requirements) + Len(analyses) + KeyedRows + Len(decisions) + Len(attempts)

Room == Rows < MaxRows

\* Phase 1 had no numbers.
AddRequirement ==
    /\ revision \in {1, Latest} /\ Room /\ highWater < MaxNumber
    /\ requirements' = Append(requirements, IF revision = 1 THEN 0 ELSE highWater + 1)
    /\ highWater' = IF revision = 1 THEN highWater ELSE highWater + 1
    /\ UNCHANGED <<dialect, revision, schema, status, analyses, workRows>>

RemoveRequirement ==
    /\ revision \in {1, Latest}
    /\ \E i \in DOMAIN requirements : requirements' = RemoveAt(requirements, i)
    /\ UNCHANGED <<dialect, revision, schema, highWater, status, analyses, workRows>>

\* Phase 1 finalized to ACTIVE; the gate has its own name since.
Finalize ==
    /\ revision \in {1, Latest} /\ status = "DRAFT"
    /\ status' = IF revision = 1 THEN "ACTIVE" ELSE "READY_FOR_ANALYSIS"
    /\ UNCHANGED <<dialect, revision, schema, requirements, highWater, analyses, workRows>>

LastInstant == IF analyses = <<>> THEN 0 ELSE Last(analyses).at

\* MAX(revision) + 1.
NextRevision == 1 + Max({0} \cup {analyses[i].revision : i \in DOMAIN analyses})

\* Two analyses may share the second created_at is exact to.
Analyze ==
    /\ revision \in {3, Latest} /\ Room
    /\ \E at \in {LastInstant, LastInstant + 1} \ {0} :
        analyses' = Append(analyses, [at |-> at,
                                      revision |-> IF revision = 3 THEN 0 ELSE NextRevision])
    /\ UNCHANGED <<dialect, revision, schema, assignmentRows, workRows>>

\* The migration that makes the table.
MadeBy(t) == CASE t = "analysis_runs" -> 3 [] t = "agent_runs" -> 6 [] OTHER -> 5

\* Before 0007 every key was derived from the content, and two requests, or one
\* tried again after a failure, could record the same.  Since, plans and their runs
\* have the client's key or none; analyses and agent runs derive theirs still.
KeysFor(t) ==
    IF revision < 7 THEN {ContentHash}
    ELSE IF t \in {"planning_runs", "academic_work_plans"} THEN Keys \cup {NoKey}
    ELSE Keys \cup {ContentHash}

\* An analysis, a planning run, its plan or an agent run is recorded.
Record(t) ==
    /\ revision \in (MadeBy(t)..6) \cup {Latest} /\ Room
    /\ \E key \in KeysFor(t) : recorded' = [recorded EXCEPT ![t] = Append(@, key)]
    /\ task' = (task \/ t = "academic_work_plans")
    /\ UNCHANGED <<dialect, revision, schema, assignmentRows, analyses, decisions, attempts>>
    /\ Accepts(schema)

\* A step of a run decides once, and once more for each tool it calls.
Decide ==
    /\ revision = Latest /\ UNCHANGED <<dialect, revision, schema, assignmentRows, analyses>>
    /\ UNCHANGED <<recorded, attempts, task>>
    /\ \/ Room /\ decisions' = Append(decisions, 1)
       \/ /\ decisions # <<>> /\ Last(decisions) < MaxDecisions
          /\ decisions' = [decisions EXCEPT ![Len(decisions)] = @ + 1]

Attempt ==
    /\ revision \in 6..Latest /\ Room /\ task
    /\ attempts' = Append(attempts, TRUE)
    /\ UNCHANGED <<dialect, revision, schema, assignmentRows, analyses>>
    /\ UNCHANGED <<recorded, decisions, task>>

\* A student deletes the task from the plan.
DeleteTask ==
    /\ task /\ ~Refused(schema, "plan_tasks")
    /\ task' = FALSE
    /\ attempts' = IF "agent_task_executions" \in Lost(schema, "plan_tasks") THEN <<>>
                   ELSE [i \in DOMAIN attempts |-> FALSE]
    /\ UNCHANGED <<dialect, revision, schema, assignmentRows, analyses>>
    /\ UNCHANGED <<recorded, decisions>>

MigrationsNext == Upgrade \/ Downgrade \/ AddRequirement \/ RemoveRequirement \/ Finalize \/ Analyze
        \/ (\E t \in Keyed : Record(t)) \/ Decide \/ Attempt \/ DeleteTask

MigrationsSpec == MigrationsInit /\ [][MigrationsNext]_migrationVars

-----------------------------------------------------------------------------

RowsTyped ==
    /\ dialect \in {"sqlite", "postgresql"} /\ revision \in 0..Latest
    /\ requirements \in Seq(0..MaxNumber) /\ highWater \in 0..MaxNumber
    /\ status \in {"DRAFT", "ACTIVE", "READY_FOR_ANALYSIS"}
    /\ \A i \in DOMAIN analyses : analyses[i].revision \in 0..MaxRows
    /\ recorded \in [Keyed -> Seq(Keys \cup {ContentHash, NoKey})]
    /\ decisions \in Seq(1..MaxDecisions) /\ attempts \in Seq(BOOLEAN) /\ task \in BOOLEAN

\* By whatever ups and downs the database came to the last revision, its
\* schema is the one the entities declare.
HeadIsDeclared == revision = Latest => schema = Declared

\* The index that undoing 0007 makes and applying 0005 did not.
Leftover == Lookup("academic_work_plans")

SchemaAt ==
    LET at[r \in 0..Latest] == IF r = 0 THEN {} ELSE Upgraded(at[r - 1], r) IN at

\* Undoing a migration leaves the schema the one before it left, but for that
\* index.
DownUndoesUp == schema \ {Leftover} = SchemaAt[revision]

\* Numbered requirements have different numbers, none above the mark from
\* which the next is counted, and finalized work has its present name.
NumbersBelowMark ==
    revision >= 2 =>
        /\ IsInjective(requirements)
        /\ \A i \in DOMAIN requirements : requirements[i] \in 1..highWater
        /\ status # "ACTIVE"

\* Revisions are 1, 2, ... and follow the order of creation: a later one is
\* never behind an earlier one.
RevisionsFollowCreation ==
    revision >= 4 =>
        /\ {analyses[i].revision : i \in DOMAIN analyses} = 1..Len(analyses)
        /\ \A i, j \in DOMAIN analyses :
              analyses[i].at < analyses[j].at => analyses[i].revision < analyses[j].revision

WorkHistory == {"agent_runs", "agent_task_executions", "agent_tool_invocations", "agent_artifacts",
            "agent_checkpoints", "agent_events", "agent_decisions", "execution_jobs"}

\* Since 0008 a task, a plan and an analysis can be deleted, and what was done
\* for them stays on record; deleting an analysis leaves the plans.
HistoryOutlivesPlan ==
    revision >= 8 =>
        /\ \A t \in {"plan_tasks", "academic_work_plans", "assignment_analyses"} :
            Lost(schema, t) \cap WorkHistory = {} /\ ~Refused(schema, t)
        /\ "academic_work_plans" \notin Lost(schema, "assignment_analyses")

\* At each revision the schema and the rows are those the code of that revision
\* was written for, whichever way the database came there.
RevisionMeansSchema ==
    /\ RowsTyped /\ HeadIsDeclared /\ DownUndoesUp
    /\ NumbersBelowMark /\ RevisionsFollowCreation /\ HistoryOutlivesPlan

\* The chain can be climbed from every database, with two exceptions: 0002 on
\* a PostgreSQL database with requirements, and 0007 on one where a key is twice in
\* one of its four tables: the same content planned twice, an analysis that failed
\* and was asked for again, a start that was clicked twice.
UpgradeAccepted ==
    ~ENABLED Upgrade =>
        \/ revision = Latest
        \/ revision = 1 /\ dialect = "postgresql" /\ requirements # <<>>
        \/ revision = 6 /\ \E t \in Keyed : Repeated(recorded[t])

\* It can be descended, with two exceptions: 0009 once a step has called a
\* tool, and 0007 once a plan was asked for without a client's key.
DowngradeAccepted ==
    ~ENABLED Downgrade =>
        \/ revision = 0
        \/ revision = 9 /\ \E i \in DOMAIN decisions : decisions[i] > 1
        \/ revision = 7 /\ NoKey \in ToSet(recorded["planning_runs"])

\* The database refuses a migration, over the rows the programs write, in these four
\* cases and in no other.
ChainIsPassable == UpgradeAccepted /\ DowngradeAccepted

=============================================================================
