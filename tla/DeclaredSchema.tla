---------------------------- MODULE DeclaredSchema ----------------------------
(***************************************************************************)
(* The schema the entities declare (app/models/entities.py), as a set of   *)
(* facts.  A fact is a tuple: its kind, its table, and what it says.  The  *)
(* columns a table has from its creation and the indexes that only make    *)
(* queries fast are part of the fact that the table is there; a column is  *)
(* a fact of its own when a later migration adds, drops or alters it.      *)
(***************************************************************************)
EXTENDS Integers, FiniteSets

Tables(ts) == {<<"table", t>> : t \in ts}

Column(t, c) == <<"column", t, c>>

\* The column is NOT NULL, where a migration changes that.
Required(t, c) == <<"required", t, c>>

\* A plain index over an idempotency key.
Lookup(t) == <<"index", t, "idempotency_key">>

Unique(t, columns) == <<"unique", t, columns>>

Check(t, c, values) == <<"check", t, c, values>>

Refers(t, c, parent, ondelete) == <<"reference", t, c, parent, ondelete>>

\* The rows of ts go with their parent.
Owned(ts, c, parent) == {Refers(t, c, parent, "CASCADE") : t \in ts}

\* The rows of ts stay and lose the reference.
Noted(ts, c, parent) == {Refers(t, c, parent, "SET_NULL") : t \in ts}

-----------------------------------------------------------------------------

DeclaredAccounts ==
    Tables({"users", "workspaces", "workspace_members", "courses"})
    \cup Owned({"workspace_members"}, "user_id", "users")
    \cup Owned({"workspace_members", "courses"}, "workspace_id", "workspaces")
    \cup {Unique("users", {"email"}), Unique("courses", {"workspace_id", "code"}),
          Refers("workspaces", "owner_id", "users", "RESTRICT")}

DeclaredAssignments ==
    Tables({"assignments", "assignment_requirements"})
    \cup Owned({"assignments"}, "workspace_id", "workspaces")
    \cup Owned({"assignment_requirements"}, "assignment_id", "assignments")
    \cup Noted({"assignment_requirements"}, "parent_id", "assignment_requirements")
    \cup {Column("assignments", c) :
            c \in {"readiness_score", "ready_for_analysis_at", "requirement_sequence"}}
    \cup {Column("assignment_requirements", c) :
            c \in {"sequence", "status", "is_required", "position", "parent_id"}}
    \cup {Required("assignment_requirements", "sequence"),
          Unique("assignment_requirements", {"assignment_id", "sequence"}),
          Refers("assignments", "course_id", "courses", "RESTRICT")}

DeclaredSections ==
    Tables({"requirement_dependencies", "assignment_constraints", "evaluation_criteria",
            "deliverables", "technologies"})
    \cup Owned({"requirement_dependencies", "assignment_constraints", "evaluation_criteria",
                "deliverables"}, "assignment_id", "assignments")
    \cup Owned({"requirement_dependencies"}, "requirement_id", "assignment_requirements")
    \cup Owned({"requirement_dependencies"}, "depends_on_id", "assignment_requirements")
    \cup Owned({"technologies"}, "workspace_id", "workspaces")
    \cup {Column("assignment_constraints", c) : c \in {"type", "severity", "position"}}
    \cup {Column("evaluation_criteria", "position"),
          Unique("requirement_dependencies", {"requirement_id", "depends_on_id"}),
          Unique("technologies", {"workspace_id", "normalized_name", "version"})}

DeclaredLabels ==
    Tables({"assignment_technologies", "tags", "assignment_tags", "assignment_versions",
            "documents", "notifications"})
    \cup Owned({"assignment_technologies", "assignment_tags", "assignment_versions",
                "documents"}, "assignment_id", "assignments")
    \cup Owned({"assignment_technologies"}, "technology_id", "technologies")
    \cup Owned({"assignment_tags"}, "tag_id", "tags")
    \cup Owned({"tags"}, "workspace_id", "workspaces")
    \cup Owned({"notifications"}, "user_id", "users")
    \cup Noted({"assignment_versions"}, "created_by_id", "users")
    \cup {Unique("assignment_technologies", {"assignment_id", "technology_id"}),
          Unique("tags", {"workspace_id", "normalized_name"}),
          Unique("assignment_tags", {"assignment_id", "tag_id"}),
          Unique("assignment_versions", {"assignment_id", "version"}),
          Unique("documents", {"storage_key"})}

DeclaredAudit ==
    Tables({"audit_logs"}) \cup {Column("audit_logs", "assignment_id")}
    \cup Noted({"audit_logs"}, "user_id", "users")
    \cup Noted({"audit_logs"}, "workspace_id", "workspaces")
    \cup Noted({"audit_logs"}, "assignment_id", "assignments")

DeclaredAnalyses ==
    Tables({"assignment_analyses", "analysis_runs"})
    \cup Owned({"assignment_analyses", "analysis_runs"}, "assignment_id", "assignments")
    \cup Noted({"analysis_runs"}, "analysis_id", "assignment_analyses")
    \cup Noted({"assignment_analyses"}, "reviewed_by_id", "users")
    \cup Noted({"analysis_runs"}, "triggered_by_id", "users")
    \cup {Column("assignment_analyses", "revision"),
          Unique("assignment_analyses", {"assignment_id", "idempotency_key"}),
          Unique("analysis_runs", {"idempotency_key"})}

DeclaredFindings ==
    Tables({"analysis_questions", "analysis_classifications"})
    \cup Owned({"analysis_questions", "analysis_classifications"}, "analysis_id",
               "assignment_analyses")
    \cup Noted({"analysis_questions"}, "answered_by_id", "users")
    \cup {Unique("analysis_questions", {"analysis_id", "code"}),
          Unique("analysis_classifications", {"analysis_id", "kind", "value", "source"})}

DeclaredPlans ==
    Tables({"academic_work_plans"})
    \cup Owned({"academic_work_plans"}, "assignment_id", "assignments")
    \cup Noted({"academic_work_plans"}, "analysis_id", "assignment_analyses")
    \cup Noted({"academic_work_plans"}, "approved_by_id", "users")
    \cup {Column("academic_work_plans", "input_fingerprint"),
          Unique("academic_work_plans", {"assignment_id", "version"}),
          Unique("academic_work_plans", {"idempotency_key"}),
          Check("academic_work_plans", "status",
                {"DRAFT", "GENERATING", "READY_FOR_REVIEW", "APPROVED", "IN_PROGRESS",
                 "COMPLETED", "ARCHIVED", "STALE"})}

DeclaredTasks ==
    Tables({"plan_tasks", "plan_task_requirements", "plan_task_deliverables"})
    \cup Owned({"plan_tasks", "plan_task_requirements", "plan_task_deliverables"}, "plan_id",
               "academic_work_plans")
    \cup Owned({"plan_task_requirements", "plan_task_deliverables"}, "task_id", "plan_tasks")
    \cup {Unique("plan_tasks", {"plan_id", "key"}),
          Unique("plan_task_requirements", {"task_id", "requirement_key"}),
          Unique("plan_task_deliverables", {"task_id", "deliverable_key"})}

DeclaredOrder ==
    Tables({"plan_task_dependencies", "plan_milestones"})
    \cup Owned({"plan_task_dependencies", "plan_milestones"}, "plan_id", "academic_work_plans")
    \cup Owned({"plan_task_dependencies"}, "predecessor_id", "plan_tasks")
    \cup Owned({"plan_task_dependencies"}, "successor_id", "plan_tasks")
    \cup {Unique("plan_task_dependencies", {"predecessor_id", "successor_id"}),
          Unique("plan_milestones", {"plan_id", "key"})}

DeclaredPlanning ==
    Tables({"planning_runs", "planning_preferences"})
    \cup Owned({"planning_runs"}, "assignment_id", "assignments")
    \cup Noted({"planning_runs"}, "plan_id", "academic_work_plans")
    \cup Noted({"planning_runs"}, "triggered_by_id", "users")
    \cup Owned({"planning_preferences"}, "workspace_id", "workspaces")
    \cup {Column("planning_runs", "input_fingerprint"),
          Unique("planning_runs", {"idempotency_key"})}

DeclaredRuns ==
    Tables({"agent_runs"})
    \cup Owned({"agent_runs"}, "assignment_id", "assignments")
    \cup Noted({"agent_runs"}, "plan_id", "academic_work_plans")
    \cup Noted({"agent_runs"}, "triggered_by_id", "users")
    \cup {Column("agent_runs", c) : c \in {"max_tokens", "max_output_tokens_per_step",
                                           "max_input_tokens_per_step"}}
    \cup {Unique("agent_runs", {"idempotency_key"}),
          Check("agent_runs", "status",
                {"CREATED", "STARTING", "RUNNING", "WAITING_FOR_USER", "PAUSED", "BLOCKED",
                 "COMPLETED", "FAILED", "CANCELLED"})}

DeclaredAttempts ==
    Tables({"agent_task_executions", "agent_tool_invocations"})
    \cup Owned({"agent_task_executions", "agent_tool_invocations"}, "run_id", "agent_runs")
    \cup Noted({"agent_task_executions", "agent_tool_invocations"}, "task_id", "plan_tasks")
    \cup {Column("agent_task_executions", "worker"),
          Unique("agent_task_executions", {"run_id", "task_id", "attempt"}),
          Check("agent_task_executions", "status",
                {"SUCCESS", "PARTIAL_SUCCESS", "FAILED", "BLOCKED", "NEEDS_USER_INPUT",
                 "NEEDS_APPROVAL", "SKIPPED"}),
          Check("agent_tool_invocations", "status", {"SUCCESS", "FAILED", "BLOCKED"})}

DeclaredArtifacts ==
    Tables({"agent_artifacts", "agent_checkpoints"})
    \cup Owned({"agent_artifacts", "agent_checkpoints"}, "run_id", "agent_runs")
    \cup Noted({"agent_artifacts", "agent_checkpoints"}, "task_id", "plan_tasks")
    \cup Noted({"agent_artifacts"}, "created_by_id", "users")
    \cup Noted({"agent_checkpoints"}, "resolved_by_id", "users")
    \cup {Column("agent_artifacts", "ownership"), Column("agent_artifacts", "worker_name"),
          Unique("agent_artifacts", {"run_id", "task_id", "revision"}),
          Check("agent_artifacts", "status", {"DRAFT", "ACTIVE", "SUPERSEDED", "ARCHIVED"}),
          Check("agent_checkpoints", "status", {"PENDING", "RESOLVED", "CANCELLED", "EXPIRED"})}

DeclaredLog ==
    Tables({"agent_events", "agent_decisions"})
    \cup Owned({"agent_events", "agent_decisions"}, "run_id", "agent_runs")
    \cup Noted({"agent_events"}, "task_id", "plan_tasks")
    \cup Noted({"agent_events"}, "execution_id", "agent_task_executions")
    \cup {Column("agent_decisions", "slot"), Unique("agent_events", {"run_id", "sequence"}),
          Unique("agent_decisions", {"run_id", "iteration", "slot"})}

DeclaredJobs ==
    Tables({"execution_jobs"})
    \cup Owned({"execution_jobs"}, "workspace_id", "workspaces")
    \cup Noted({"execution_jobs"}, "assignment_id", "assignments")
    \cup Noted({"execution_jobs"}, "agent_run_id", "agent_runs")
    \cup Noted({"execution_jobs"}, "task_id", "plan_tasks")
    \cup Noted({"execution_jobs"}, "requested_by_id", "users")
    \cup {Unique("execution_jobs", {"idempotency_key"}),
          Check("execution_jobs", "cleanup_status", {"PENDING", "CLEANED", "FAILED", "SKIPPED"}),
          Check("execution_jobs", "status",
                {"CREATED", "VALIDATING", "REJECTED", "QUEUED", "STARTING", "RUNNING",
                 "COLLECTING_RESULTS", "SUCCEEDED", "FAILED", "TIMED_OUT", "CANCEL_REQUESTED",
                 "CANCELLED", "RESOURCE_LIMIT_EXCEEDED", "CLEANUP_PENDING"})}

DeclaredOutputs ==
    Tables({"execution_attempts", "execution_artifacts", "execution_events"})
    \cup Owned({"execution_attempts", "execution_artifacts", "execution_events"}, "job_id",
               "execution_jobs")
    \cup Owned({"execution_artifacts"}, "workspace_id", "workspaces")
    \cup Noted({"execution_artifacts"}, "attempt_id", "execution_attempts")
    \cup Noted({"execution_artifacts"}, "agent_artifact_id", "agent_artifacts")
    \cup {Unique("execution_attempts", {"job_id", "attempt"}),
          Unique("execution_events", {"job_id", "sequence"}),
          Check("execution_attempts", "status",
                {"SUCCEEDED", "FAILED", "TIMED_OUT", "RESOURCE_LIMIT_EXCEEDED", "CANCELLED",
                 "REJECTED"})}

\* Base.metadata.
Declared ==
    DeclaredAccounts \cup DeclaredAssignments \cup DeclaredSections \cup DeclaredLabels
    \cup DeclaredAudit \cup DeclaredAnalyses \cup DeclaredFindings \cup DeclaredPlans
    \cup DeclaredTasks \cup DeclaredOrder \cup DeclaredPlanning \cup DeclaredRuns
    \cup DeclaredAttempts \cup DeclaredArtifacts \cup DeclaredLog \cup DeclaredJobs
    \cup DeclaredOutputs

-----------------------------------------------------------------------------
(* Deleting a row. *)

\* delete-orphan collections: the session deletes these rows itself, whatever
\* the foreign key says.
Collections(parent) ==
    CASE parent = "assignment_analyses" -> {"analysis_questions", "analysis_classifications"}
      [] parent = "academic_work_plans" ->
            {"plan_tasks", "plan_task_requirements", "plan_task_deliverables",
             "plan_task_dependencies", "plan_milestones"}
      [] parent = "plan_tasks" ->
            {"plan_task_requirements", "plan_task_deliverables", "plan_task_dependencies"}
      [] OTHER -> {}

References(schema) == {f \in schema : f[1] = "reference"}

\* One step of the cascade.
Widened(schema, ts) ==
    ts \cup (UNION {Collections(u) : u \in ts})
    \cup {f[2] : f \in {g \in References(schema) : g[4] \in ts /\ g[5] = "CASCADE"}}

\* The tables whose rows go when a row of t is deleted; no chain of owners is
\* longer than five.
Lost(schema, t) ==
    LET one == Widened(schema, {t})
        two == Widened(schema, one)
        three == Widened(schema, two)
        four == Widened(schema, three)
    IN Widened(schema, four)

\* A row that stays holds on to one that would go, or cannot let go of it.
Refused(schema, t) ==
    LET lost == Lost(schema, t) IN
    \E f \in References(schema) :
        /\ f[4] \in lost /\ f[2] \notin lost
        /\ \/ f[5] = "RESTRICT"
           \/ f[5] = "SET_NULL" /\ Required(f[2], f[3]) \in schema

===============================================================================
