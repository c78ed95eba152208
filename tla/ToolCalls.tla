------------------------------ MODULE ToolCalls ------------------------------
(***************************************************************************)
(* The tool loop inside the steps of a run (modules/agent/service.py,      *)
(* _run_step) with its four gates: the decision check against the plan's   *)
(* tasks, the worker's tools and the granted permissions (decisions.py),   *)
(* the two allowances (limits.py), and invoke_tool's own gates (tools.py). *)
(* A successful call of a reading tool gives the model another decision in *)
(* the same step.  Retries, task statuses and drafts are AgentLoop's.      *)
(*   turn   : what the step is doing; "between" steps a claim is next      *)
(*   call   : the call in hand                                             *)
(*   step   : step number, calls of the step, and calls of the run as the  *)
(*            step counts them                                             *)
(*   cache  : this step's answers, by call                                 *)
(*   slots  : the slots of this step's decision rows                       *)
(*   log    : agent_tool_invocations; saved of its rows are committed      *)
(*   told   : the answer the model has in its next request, 0 for none     *)
(*   served : answers made so far, each with its number                    *)
(*   losses : transactions lost to a crash or an exception                 *)
(***************************************************************************)
EXTENDS Naturals, Sequences, FiniteSets

CONSTANTS Registry,      \* tool name -> permissions, risk, availability, nature
          Offered,       \* the tools of the task's worker
          Unknown,       \* a name that is no tool
          Granted,       \* permissions of the run
          RiskCeiling,   \* MAX_TOOL_RISK
          MaxStepTools, MaxRunTools,
          MaxSteps, MaxLosses

ASSUME RegistryAssumption == Offered \subseteq DOMAIN Registry /\ Unknown \notin DOMAIN Registry
ASSUME BoundsAssumption == {RiskCeiling, MaxStepTools, MaxRunTools, MaxSteps, MaxLosses} \subseteq Nat

VARIABLES turn, call, step, cache, slots, log, saved, told, served, losses

toolVars == <<turn, call, step, cache, slots, log, saved, told, served, losses>>

\* task: the plan's task the decision names, if any, or one the plan does not have.
Calls == [tool : DOMAIN Registry \cup {Unknown}, form : {"good", "malformed"},
          task : {"known", "unknown"}]

NoStep == [number |-> 0, calls |-> 0, ofRun |-> 0]

ToolsInit ==
    /\ turn = "between" /\ call \in {[tool |-> Unknown, form |-> "good", task |-> "known"]}
    /\ step = NoStep /\ cache = {} /\ slots = <<>>
    /\ log = <<>> /\ saved = 0
    /\ told = 0 /\ served = 0 /\ losses = 0

-----------------------------------------------------------------------------

CallsOfRun == Len(log)

\* Mutant: the cache outlives the step.
NoAnswersYetKept == cache

NoAnswersYet == {}

\* claim_step commits what the last step left, and the next step begins.
NextStep ==
    /\ turn = "between" /\ step.number < MaxSteps
    /\ turn' = "deciding"
    /\ step' = [number |-> step.number + 1, calls |-> 0, ofRun |-> CallsOfRun]
    /\ cache' = NoAnswersYet /\ slots' = <<>> /\ told' = 0
    /\ saved' = Len(log)
    /\ UNCHANGED <<call, log, served, losses>>

Row(status, error, answer, cached) ==
    [tool |-> call.tool, form |-> call.form, status |-> status, error |-> error,
     answer |-> answer, cached |-> cached, step |-> step.number]

Logged(row) == log' = Append(log, row)

\* The model fails or its decision is refused; or it decides something else than a
\* call, which is recorded in the slot after the calls of the step.
DecideOther ==
    /\ turn = "deciding"
    /\ turn' = "between"
    /\ slots' \in {slots, Append(slots, step.calls)}
    /\ UNCHANGED <<call, step, cache, log, saved, told, served, losses>>

\* Mutant: any registered tool passes the decision check.
GateAnyWorker(c) ==
    IF c.task = "unknown" THEN "task"
    ELSE IF c.tool \notin DOMAIN Registry THEN "tool"
    ELSE IF ~(Registry[c.tool].needs \subseteq Granted) THEN "permission"
    ELSE "none"

\* Where validate_semantics or validate_permissions stops a call.
Gate(c) ==
    IF c.task = "unknown" THEN "task"
    ELSE IF c.tool \notin Offered THEN "tool"
    ELSE IF ~(Registry[c.tool].needs \subseteq Granted) THEN "permission"
    ELSE "none"

Allowed(c) == Gate(c) = "none"

\* A refused call is logged, with what refused it, before the step fails.
Reject ==
    /\ turn = "deciding"
    /\ \E c \in Calls :
        /\ ~Allowed(c)
        /\ call' = c
        /\ log' = Append(log, [tool |-> c.tool, form |-> c.form, status |-> "BLOCKED",
                               error |-> Gate(c), answer |-> 0, cached |-> FALSE,
                               step |-> step.number])
    /\ turn' = "between"
    /\ UNCHANGED <<step, cache, slots, saved, told, served, losses>>

Spent == [step EXCEPT !.calls = @ + 1, !.ofRun = @ + 1]

\* The decision is recorded, in its slot of the step, before the allowances are
\* looked at.
Propose ==
    /\ turn = "deciding"
    /\ \E c \in Calls : Allowed(c) /\ call' = c
    /\ slots' = Append(slots, step.calls)
    /\ IF step.ofRun >= MaxRunTools THEN turn' = "failed" /\ UNCHANGED step
       ELSE IF step.calls >= MaxStepTools THEN turn' = "between" /\ UNCHANGED step
       ELSE turn' = "invoking" /\ step' = Spent
    /\ UNCHANGED <<cache, log, saved, told, served, losses>>

-----------------------------------------------------------------------------

Tool == Registry[call.tool]

Risky(t) == Registry[t].risk > RiskCeiling

InCache == {a \in cache : a.call = call}

\* What follows an answer: a draft or a question ends the step; otherwise the
\* model decides again, and has of the answer what the payload calls text.
Continue(answer) ==
    IF Tool.nature = "ends" THEN turn' = "between" /\ UNCHANGED told
    ELSE turn' = "deciding" /\ told' = IF Tool.text THEN answer ELSE 0

AnswerFromCache ==
    /\ turn = "invoking" /\ InCache # {}
    /\ \E a \in InCache : Logged(Row("SUCCESS", "none", a.answer, TRUE)) /\ Continue(a.answer)
    /\ UNCHANGED <<call, step, cache, slots, saved, served, losses>>

SwitchedOff == ~Tool.available

\* invoke_tool answers without the tool: it is switched off, or the arguments do
\* not fit its schema.
Decline ==
    /\ turn = "invoking" /\ InCache = {} /\ ~Risky(call.tool)
    /\ \/ SwitchedOff /\ Logged(Row("FAILED", "unavailable", 0, FALSE))
       \/ ~SwitchedOff /\ call.form = "malformed" /\ Logged(Row("BLOCKED", "arguments", 0, FALSE))
    /\ turn' = "between"
    /\ UNCHANGED <<call, step, cache, slots, saved, told, served, losses>>

Invoked == turn = "invoking" /\ InCache = {} /\ ~Risky(call.tool)
           /\ ~SwitchedOff /\ call.form = "good"

\* A sandbox job is committed with all that was open, but for the log row, which
\* comes after it.
Committed == IF Tool.nature = "runs" THEN Len(log) ELSE saved

Answer ==
    /\ Invoked
    /\ served' = served + 1
    /\ Logged(Row("SUCCESS", "none", served', FALSE)) /\ Continue(served')
    /\ cache' = cache \cup {[call |-> call, answer |-> served']}
    /\ saved' = Committed
    /\ UNCHANGED <<call, step, slots, losses>>

\* The tool refuses, fails or cannot be reached: the step fails.
Refuse ==
    /\ Invoked
    /\ served' = served + 1
    /\ \E status \in {"BLOCKED", "FAILED"} : Logged(Row(status, "refusal", served', FALSE))
    /\ turn' = "between"
    /\ saved' = Committed
    /\ UNCHANGED <<call, step, cache, slots, told, losses>>

\* Whatever is not committed is gone.
Lose(kept) ==
    /\ losses < MaxLosses
    /\ turn' = "between" /\ log' = SubSeq(log, 1, kept) /\ saved' = kept
    /\ losses' = losses + 1
    /\ UNCHANGED <<call, step, cache, slots, told, served>>

\* ToolRiskError is not among the exceptions the dispatch expects.
RiskEscapes == turn = "invoking" /\ InCache = {} /\ Risky(call.tool) /\ Lose(saved)

\* The worker dies, or between two steps loses its claim to another, which rolls
\* back what the last step only flushed.
Crash == Lose(saved)

\* The worker dies while it waits for a job in the sandbox.
CrashInSandbox == Invoked /\ Tool.nature = "runs" /\ Lose(Committed)

ToolsNext ==
    \/ NextStep \/ DecideOther \/ Reject \/ Propose
    \/ AnswerFromCache \/ Decline \/ Answer \/ Refuse
    \/ RiskEscapes \/ Crash \/ CrashInSandbox

ToolsSpec == ToolsInit /\ [][ToolsNext]_toolVars

-----------------------------------------------------------------------------

\* find_tools, narrowed to the worker's tools.
Discovered ==
    {t \in Offered : /\ Registry[t].available
                     /\ Registry[t].needs \subseteq Granted
                     /\ ~Risky(t)}

\* "A tool returned here is one the same runtime would not refuse", and no other
\* tool is ever run: find_tools and the gates on the way to a tool agree.  What is
\* asked of a tool of the catalogue is refused for the task the decision names or
\* for the arguments, never for the tool.
CatalogueIsTheBoundary ==
    \A i \in DOMAIN log :
        LET row == log[i] IN
        IF row.answer # 0 THEN row.tool \in Discovered
        ELSE row.error \in {"task", "arguments"} \/ row.tool \notin Discovered

\* Every answer a tool gave has its row, whatever order calls, refusals and
\* cached answers come in; only a lost transaction takes rows with it.
EveryAnswerIsLogged ==
    losses = 0 =>
        \A a \in 1..served :
            Cardinality({i \in DOMAIN log : log[i].answer = a /\ ~log[i].cached}) = 1

\* An answer from the cache was given by the same call in the same step.
CachedIsThisSteps ==
    \A i \in DOMAIN log :
        log[i].cached =>
            \E j \in 1..(i - 1) :
                /\ ~log[j].cached /\ log[j].status = "SUCCESS"
                /\ \A f \in {"tool", "form", "answer", "step"} : log[j][f] = log[i][f]

\* The rows of dispatched calls never exceed the run's allowance, over all the
\* steps of the run and whatever was lost in between.  A call the decision check
\* refused is logged past the allowance, and spends it for the steps that follow.
RunAllowanceHolds ==
    Cardinality({i \in DOMAIN log : log[i].error \notin {"task", "tool", "permission"}})
        <= MaxRunTools

\* "Records three rows (two calls and the final decision) rather than colliding on
\* one slot": the decisions of a step have slots of their own.
OneDecisionPerSlot == \A i, j \in DOMAIN slots : slots[i] = slots[j] => i = j

\* Calls are accounted for, over steps, cached answers, refusals and losses: every
\* answer in the log, no stale answer, allowances that hold, a row per decision.
CallsAreAccounted ==
    EveryAnswerIsLogged /\ CachedIsThisSteps /\ RunAllowanceHolds /\ OneDecisionPerSlot

\* "On success, is either terminal ... or feeds its result back for one more
\* decision": a model that decides again after a call has its answer.
AnswerIsFedBack ==
    turn = "deciding" /\ log # <<>> /\ log[Len(log)].step = step.number
        => told = log[Len(log)].answer

=============================================================================
