---------------------------- MODULE MCSequential ----------------------------
(***************************************************************************)
(* The parts of the system in which nothing runs beside anything else, in  *)
(* one instance: a behaviour runs one part (a planner, a graph search, the *)
(* tool loop of a run, a calculation, the contexts of a run, or the        *)
(* migrations of a database), and the others stay as they are.             *)
(***************************************************************************)
EXTENDS MCPlanner, GraphSearch, MCTools, MCCalc, MCContext, Migrations

VARIABLE part

PlannerIdle ==
    /\ contract = [areas |-> <<>>, requirements |-> <<>>, deliverables |-> <<>>,
                   edges |-> <<>>, checks |-> <<>>]
    /\ stage = "idle" /\ at = 1 /\ linked = {}
    /\ tasks = <<>> /\ index = <<>> /\ layers = <<>> /\ dropped = {} /\ noted = {}

SearchIdle ==
    /\ needs = [n \in Nodes |-> {}] /\ strict = FALSE
    /\ phase = "idle" /\ colour = [n \in Nodes |-> "white"]
    /\ path = <<>> /\ pending = <<>> /\ cycle = <<>>
    /\ unmet = [n \in Nodes |-> 0] /\ ready = {} /\ order = <<>>

ToolsIdle == ToolsInit

CalcIdle == tool = "none" /\ given = 0 /\ working = <<>> /\ verdict = "idle"

ContextIdle ==
    /\ node = [description |-> 0, criteria |-> <<>>, predecessors |-> <<>>,
               links |-> <<>>, titles |-> 0, key |-> 0]
    /\ limit = 2000 /\ drafts = <<>> /\ shown = Nothing

MigrationsIdle == MigrationsInit /\ dialect = "sqlite"

SequentialInit ==
    /\ part \in {"planner", "search", "tools", "calculation", "context", "migrations"}
    /\ IF part = "planner" THEN PlannerInit ELSE PlannerIdle
    /\ IF part = "search" THEN SearchInit ELSE SearchIdle
    /\ IF part = "tools" THEN ToolsInit ELSE ToolsIdle
    /\ IF part = "calculation" THEN CalcInit ELSE CalcIdle
    /\ IF part = "context" THEN ContextInit ELSE ContextIdle
    /\ IF part = "migrations" THEN MigrationsInit ELSE MigrationsIdle

SequentialNext ==
    /\ \/ part = "planner" /\ PlannerNext
       \/ part = "search" /\ SearchNext
       \/ part = "tools" /\ ToolsNext
       \/ part = "calculation" /\ CalcNext
       \/ part = "context" /\ ContextNext
       \/ part = "migrations" /\ MigrationsNext
    /\ part # "planner" => UNCHANGED plannerVars
    /\ part # "search" => UNCHANGED searchVars
    /\ part # "tools" => UNCHANGED toolVars
    /\ part # "calculation" => UNCHANGED calcVars
    /\ part # "context" => UNCHANGED contextVars
    /\ part # "migrations" => UNCHANGED migrationVars
    /\ UNCHANGED part

sequentialVars ==
    <<part, plannerVars, searchVars, toolVars, calcVars, contextVars, migrationVars>>

SequentialSpec == SequentialInit /\ [][SequentialNext]_sequentialVars

=============================================================================
