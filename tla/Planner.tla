------------------------------- MODULE Planner -------------------------------
(***************************************************************************)
(* From an analysis to a plan without a model: the semantic validation of  *)
(* the analyzer's output (ai/validation.py), the student's edits over it,  *)
(* the contract made of both and the deterministic planner                 *)
(* (modules/planning/planner.py), one step per item it turns into a task.  *)
(* Work areas, requirements and deliverables have numbers for keys; task   *)
(* Tn is the n-th task.                                                    *)
(*   contract : the analysis as the planner sees it                        *)
(*   at       : the item of the loop in hand                               *)
(*   linked   : the pairs of tasks the dependency in hand was applied to   *)
(*   tasks    : what each task depends on and the references it carries    *)
(*   index    : contract key -> tasks that serve it                        *)
(*   layers   : the tasks of each closed layer                             *)
(*   dropped  : work areas reported as having no task                      *)
(*   noted    : tasks with a note that an ordering was not applied         *)
(* Titles, efforts, resources, risks and preferences are left out.         *)
(***************************************************************************)
EXTENDS PlanGraph, FiniteSetsExt, SequencesExt

CONSTANTS Analyses,        \* what an analyzer may return, or a student make of it
          MaxOrientation, MaxRequirement, MaxVerification, MaxTasks

\* AnalyzerOutput, as far as a plan is made of it.
Analysis ==
    [areas : Seq([key : Int, serves : SUBSET Int]),
     requirements : Seq([key : Int, title : STRING, required : {"yes", "no"}, explicit : BOOLEAN]),
     deliverables : Seq([key : Int, required : {"yes", "no", "unsaid"}, serves : SUBSET Int]),
     edges : Seq(Int \X Int), checks : Seq(SUBSET Int)]

ASSUME AnalysesAssumption == Analyses \subseteq Analysis
ASSUME CapsAssumption ==
    /\ MaxOrientation \in Nat /\ MaxRequirement \in Nat
    /\ MaxVerification \in Nat /\ MaxTasks \in Nat

VARIABLES contract, stage, at, linked, tasks, index, layers, dropped, noted

builder == <<tasks, index, layers, dropped, noted>>
plannerVars == <<contract, stage, at, linked, builder>>

KeysOf(s) == {s[i].key : i \in DOMAIN s}

ContractKeys ==
    UNION ({KeysOf(contract.areas), KeysOf(contract.requirements), KeysOf(contract.deliverables)}
           \cup {ToSet(e) : e \in ToSet(contract.edges)}
           \cup {contract.areas[i].serves : i \in DOMAIN contract.areas}
           \cup {contract.deliverables[i].serves : i \in DOMAIN contract.deliverables}
           \cup ToSet(contract.checks))

\* The provider's output goes through validation; the payload a student has
\* edited does not: an edit replaces any of its parts, and only its shape is checked.
Entries == {"validate", "orient"}

PlannerInit ==
    /\ contract \in Analyses /\ stage \in Entries
    /\ at = 1 /\ linked = {}
    /\ tasks = <<>> /\ index = [k \in ContractKeys |-> {}] /\ layers = <<>>
    /\ dropped = {} /\ noted = {}

-----------------------------------------------------------------------------

\* The items at some positions of a list, in their order.
ItemsAt(s, positions) ==
    LET place(n) == CHOOSE i \in positions : Cardinality({j \in positions : j <= i}) = n
    IN  [n \in 1..Cardinality(positions) |-> s[place(n)]]

KeysUnique(s) == \A i, j \in DOMAIN s : s[i].key = s[j].key => i = j

\* Keys are unique within their kind, every end of a dependency is known and the
\* dependencies have no cycle.
Accepted ==
    LET known == KeysOf(contract.areas) \cup KeysOf(contract.requirements)
                 \cup KeysOf(contract.deliverables)
    IN /\ KeysUnique(contract.areas) /\ KeysUnique(contract.requirements)
       /\ KeysUnique(contract.deliverables)
       /\ Sound(known, ToSet(contract.edges))

\* A requirement titled like an earlier one is dropped; references to it stay.
Deduplicated(requirements) ==
    ItemsAt(requirements, {i \in DOMAIN requirements :
                               \A j \in 1..(i - 1) : requirements[j].title # requirements[i].title})

Validate ==
    /\ stage = "validate"
    /\ IF Accepted
       THEN /\ stage' = "orient"
            /\ contract' = [contract EXCEPT !.requirements = Deduplicated(@)]
       ELSE stage' = "refused" /\ UNCHANGED contract
    /\ UNCHANGED <<at, linked, builder>>

-----------------------------------------------------------------------------

AreaEdges == {e \in ToSet(contract.edges) : ToSet(e) \subseteq KeysOf(contract.areas)}

First(s, n) == SubSeq(s, 1, Min({n, Len(s)}))

\* The dependencies order the work areas; only validation sees to it.
AreasOrderable == KeysUnique(contract.areas) /\ ~Cyclic(KeysOf(contract.areas), AreaEdges)

AreaNamed(k) == contract.areas[CHOOSE i \in DOMAIN contract.areas : contract.areas[i].key = k]

\* The areas in dependency order; the first ones as they were declared, when
\* there is a cycle or a key is said twice.
OrderedAreas ==
    LET ranked == TopologicalOrder(KeysOf(contract.areas), AreaEdges) IN
    IF Len(ranked) = Len(contract.areas) THEN [i \in DOMAIN ranked |-> AreaNamed(ranked[i])]
    ELSE First(contract.areas, MaxOrientation)

Full == Len(tasks) >= MaxTasks

LayerStart == Cardinality(UNION ToSet(layers)) + 1

\* The tasks added since the last layer was closed.
OpenLayer == LayerStart..Len(tasks)

\* builder.add, on a builder with room.
Add(keys, needs, serves, delivers) ==
    /\ tasks' = Append(tasks, [needs |-> needs, serves |-> serves, delivers |-> delivers])
    /\ index' = [k \in DOMAIN index |-> IF k \in keys \cup delivers
                                        THEN index[k] \cup {Len(tasks) + 1} ELSE index[k]]

CloseLayer(next) ==
    /\ stage' = next /\ at' = 1
    /\ layers' = Append(layers, OpenLayer)

ServedBy(keys) == UNION {index[k] : k \in keys}

Orient ==
    /\ stage = "orient"
    /\ IF at > Len(OrderedAreas)
       THEN CloseLayer("develop") /\ UNCHANGED <<tasks, index, dropped>>
       ELSE LET area == OrderedAreas[at] IN
            /\ IF Full \/ Len(tasks) >= MaxOrientation
               THEN dropped' = dropped \cup {area.key} /\ UNCHANGED <<tasks, index>>
               ELSE /\ Add({area.key}, ServedBy({e[1] : e \in {f \in AreaEdges : f[2] = area.key}}),
                           area.serves, {})
                    /\ UNCHANGED dropped
            /\ at' = at + 1 /\ UNCHANGED <<stage, layers>>
    /\ UNCHANGED <<contract, linked, noted>>

-----------------------------------------------------------------------------

Orientation == layers[1]

\* Mutant: areas without a task count as well.
CoveredByAnyArea == UNION {OrderedAreas[i].serves : i \in DOMAIN OrderedAreas}

\* The requirements an orientation task works on.
CoveredByOrientation ==
    LET oriented == First(OrderedAreas, MaxOrientation) IN
    UNION {oriented[i].serves : i \in DOMAIN oriented}

RequiredFirst(s) ==
    ItemsAt(s, {i \in DOMAIN s : s[i].required # "no"})
        \o ItemsAt(s, {i \in DOMAIN s : s[i].required = "no"})

Develop ==
    LET ordered == First(RequiredFirst(contract.requirements), MaxRequirement) IN
    /\ stage = "develop"
    /\ IF at > Len(ordered) \/ (Full /\ ordered[at].key \notin CoveredByOrientation)
       THEN CloseLayer("assemble") /\ UNCHANGED <<tasks, index>>
       ELSE /\ IF ordered[at].key \in CoveredByOrientation THEN UNCHANGED <<tasks, index>>
               ELSE Add({ordered[at].key}, Orientation, {ordered[at].key}, {})
            /\ at' = at + 1 /\ UNCHANGED <<stage, layers>>
    /\ UNCHANGED <<contract, linked, dropped, noted>>

Developed == layers[2]

Assemble ==
    LET ordered == RequiredFirst(contract.deliverables) IN
    /\ stage = "assemble"
    /\ IF at > Len(ordered) \/ Full
       THEN stage' = "arrange" /\ at' = 1 /\ UNCHANGED <<tasks, index>>
       ELSE LET own == ServedBy(ordered[at].serves) \cap Developed
                needs == IF own # {} THEN own
                         ELSE IF Developed # {} THEN Developed ELSE Orientation
            IN Add({}, needs, {}, {ordered[at].key}) /\ at' = at + 1 /\ UNCHANGED stage
    /\ UNCHANGED <<contract, linked, layers, dropped, noted>>

-----------------------------------------------------------------------------

TaskEdges(ts) == {e \in (DOMAIN ts) \X (DOMAIN ts) : e[1] \in ts[e[2]].needs}

\* p already waits on q.
WouldCycle(ts, p, q) == Follows(DOMAIN ts, TaskEdges(ts), q, p)

\* An analyzer's dependency, applied to a pair of tasks: added, refused with a
\* note, or left as it is.
Link(p, q) ==
    IF p = q \/ q \in tasks[p].needs THEN UNCHANGED <<tasks, noted>>
    ELSE IF WouldCycle(tasks, p, q) THEN noted' = noted \cup {q} /\ UNCHANGED tasks
    ELSE tasks' = [tasks EXCEPT ![q].needs = @ \cup {p}] /\ UNCHANGED noted

\* The pairs a dependency is about, and which of two is met first in its loops.
Pairs(e) == index[e[1]] \X index[e[2]]
Sooner(x, y) == x[1] < y[1] \/ (x[1] = y[1] /\ x[2] <= y[2])

Arrange ==
    /\ stage = "arrange"
    /\ IF at > Len(contract.edges)
       THEN CloseLayer("verify") /\ UNCHANGED <<linked, tasks, noted>>
       ELSE LET left == Pairs(contract.edges[at]) \ linked IN
            /\ IF left = {}
               THEN at' = at + 1 /\ linked' = {} /\ UNCHANGED <<tasks, noted>>
               ELSE /\ \E pair \in left :
                           /\ \A other \in left : Sooner(pair, other)
                           /\ Link(pair[1], pair[2])
                           /\ linked' = linked \cup {pair}
                    /\ UNCHANGED at
            /\ UNCHANGED <<stage, layers>>
    /\ UNCHANGED <<contract, index, dropped>>

Assembled == layers[3]

\* What a check is about: the tasks that serve what it names, all that was
\* assembled, or the last task there is.
AppliesTo(check) ==
    LET named == ServedBy(check) IN
    IF named # {} THEN named ELSE IF Assembled # {} THEN Assembled ELSE {Len(tasks)}

Verify ==
    LET checks == First(contract.checks, MaxVerification) IN
    /\ stage = "verify"
    /\ IF at > Len(checks)
       THEN IF OpenLayer = {} THEN stage' = "planned" /\ UNCHANGED <<at, layers>>
            ELSE CloseLayer("planned")
       ELSE /\ at' = at + 1 /\ UNCHANGED layers
            /\ stage' = IF tasks = <<>> THEN "crashed" ELSE stage
    /\ IF at <= Len(checks) /\ tasks # <<>> /\ ~Full
       THEN Add({}, AppliesTo(checks[at]), {}, {})
       ELSE UNCHANGED <<tasks, index>>
    /\ UNCHANGED <<contract, linked, dropped, noted>>

PlannerNext == Validate \/ Orient \/ Develop \/ Assemble \/ Arrange \/ Verify

PlannerSpec == PlannerInit /\ [][PlannerNext]_plannerVars

-----------------------------------------------------------------------------

Planned == stage = "planned"

\* validate_graph, on what the planner returns.
ReferencesKnown ==
    /\ \A i \in DOMAIN tasks : tasks[i].serves \subseteq KeysOf(contract.requirements)
    /\ \A i \in DOMAIN tasks : tasks[i].delivers \subseteq KeysOf(contract.deliverables)

Covers ==
    /\ \A i \in DOMAIN contract.requirements :
          LET r == contract.requirements[i] IN
          r.required = "yes" /\ r.explicit => \E j \in DOMAIN tasks : r.key \in tasks[j].serves
    /\ \A i \in DOMAIN contract.deliverables :
          LET d == contract.deliverables[i] IN
          d.required = "yes" => \E j \in DOMAIN tasks : d.key \in tasks[j].delivers

Valid ==
    /\ tasks # <<>> /\ Len(tasks) <= MaxTasks
    /\ Sound(DOMAIN tasks, TaskEdges(tasks)) /\ ReferencesKnown /\ Covers

\* The analysis refers to a requirement that was dropped as a duplicate.
Dangling ==
    \E i \in DOMAIN contract.areas :
        contract.areas[i].serves \ KeysOf(contract.requirements) # {}

\* The plan validates, but for an analysis that says nothing, one with a
\* dangling reference, more required requirements than are looked at, or more
\* work than a plan may hold.
ValidatesUnless ==
    Planned =>
        \/ Valid \/ tasks = <<>> \/ Dangling \/ Full
        \/ Cardinality({i \in DOMAIN contract.requirements :
                            contract.requirements[i].required = "yes"}) > MaxRequirement

\* Whatever the contract says, no two tasks wait on each other.
NeverCyclic == Sound(DOMAIN tasks, TaskEdges(tasks))

\* A dependency of the analysis orders the tasks of its two ends, or they were
\* in the opposite order already; the tasks of two work areas it always orders,
\* where the areas can be ordered.
OrderingKept ==
    Planned =>
        \A e \in ToSet(contract.edges) : \A p \in index[e[1]], q \in index[e[2]] :
            \/ p = q \/ Follows(DOMAIN tasks, TaskEdges(tasks), p, q)
            \/ /\ ~({p, q} \subseteq Orientation) \/ ~AreasOrderable
               /\ Follows(DOMAIN tasks, TaskEdges(tasks), q, p)

\* Every task is the work of one milestone.
MilestonesPartition ==
    Planned =>
        \A t \in DOMAIN tasks : Cardinality({i \in DOMAIN layers : t \in layers[i]}) = 1

\* Nothing waits on a check, and a check only on another one when nothing was
\* assembled.
ChecksComeLast ==
    Planned /\ Len(layers) = 4 =>
        \A c \in layers[4], t \in DOMAIN tasks :
            c \in tasks[t].needs => t \in layers[4] /\ Assembled = {}

\* A work area has a task or is reported, but for those cut off without a word
\* when the areas cannot be ordered.
CutOff(i) == i > MaxOrientation /\ ~AreasOrderable
NoAreaIsLost ==
    Planned => \A i \in DOMAIN contract.areas :
                    \/ index[contract.areas[i].key] # {} \/ contract.areas[i].key \in dropped
                    \/ CutOff(i)

\* The plan says what the analysis asked for: it validates, nothing in it waits
\* on itself, no work area is lost without a word, and it is worked in the order
\* the analysis asked for, in milestones that share no task, its checks last --
\* also for what a student made of the analysis, with cycles, unknown ends and
\* keys said twice, where areas past the cap are lost and their order is free.
PlanFitsContract ==
    /\ ValidatesUnless /\ NeverCyclic /\ NoAreaIsLost
    /\ OrderingKept /\ MilestonesPartition /\ ChecksComeLast

=============================================================================
