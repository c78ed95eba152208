----------------------------- MODULE GraphSearch -----------------------------
(***************************************************************************)
(* The two traversals of a dependency graph: the depth-first search for a  *)
(* cycle and Kahn's order, as modules/planning/graph.py runs them over the *)
(* tasks of a plan, modules/assignments/requirements.py over the           *)
(* requirements of an assignment and ai/validation.py over an analysis.    *)
(* needs[n] is what node n depends on; a node outside Nodes is a dangling  *)
(* reference.  The search takes roots and children in any order, for they  *)
(* come from Python sets; the order takes the least node that is free, and *)
(* the nodes are numbers so that there is one.                             *)
(*   path, pending : the stack, and what is left of each iterator on it    *)
(*   cycle         : the cycle found, closed, or <<>>                      *)
(*   strict        : the copy in requirements.py, which counts a           *)
(*                   dependency outside the graph as unmet                 *)
(***************************************************************************)
EXTENDS PlanGraph

CONSTANTS Nodes, Missing

ASSUME NodesAssumption == Nodes \subseteq Int /\ IsFiniteSet(Nodes)
ASSUME MissingAssumption == Missing \notin Nodes

VARIABLES needs, strict, phase, colour, path, pending, cycle, unmet, ready, order

graph == <<needs, strict>>
search == <<colour, path, pending, cycle>>
sorting == <<unmet, ready, order>>
searchVars == <<graph, phase, search, sorting>>

\* Who waits on whom, among the nodes there are.
Edges == {e \in Nodes \X Nodes : e[1] \in needs[e[2]]}

\* What a node waits for, as the order counts it.
Counted(n) == IF strict THEN needs[n] ELSE needs[n] \cap Nodes

SearchInit ==
    /\ needs \in [Nodes -> SUBSET (Nodes \cup {Missing})]
    /\ strict \in BOOLEAN
    /\ phase = "search"
    /\ colour = [n \in Nodes |-> "white"]
    /\ path = <<>> /\ pending = <<>> /\ cycle = <<>>
    /\ unmet = [n \in Nodes |-> Cardinality(Counted(n))]
    /\ ready = {n \in Nodes : Counted(n) = {}}
    /\ order = <<>>

-----------------------------------------------------------------------------

Depth == Len(path)

\* The next root that is not explored yet.
Root ==
    /\ phase = "search" /\ path = <<>>
    /\ \E n \in Nodes :
        /\ colour[n] = "white"
        /\ colour' = [colour EXCEPT ![n] = "grey"]
        /\ path' = <<n>> /\ pending' = <<needs[n]>>
    /\ UNCHANGED <<graph, phase, cycle, sorting>>

\* A dangling reference is not a cycle, and an explored node has none.
Pass ==
    /\ phase = "search" /\ path # <<>>
    /\ \E c \in pending[Depth] :
        /\ c \in Nodes => colour[c] = "black"
        /\ pending' = [pending EXCEPT ![Depth] = @ \ {c}]
    /\ UNCHANGED <<graph, phase, colour, path, cycle, sorting>>

Descend ==
    /\ phase = "search" /\ path # <<>>
    /\ \E c \in pending[Depth] \cap Nodes :
        /\ colour[c] = "white"
        /\ colour' = [colour EXCEPT ![c] = "grey"]
        /\ path' = Append(path, c)
        /\ pending' = Append([pending EXCEPT ![Depth] = @ \ {c}], needs[c])
    /\ UNCHANGED <<graph, phase, cycle, sorting>>

\* The child is on the path: the path from it on, closed, is the answer.
Close ==
    /\ phase = "search" /\ path # <<>>
    /\ \E c \in pending[Depth] \cap Nodes, i \in 1..Depth :
        /\ colour[c] = "grey" /\ path[i] = c
        /\ cycle' = Append(SubSeq(path, i, Depth), c)
    /\ phase' = "order"
    /\ UNCHANGED <<graph, colour, path, pending, sorting>>

\* Mutant: a node is explored once one of its children is left.
RetreatEarly ==
    /\ phase = "search" /\ path # <<>> /\ Cardinality(pending[Depth]) <= 1
    /\ colour' = [colour EXCEPT ![path[Depth]] = "black"]
    /\ path' = SubSeq(path, 1, Depth - 1) /\ pending' = SubSeq(pending, 1, Depth - 1)
    /\ UNCHANGED <<graph, phase, cycle, sorting>>

Retreat ==
    /\ phase = "search" /\ path # <<>> /\ pending[Depth] = {}
    /\ colour' = [colour EXCEPT ![path[Depth]] = "black"]
    /\ path' = SubSeq(path, 1, Depth - 1) /\ pending' = SubSeq(pending, 1, Depth - 1)
    /\ UNCHANGED <<graph, phase, cycle, sorting>>

SearchEnds ==
    /\ phase = "search" /\ path = <<>>
    /\ \A n \in Nodes : colour[n] # "white"
    /\ phase' = "order"
    /\ UNCHANGED <<graph, search, sorting>>

-----------------------------------------------------------------------------

Least(n, ns) == \A m \in ns : n <= m

\* Mutant: a node is free as soon as one of its dependencies is placed.
FreedByFirst(m, n) == n \in Counted(m)

\* Placing n was the last thing m waited for.
Freed(m, n) == n \in Counted(m) /\ unmet[m] = 1

Place ==
    /\ phase = "order"
    /\ \E n \in ready :
        /\ Least(n, ready)
        /\ order' = Append(order, n)
        /\ unmet' = [m \in Nodes |-> IF n \in Counted(m) THEN unmet[m] - 1 ELSE unmet[m]]
        /\ ready' = (ready \ {n}) \cup {m \in Nodes : Freed(m, n)}
    /\ UNCHANGED <<graph, phase, search>>

OrderEnds ==
    /\ phase = "order" /\ ready = {}
    /\ phase' = "ordered"
    /\ UNCHANGED <<graph, search, sorting>>

SearchNext ==
    \/ Root \/ Pass \/ Descend \/ Close \/ Retreat \/ SearchEnds
    \/ Place \/ OrderEnds

SearchSpec == SearchInit /\ [][SearchNext]_searchVars

-----------------------------------------------------------------------------

\* A cycle that is reported is one: a closed walk along dependencies.
CycleIsReal ==
    cycle # <<>> =>
        /\ Len(cycle) > 1 /\ cycle[1] = cycle[Len(cycle)]
        /\ \A i \in 1..(Len(cycle) - 1) :
              {cycle[i], cycle[i + 1]} \subseteq Nodes /\ cycle[i + 1] \in needs[cycle[i]]

\* The search reports a cycle exactly when there is one.
VerdictIsExact == phase # "search" => (cycle # <<>> <=> Cyclic(Nodes, Edges))

\* The search answers with a cycle, a real one, exactly when there is one.
SearchIsRight == CycleIsReal /\ VerdictIsExact

\* Nothing is placed twice, nor before what it depends on.
OrderFollowsNeeds ==
    \A i \in 1..Len(order) :
        /\ \A j \in 1..Len(order) : order[i] = order[j] => i = j
        /\ \A p \in needs[order[i]] \cap Nodes : \E j \in 1..(i - 1) : order[j] = p

\* The order leaves a node out exactly when there is a cycle, or, for the copy
\* that counts them, a dangling reference: callers tell by its length.
ShortOrderMeansCycle ==
    phase = "ordered" =>
        (Len(order) # Cardinality(Nodes)
            <=> \/ Cyclic(Nodes, Edges)
                \/ strict /\ \E n \in Nodes : Missing \in needs[n])

\* It is the one order the keys allow, the least free node first.
OrderIsKahns == phase = "ordered" /\ ~strict => order = TopologicalOrder(Nodes, Edges)

\* The order is the one its callers rely on, and its length tells them when it is
\* not an order of everything.
OrderIsRight == OrderFollowsNeeds /\ ShortOrderMeansCycle /\ OrderIsKahns

=============================================================================
