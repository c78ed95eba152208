------------------------------ MODULE MCPlanner ------------------------------
EXTENDS Planner

Area(k, serves) == [key |-> k, serves |-> serves]
Requirement(k, title, required) ==
    [key |-> k, title |-> title, required |-> required, explicit |-> TRUE]
Deliverable(k, required, serves) == [key |-> k, required |-> required, serves |-> serves]

Serves == {{}, {11}, {12}}

AreaLists == {<<>>} \cup {<<Area(1, s), Area(2, t)>> : s, t \in Serves}
             \cup {<<Area(1, s), Area(2, {}), Area(3, t)>> : s, t \in Serves}

RequirementLists ==
    {<<>>, <<Requirement(11, "a", "yes")>>}
    \cup {<<Requirement(11, "a", r), Requirement(12, t, q)>> :
            r, q \in {"yes", "no"}, t \in {"a", "b"}}
    \cup {<<Requirement(11, "a", "no"), Requirement(12, "b", "yes"), Requirement(13, "c", "yes")>>}

DeliverableLists ==
    {<<>>} \cup {<<Deliverable(21, r, s)>> : r \in {"yes", "no", "unsaid"}, s \in {{}, {12}}}
    \cup {<<Deliverable(21, "no", {11}), Deliverable(22, "yes", {12})>>}

\* Analyses of every shape, without dependencies.
Shapes ==
    {[areas |-> a, requirements |-> r, deliverables |-> d, edges |-> <<>>, checks |-> c] :
        a \in AreaLists, r \in RequirementLists, d \in DeliverableLists,
        c \in {<<>>, <<{}, {}>>, <<{11}, {21}>>, <<{1, 12}, {}, {22}>>}}

DependencyEnds == {1, 2, 11, 12, 21}
Dependency == DependencyEnds \X DependencyEnds

\* Every one, two or, within the areas and the requirements, three dependencies.
Orderings ==
    {[areas |-> <<Area(1, s), Area(2, {})>>,
      requirements |-> <<Requirement(11, "a", "yes"), Requirement(12, "b", "no")>>,
      deliverables |-> <<Deliverable(21, "yes", {12})>>, edges |-> e, checks |-> <<{11}>>] :
        s \in {{}, {11}},
        e \in {<<x>> : x \in Dependency} \cup {<<x, y>> : x, y \in Dependency}
              \cup {<<x, y, <<12, 11>>>> : x \in {<<2, 1>>, <<11, 1>>, <<21, 12>>}, y \in Dependency}}

\* A key said twice, within a kind or between two.
SharedKeys ==
    {[areas |-> <<Area(1, {}), Area(a, {r})>>,
      requirements |-> <<Requirement(r, "a", "yes"), Requirement(12, "b", "yes")>>,
      deliverables |-> <<Deliverable(d, "yes", {12}), Deliverable(22, "no", {})>>,
      edges |-> e, checks |-> <<{d}>>] :
        a \in {1, 2}, r \in {1, 2, 11, 12}, d \in {1, 12, 21, 22},
        e \in {<<>>} \cup {<<x>> : x \in {1, 2, 12, 22} \X {1, 2, 12, 22}}}

\* Three areas in a ring, with one area's key said twice, or with an unknown end.
Rings ==
    {[areas |-> <<Area(1, s), Area(a, {}), Area(3, t)>>,
      requirements |-> <<Requirement(11, "a", "yes"), Requirement(12, "a", "yes")>>,
      deliverables |-> <<>>, edges |-> e, checks |-> <<{3}>>] :
        s, t \in {{}, {12}}, a \in {1, 2, 3},
        e \in {<<<<1, 2>>, <<2, 3>>, <<3, 1>>>>, <<<<3, 1>>>>, <<<<3, 2>>, <<2, 3>>>>, <<<<99, 1>>, <<1, 1>>>>}}

MCAnalyses == Shapes \cup Orderings \cup SharedKeys \cup Rings

=============================================================================
