-------------------------- MODULE MCSpecification ---------------------------
(***************************************************************************)
(* Instances of Specification for TLC.                                     *)
(***************************************************************************)
EXTENDS Specification, TLC

Half == 5000

MCPatches ==
    {[status |-> s, text |-> Keep, deadline |-> Keep] : s \in {"DRAFT", "COMPLETED"}}
    \cup {[status |-> Keep, text |-> Keep, deadline |-> d] : d \in {"unset", "upcoming"}}

\* A specification that passes the gate, with a document and two criteria of
\* half the total each; and an analysed one with one criterion, nesting, a
\* prerequisite, a constraint and a technology.
MCReady == [status |-> "READY_FOR_ANALYSIS", issued |-> 3,
            content |-> [Nothing EXCEPT !.text = "full", !.deadline = "upcoming",
                !.requirements = {1, 3},
                !.criteria = {[id |-> 1, title |-> "a", weight |-> Half],
                              [id |-> 2, title |-> "b", weight |-> Half]},
                !.documents = Files]]

MCAnalysed == [status |-> "ANALYZED", issued |-> 2,
               content |-> [MCReady.content EXCEPT
                    !.criteria = {[id |-> 1, title |-> "a", weight |-> CriterionTotal]},
                    !.requirements = {1, 2}, !.parents = {<<2, 1>>}, !.needs = {<<2, 1>>},
                    !.listed = {[id |-> 1, section |-> "constraints", title |-> "a"]},
                    !.links = {"technologies"}, !.documents = {}]]

MCSeeds == {MCReady, MCAnalysed}

MCWeights == {Half}

Symmetry == Permutations(Sessions)
=============================================================================
