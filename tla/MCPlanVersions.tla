--------------------------- MODULE MCPlanVersions ---------------------------
(***************************************************************************)
(* Instances of PlanVersions for TLC.                                      *)
(***************************************************************************)
EXTENDS PlanVersions, TLC

\* A plan of two independent tasks, under two milestones.
MCProposals == {[size |-> 2, edges |-> {}, milestones |-> <<{1}, {2}>>]}

Symmetry == Permutations(Sessions)
=============================================================================
