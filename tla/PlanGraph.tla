------------------------------ MODULE PlanGraph ------------------------------
(***************************************************************************)
(* The task graph of a plan (modules/planning/graph.py), as what the       *)
(* validator decides.  An edge <<p, q>> says that task q depends on task   *)
(* p.  GraphSearch models how the traversals compute it.                   *)
(***************************************************************************)
EXTENDS Integers, FiniteSets, Sequences

\* Every edge joins two different tasks of the plan.
Grounded(tasks, edges) == \A e \in edges : {e[1], e[2]} \subseteq tasks /\ e[1] # e[2]

\* There is a cycle exactly when some tasks all wait on one another.
Cyclic(tasks, edges) ==
    \E stuck \in (SUBSET tasks) \ {{}} : \A q \in stuck : \E p \in stuck : <<p, q>> \in edges

\* validate_edited_graph finds no violation.
Sound(tasks, edges) == Grounded(tasks, edges) /\ ~Cyclic(tasks, edges)

-----------------------------------------------------------------------------

\* q waits on p, directly or through others: every set that has p, and what
\* waits on one of its members, has q.
Follows(tasks, edges, p, q) ==
    \A reached \in SUBSET tasks :
        p \in reached /\ (\A e \in edges : e[1] \in reached => e[2] \in reached)
            => q \in reached

\* Kahn's order, the least free key first; keys on a cycle are left out.
TopologicalOrder(keys, edges) ==
    LET Placed(s) == {s[i] : i \in DOMAIN s}
        Free(s) == {k \in keys \ Placed(s) :
                        \A e \in edges : e[2] = k /\ e[1] \in keys => e[1] \in Placed(s)}
        prefix[n \in 0..Cardinality(keys)] ==
            IF n = 0 THEN <<>>
            ELSE LET s == prefix[n - 1]
                     free == Free(s)
                 IN IF free = {} THEN s
                    ELSE Append(s, CHOOSE k \in free : \A other \in free : k <= other)
    IN prefix[Cardinality(keys)]

=============================================================================
