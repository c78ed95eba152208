----------------------------- MODULE PlanHistory -----------------------------
(***************************************************************************)
(* What the plan service promises about the versions of one assignment's   *)
(* plan: a generation adds a version and rewrites none, a client's request *)
(* key names one version at most, and an approval is never taken back.     *)
(***************************************************************************)
EXTENDS Sequences, Naturals

CONSTANTS Keys, NoKey

VARIABLE history   \* the versions, oldest first

Init == history = <<>>

Used == {history[v].key : v \in DOMAIN history} \ {NoKey}

Add(key) ==
    /\ key \in (Keys \cup {NoKey}) \ Used
    /\ history' = Append(history, [key |-> key, approved |-> FALSE])

Approve(v) == history' = [history EXCEPT ![v].approved = TRUE]

Next == (\E key \in Keys \cup {NoKey} : Add(key)) \/ (\E v \in DOMAIN history : Approve(v))

Spec == Init /\ [][Next]_history

=============================================================================
