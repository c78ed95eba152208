---------------------------- MODULE AgentLifecycle ----------------------------
(***************************************************************************)
(* What the agent runtime promises about the runs of one assignment: a run *)
(* starts CREATED and only ever moves along the transition table, so a     *)
(* terminal status is final, and a run is created only while no other is   *)
(* active (create_run asks active_run).  It does not promise that at most  *)
(* one is active: runs that are still CREATED stop nobody from creating    *)
(* another, and each of them may be started.  AgentLoop implements this    *)
(* module; AgentRun shows where concurrent requests on one run break it.   *)
(***************************************************************************)
EXTENDS AgentStatus

CONSTANT Runs       \* the runs the assignment may come to have

VARIABLE status     \* run -> status, "NONE" for a run not created yet

Init == \E r \in Runs : status = [s \in Runs |-> IF s = r THEN "CREATED" ELSE "NONE"]

Create(r) ==
    /\ status[r] = "NONE"
    /\ \A s \in Runs : status[s] \notin ActiveStatuses
    /\ status' = [status EXCEPT ![r] = "CREATED"]

Move(r, target) ==
    /\ status[r] \in Statuses /\ CanMove(status[r], target)
    /\ status' = [status EXCEPT ![r] = target]

Next == \E r \in Runs : Create(r) \/ \E target \in Statuses : Move(r, target)

Spec == Init /\ [][Next]_status

==============================================================================
