----------------------------- MODULE AgentStatus -----------------------------
(***************************************************************************)
(* The status vocabulary of an agent run and the transition table every    *)
(* status change is checked against (modules/agent/state_machine.py).  The *)
(* table is data in the code and data here.                                *)
(***************************************************************************)

Statuses == {"CREATED", "STARTING", "RUNNING", "WAITING_FOR_USER", "PAUSED",
             "BLOCKED", "COMPLETED", "FAILED", "CANCELLED"}

TerminalStatuses == {"COMPLETED", "FAILED", "CANCELLED"}

\* Statuses a sweep may reclaim: those in which a worker should be alive.
RecoverableStatuses == {"STARTING", "RUNNING"}

ResumableStatuses == {"WAITING_FOR_USER", "PAUSED", "BLOCKED"}

\* active_run: a run in one of these owns the assignment.
ActiveStatuses == {"STARTING", "RUNNING", "WAITING_FOR_USER", "PAUSED", "BLOCKED"}

AwaitingPerson == {"WAITING_FOR_USER", "PAUSED"}

Transitions ==
    [s \in Statuses |->
        CASE s = "CREATED"  -> {"STARTING", "CANCELLED"}
          [] s = "STARTING" -> {"RUNNING", "WAITING_FOR_USER", "PAUSED",
                                "BLOCKED", "FAILED", "CANCELLED"}
          [] s = "RUNNING"  -> {"WAITING_FOR_USER", "PAUSED", "BLOCKED",
                                "COMPLETED", "FAILED", "CANCELLED"}
          [] s = "WAITING_FOR_USER" -> {"RUNNING", "PAUSED", "BLOCKED",
                                        "FAILED", "CANCELLED"}
          [] s = "PAUSED"   -> {"RUNNING", "BLOCKED", "CANCELLED", "FAILED"}
          [] s = "BLOCKED"  -> {"RUNNING", "PAUSED", "CANCELLED", "FAILED"}
          [] OTHER          -> {}]

\* assert_transition: anything not in the table is refused with a 409.
CanMove(current, target) == target \in Transitions[current]

==============================================================================
