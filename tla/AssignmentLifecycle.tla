------------------------- MODULE AssignmentLifecycle -------------------------
(***************************************************************************)
(* The status of an assignment and the moves its table allows              *)
(* (modules/assignments/lifecycle.py).  ACTIVE is what phase 1 wrote for   *)
(* READY_FOR_ANALYSIS; old rows may still have it.                         *)
(***************************************************************************)

Building == {"DRAFT", "INCOMPLETE"}

Settled == {"COMPLETED", "ARCHIVED"}

\* What a client may ask for by name.
ClientSettable == Building \cup Settled

AssignmentStatuses ==
    ClientSettable \cup {"READY_FOR_ANALYSIS", "ANALYSIS_IN_PROGRESS", "ANALYZED", "ACTIVE"}

\* The statuses that promise a specification that passes the readiness gate.
Promising == {"READY_FOR_ANALYSIS", "ANALYZED"}

AllowedTransitions ==
    [s \in AssignmentStatuses |->
        CASE s \in Building ->
                ClientSettable \cup {"READY_FOR_ANALYSIS", "ANALYSIS_IN_PROGRESS"}
          [] s = "READY_FOR_ANALYSIS" -> AssignmentStatuses \ {"ACTIVE"}
          [] s = "ANALYSIS_IN_PROGRESS" -> AssignmentStatuses \ {"ACTIVE", "COMPLETED"}
          [] s = "ANALYZED" ->
                Promising \cup {"ANALYSIS_IN_PROGRESS", "INCOMPLETE", "ARCHIVED"}
          [] s = "COMPLETED" -> ClientSettable
          [] s = "ARCHIVED" -> {"DRAFT"}
          [] s = "ACTIVE" -> ClientSettable \cup {"ACTIVE", "READY_FOR_ANALYSIS"}]

\* ensure_transition_allowed lets the move through.
MayTurn(current, target) == target \in AllowedTransitions[current]

\* Mutant: ANALYZED is never taken back.
DemotedReadyOnly(status, ready) ==
    IF status = "READY_FOR_ANALYSIS" /\ ~ready THEN "INCOMPLETE" ELSE status

\* record_specification_change: a promise the specification no longer keeps
\* is taken back.
Demoted(status, ready) ==
    IF status \in Promising /\ ~ready THEN "INCOMPLETE" ELSE status

==============================================================================
