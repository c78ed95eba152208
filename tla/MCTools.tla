------------------------------ MODULE MCTools ------------------------------
EXTENDS ToolCalls

Entry(needs, risk, available, nature, text) ==
    [needs |-> needs, risk |-> risk, available |-> available, nature |-> nature, text |-> text]

\* A reading tool with a text, one without, a sandbox, a draft, and a tool for
\* each gate: too risky, switched off, not granted, another worker's.
MCRegistry ==
    [read |-> Entry({"READ"}, 0, TRUE, "reads", TRUE),
     calculate |-> Entry({"COMPUTE"}, 0, TRUE, "reads", FALSE),
     execute |-> Entry({"RUN"}, 2, TRUE, "runs", FALSE),
     write |-> Entry({"WRITE"}, 0, TRUE, "ends", FALSE),
     host |-> Entry({"READ"}, 3, TRUE, "runs", FALSE),
     off |-> Entry({"READ"}, 0, FALSE, "reads", FALSE),
     ungranted |-> Entry({"READ", "OTHER"}, 0, TRUE, "reads", FALSE),
     others |-> Entry({"READ"}, 0, TRUE, "reads", FALSE)]

MCOffered == DOMAIN MCRegistry \ {"others"}

MCGranted == {"READ", "COMPUTE", "RUN", "WRITE"}

=============================================================================
